--------------------------- MODULE AnalysisProofs ---------------------------
(* What a cycle of the Floors 3 and 4 keeps true, for any candles, cycles and *)
(* limits of the calculators.                                                 *)
EXTENDS Analysis, FiniteSetTheorems, TLAPS

-----------------------------------------------------------------------------
(* Sequences that are made step by step. *)

\* A set of natural numbers has a smallest, so what holds of 0 and of each next holds of all.
LEMMA Smallest ==
  ASSUME NEW T \in SUBSET Nat, T # {}
  PROVE  \E x \in T : \A y \in T : x <= y
<1> PICK n \in T : TRUE
  OBVIOUS
<1> DEFINE S == 0..n
           W == {0..k : k \in {m \in T : m <= n}}
<1>0. IsFiniteSet(S)
  BY FS_Interval
<1>1. W \subseteq FiniteSubsetsOf(S) /\ W # {}
  <2>1. FiniteSubsetsOf(S) = SUBSET S
    BY <1>0, FS_FiniteSubsetsOfFinite
  <2>2. W # {}
    OBVIOUS
  <2>3. \A k \in T : k <= n => 0..k \in SUBSET S
    OBVIOUS
  <2> QED BY <2>1, <2>2, <2>3
<1> HIDE DEF W, S
<1>2. IsWellFoundedOn(StrictSubsetOrdering(S), FiniteSubsetsOf(S))
  BY FS_StrictSubsetOrderingWellFounded
<1>3. PICK x \in W : \A y \in W : ~(<<y, x>> \in StrictSubsetOrdering(S))
  BY <1>1, <1>2, WFMin
<1>4. PICK k \in T : k <= n /\ x = 0..k
  BY DEF W
<1>5. ASSUME NEW y \in T, y < k PROVE FALSE
  <2>1. 0..y \in W
    BY <1>4, <1>5 DEF W
  <2>2. 0..y \subseteq 0..k /\ 0..k \subseteq S /\ 0..y # 0..k
    BY <1>4, <1>5 DEF S
  <2> QED BY <1>3, <1>4, <2>1, <2>2 DEF StrictSubsetOrdering
<1> QED BY <1>5

LEMMA Induction ==
  ASSUME NEW P \in SUBSET Nat, 0 \in P, \A n \in P : n + 1 \in P
  PROVE  P = Nat
<1> SUFFICES ASSUME NEW m \in Nat \ P PROVE FALSE
  OBVIOUS
<1>1. PICK x \in Nat \ P : \A y \in Nat \ P : x <= y
  BY Smallest
<1>2. x - 1 \in P
  BY <1>1
<1> QED BY <1>1, <1>2

LEMMA ConcatMembers ==
  ASSUME NEW T, NEW s \in Seq(T), NEW t \in Seq(T)
  PROVE  s \o t \in Seq(T) /\ ToSet(s \o t) = ToSet(s) \cup ToSet(t)
<1>1. ASSUME NEW x \in ToSet(s) PROVE x \in ToSet(s \o t)
  <2>1. PICK i \in 1 .. Len(s) : x = s[i]
    BY <1>1 DEF ToSet
  <2>2. i \in 1 .. Len(s \o t) /\ (s \o t)[i] = x
    BY <2>1
  <2> QED BY <2>2 DEF ToSet
<1>2. ASSUME NEW x \in ToSet(t) PROVE x \in ToSet(s \o t)
  <2>1. PICK i \in 1 .. Len(t) : x = t[i]
    BY <1>2 DEF ToSet
  <2>2. Len(s) + i \in 1 .. Len(s \o t) /\ (s \o t)[Len(s) + i] = x
    BY <2>1
  <2> QED BY <2>2 DEF ToSet
<1>3. ASSUME NEW x \in ToSet(s \o t) PROVE x \in ToSet(s) \cup ToSet(t)
  <2>1. PICK i \in 1 .. Len(s) + Len(t) : x = (s \o t)[i]
    BY <1>3 DEF ToSet
  <2>2. CASE i <= Len(s)
    <3>1. i \in 1 .. Len(s) /\ s[i] = x
      BY <2>1, <2>2
    <3> QED BY <3>1 DEF ToSet
  <2>3. CASE i > Len(s)
    <3>1. i - Len(s) \in 1 .. Len(t) /\ t[i - Len(s)] = x
      BY <2>1, <2>3
    <3> QED BY <3>1 DEF ToSet
  <2> QED BY <2>1, <2>2, <2>3
<1> QED BY <1>1, <1>2, <1>3

\* f begins with first, and each next one is made of the one before.
Makes(step, S) == step \in [Nat -> [S -> S]]
MadeBy(f, first, step, S, n) ==
  f \in [0 .. n -> S] /\ f[0] = first /\ \A i \in 1 .. n : f[i] = step[i][f[i - 1]]

\* What is made step by step out of what was there before can be made to any length.
LEMMA Recursion ==
  ASSUME NEW S, NEW first \in S, NEW step, Makes(step, S), NEW n \in Nat
  PROVE  \E f : MadeBy(f, first, step, S, n)
<1> DEFINE Made(f, k) == f \in [0 .. k -> S] /\ f[0] = first /\ \A i \in 1 .. k : f[i] = step[i][f[i - 1]]
           P == {k \in Nat : \E f : Made(f, k)}
<1>0. step \in [Nat -> [S -> S]]
  BY DEF Makes
<1>1. 0 \in P
  <2> DEFINE f == [i \in 0 .. 0 |-> first]
  <2>1. Made(f, 0)
    OBVIOUS
  <2> QED BY <2>1
<1>2. ASSUME NEW k \in Nat, NEW f, Made(f, k) PROVE \E g : Made(g, k + 1)
  <2> DEFINE g == [i \in 0 .. k + 1 |-> IF i = k + 1 THEN step[k + 1][f[k]] ELSE f[i]]
  <2>0. f \in [0 .. k -> S] /\ f[0] = first /\ \A i \in 1 .. k : f[i] = step[i][f[i - 1]]
    BY <1>2
  <2>1. g \in [0 .. k + 1 -> S] /\ g[0] = first
    BY <1>0, <2>0
  <2>2. ASSUME NEW i \in 1 .. k + 1 PROVE g[i] = step[i][g[i - 1]]
    <3>1. g[i - 1] = f[i - 1]
      OBVIOUS
    <3>2. CASE i = k + 1
      <4>1. g[i] = step[i][f[k]]
        BY <3>2
      <4>2. i - 1 = k
        BY <3>2
      <4> HIDE DEF g
      <4> QED BY <3>1, <4>1, <4>2
    <3>3. CASE i # k + 1
      <4>1. i \in 1 .. k
        BY <3>3
      <4>2. g[i] = f[i] /\ f[i] = step[i][f[i - 1]]
        BY <2>0, <4>1
      <4> HIDE DEF g
      <4> QED BY <3>1, <4>2
    <3> QED BY <3>2, <3>3
  <2> HIDE DEF g
  <2> QED BY <2>1, <2>2
<1> HIDE DEF Made
<1>3. ASSUME NEW k \in P PROVE k + 1 \in P
  BY <1>2, <1>3
<1>4. P \subseteq Nat
  OBVIOUS
<1>5. P = Nat
  <2> HIDE DEF P
  <2> QED BY <1>1, <1>3, <1>4, Induction
<1>6. PICK f : Made(f, n)
  BY <1>5
<1> QED BY <1>6 DEF Made, MadeBy

\* Sequences put together have the members of each.
LEMMA FlattenMembers ==
  ASSUME NEW T, NEW n \in Nat, NEW ss \in [1 .. n -> Seq(T)], NEW x
  PROVE  /\ FlattenSeq(ss) \in Seq(T)
         /\ x \in ToSet(FlattenSeq(ss)) <=> \E i \in 1 .. n : x \in ToSet(ss[i])
<1>0. Len(ss) = n
  OBVIOUS
<1>1. CASE n = 0
  BY <1>0, <1>1 DEF FlattenSeq, ToSet
<1>2. CASE n > 0
  <2> DEFINE S == Seq(T)
             Glue(s, i) == s \o ss[i]
             Flat(f) == f = [i \in 1 .. n |-> IF i = 1 THEN ss[i] ELSE Glue(f[i - 1], i)]
             all == CHOOSE f : Flat(f)
  <2>1. FlattenSeq(ss) = all[n]
    BY <1>0, <1>2 DEF FlattenSeq
  <2>2. \A s \in S, i \in 1 .. n : Glue(s, i) \in S /\ ToSet(Glue(s, i)) = ToSet(s) \cup ToSet(ss[i])
    BY ConcatMembers
  <2>3. \A i \in 1 .. n : ss[i] \in S
    OBVIOUS
  <2> HIDE DEF S, Glue
  <2>4. Flat(all)
    <3> DEFINE step == [i \in Nat |-> [s \in S |-> IF i < n THEN Glue(s, i + 1) ELSE s]]
    <3>1. Makes(step, S)
      BY <2>2 DEF Makes
    <3>2. ss[1] \in S /\ n - 1 \in Nat
      BY <1>2, <2>3
    <3> HIDE DEF step
    <3>3. PICK f : MadeBy(f, ss[1], step, S, n - 1)
      BY <3>1, <3>2, Recursion
    <3> USE DEF step
    <3>6. /\ f \in [0 .. n - 1 -> S] /\ f[0] = ss[1]
          /\ \A i \in 1 .. n - 1 : f[i] = step[i][f[i - 1]]
      BY <3>3 DEF MadeBy
    <3> DEFINE g == [i \in 1 .. n |-> f[i - 1]]
               h == [i \in 1 .. n |-> IF i = 1 THEN ss[i] ELSE Glue(g[i - 1], i)]
    <3>4. ASSUME NEW i \in 1 .. n PROVE g[i] = h[i]
      <4>1. CASE i = 1
        <5>1. g[i] = f[0] /\ h[i] = ss[i]
          BY <4>1
        <5> HIDE DEF g, h
        <5> QED BY <3>6, <4>1, <5>1
      <4>2. CASE i # 1
        <5>1. i - 1 \in 1 .. n - 1 /\ i - 1 < n /\ i - 1 + 1 = i /\ f[i - 1 - 1] \in S
          BY <3>6, <4>2
        <5>2. f[i - 1] = step[i - 1][f[i - 1 - 1]]
          BY <3>6, <5>1
        <5>3. f[i - 1] = Glue(f[i - 1 - 1], i)
          BY <5>1, <5>2
        <5>4. g[i] = f[i - 1] /\ g[i - 1] = f[i - 1 - 1]
          BY <5>1
        <5>5. h[i] = Glue(g[i - 1], i)
          <6> HIDE DEF g
          <6> QED BY <4>2
        <5> HIDE DEF g, h
        <5> QED BY <5>3, <5>4, <5>5
      <4> QED BY <4>1, <4>2
    <3>5. Flat(g)
      <4> DEFINE a == g
                 b == h
      <4>1. a = [i \in 1 .. n |-> a[i]] /\ b = [i \in 1 .. n |-> b[i]]
        OBVIOUS
      <4>2. a = b
        <5> HIDE DEF g, h
        <5> QED BY <3>4, <4>1
      <4> QED BY <4>2
    <3> QED BY <3>5
  <2> HIDE DEF all
  <2>5. ASSUME NEW i \in 1 .. n PROVE all[i] = IF i = 1 THEN ss[i] ELSE Glue(all[i - 1], i)
    BY <2>4
  <2> DEFINE Holds(k) == all[k] \in S /\ (x \in ToSet(all[k]) <=> \E i \in 1 .. k : x \in ToSet(ss[i]))
             Q == {k \in Nat : k + 1 <= n => Holds(k + 1)}
  <2>6. Holds(1)
    <3>1. all[1] = ss[1]
      BY <1>2, <2>5
    <3>2. ss[1] \in S /\ 1 .. 1 = {1}
      BY <1>2, <2>3
    <3> QED BY <3>1, <3>2
  <2>7. ASSUME NEW k \in Nat, k + 2 <= n, Holds(k + 1) PROVE Holds(k + 2)
    <3>1. k + 2 \in 1 .. n /\ k + 2 # 1
      BY <2>7
    <3>2. k + 2 - 1 = k + 1
      OBVIOUS
    <3>3. all[k + 2] = Glue(all[k + 2 - 1], k + 2)
      BY <2>5, <3>1
    <3>4. all[k + 2] = Glue(all[k + 1], k + 2)
      BY <3>2, <3>3, Zenon
    <3>5. all[k + 2] \in S /\ ToSet(all[k + 2]) = ToSet(all[k + 1]) \cup ToSet(ss[k + 2])
      BY <2>2, <2>7, <3>1, <3>4
    <3>6. 1 .. k + 2 = (1 .. k + 1) \cup {k + 2}
      OBVIOUS
    <3> QED BY <2>7, <3>5, <3>6
  <2> HIDE DEF Holds
  <2>8. Q = Nat
    <3>1. Q \subseteq Nat
      OBVIOUS
    <3>2. 0 \in Q
      BY <2>6
    <3>3. ASSUME NEW k \in Q PROVE k + 1 \in Q
      BY <2>7, <3>3
    <3> HIDE DEF Q
    <3> QED BY <3>1, <3>2, <3>3, Induction
  <2>9. Holds(n)
    <3>1. n - 1 \in Nat /\ n - 1 + 1 = n
      BY <1>2
    <3>2. n - 1 + 1 <= n => Holds(n - 1 + 1)
      BY <2>8, <3>1
    <3> QED BY <3>1, <3>2
  <2> QED BY <2>1, <2>9 DEF Holds, S
<1> QED BY <1>1, <1>2
-----------------------------------------------------------------------------
(* The cooldown. *)

\* What the psychology head remembers of a cooldown; the head's clock stands still
\* in a cycle it raises in, what is owed goes on with the cycles it refreshes in.
IsMind(m) ==
  /\ {"cooldown", "left", "decayed"} \subseteq DOMAIN m
  /\ m.cooldown \in BOOLEAN /\ m.left \in Nat /\ m.decayed \in Nat \cup {None}
  /\ m.cooldown => m.left > 0

Cooling ==
  /\ IsMind(mind) /\ owed \in Nat
  /\ mind.cooldown => mind.left <= owed

LEMMA MaxOfTwo ==
  ASSUME NEW a \in Int, NEW b \in Int
  PROVE  /\ Max({a, b}) = IF a >= b THEN a ELSE b
         /\ Min({a, b}) = IF a <= b THEN a ELSE b
<1>1. Max({a, b}) \in {a, b} /\ \A y \in {a, b} : Max({a, b}) >= y
  <2>1. \E x \in {a, b} : \A y \in {a, b} : x >= y
    OBVIOUS
  <2> QED BY <2>1 DEF Max
<1>2. Min({a, b}) \in {a, b} /\ \A y \in {a, b} : Min({a, b}) <= y
  <2>1. \E x \in {a, b} : \A y \in {a, b} : x <= y
    OBVIOUS
  <2> QED BY <2>1 DEF Min
<1> QED BY <1>1, <1>2

LEMMA DecayKeeps ==
  ASSUME NEW m, IsMind(m)
  PROVE  /\ IsMind(Decay(m))
         /\ Decay(m).cooldown => m.cooldown
         /\ Decay(m).cooldown /\ m.decayed = None => Decay(m).left = m.left
         /\ Decay(m).cooldown /\ m.decayed # None => Decay(m).left = m.left - m.decayed
<1>1. CASE ~m.cooldown
  BY <1>1 DEF Decay
<1>2. CASE m.cooldown /\ (m.decayed = None \/ m.decayed = 0)
  <2> DEFINE d == Decay(m)
  <2>1. d = [m EXCEPT !.decayed = 0]
    BY <1>2 DEF Decay
  <2> HIDE DEF d
  <2>2. DOMAIN d = DOMAIN m /\ d.decayed = 0 /\ d.cooldown = m.cooldown /\ d.left = m.left
    BY <2>1 DEF IsMind
  <2>3. IsMind(d)
    BY <2>2 DEF IsMind
  <2>4. m.decayed # None => m.left = m.left - m.decayed
    BY <1>2 DEF IsMind
  <2> QED BY <1>2, <2>2, <2>3, <2>4 DEF d
<1>3. CASE m.cooldown /\ m.decayed # None /\ m.decayed # 0
  <2> DEFINE left == m.left - m.decayed
             runs == left > 0
             rest == Max({0, left})
  <2>1. Decay(m) = [m EXCEPT !.decayed = 0, !.cooldown = runs, !.left = rest]
    BY <1>3 DEF Decay
  <2>2. left \in Int /\ runs \in BOOLEAN /\ rest = IF left > 0 THEN left ELSE 0
    BY <1>3, MaxOfTwo DEF IsMind
  <2> HIDE DEF rest
  <2> DEFINE d == Decay(m)
  <2>3. /\ DOMAIN d = DOMAIN m
        /\ d.decayed = 0 /\ d.cooldown = runs /\ d.left = rest
    <3> HIDE DEF runs
    <3> QED BY <2>1 DEF IsMind
  <2> HIDE DEF d
  <2>4. IsMind(d)
    <3>1. runs => rest > 0
      BY <2>2
    <3>2. rest \in Nat
      BY <2>2
    <3> HIDE DEF runs
    <3> QED BY <2>2, <2>3, <3>1, <3>2 DEF IsMind
  <2>5. d.cooldown => d.left = m.left - m.decayed
    BY <2>2, <2>3
  <2> QED BY <1>3, <2>3, <2>4, <2>5 DEF d
<1> QED BY <1>1, <1>2, <1>3

\* The head takes the cooldown that is reported or keeps its own.
LEMMA ProcessCooldown ==
  ASSUME NEW m, IsMind(m), NEW s, IsCooldown(s.cooldown)
  PROVE  /\ DOMAIN Process(m, s) = DOMAIN m
         /\ Process(m, s).decayed = m.decayed
         /\ s.cooldown = <<>> =>
              Process(m, s).cooldown = m.cooldown /\ Process(m, s).left = m.left
         /\ s.cooldown # <<>> =>
              /\ Process(m, s).cooldown = (Process(m, s).left > 0)
              /\ Process(m, s).left = s.cooldown[1].remaining
              /\ s.cooldown[1].remaining \in Nat
<1> DEFINE loss == LastOr(s.loss, [count |-> m.losses, sequence |-> m.sequence])
           cooldown == LastOr(s.cooldown, [active |-> m.cooldown, remaining |-> m.left])
           trap == LastOr(s.trap, [pressure |-> m.trap, density |-> m.density])
           mistakes == LastOr(s.mistakes, [count |-> m.mistakes, sameZone |-> m.sameZone])
           repeated == IF s.mistakes = <<>> THEN m.repeated
                       ELSE CASE mistakes.sameZone >= 2 -> TRUE [] mistakes.sameZone = 0 -> FALSE
                              [] OTHER -> m.repeated
           allowed == LastOr(s.discipline, m.allowed)
           active == cooldown.active
           remaining == cooldown.remaining
           p == Process(m, s)
<1>1. p = [m EXCEPT !.allowed = allowed, !.cooldown = active, !.left = remaining,
                    !.losses = loss.count, !.sequence = loss.sequence,
                    !.trap = trap.pressure, !.density = trap.density,
                    !.mistakes = mistakes.count, !.sameZone = mistakes.sameZone,
                    !.repeated = repeated]
  BY DEF Process
<1>2. s.cooldown = <<>> => active = m.cooldown /\ remaining = m.left
  BY DEF LastOr
<1>3. s.cooldown # <<>> =>
        /\ active = (remaining > 0) /\ remaining = s.cooldown[1].remaining /\ remaining \in Nat
  <2> SUFFICES ASSUME s.cooldown # <<>> PROVE active = (remaining > 0) /\ remaining = s.cooldown[1].remaining /\ remaining \in Nat
    OBVIOUS
  <2>1. PICK left \in Nat : s.cooldown = <<[active |-> left > 0, remaining |-> left]>>
    BY DEF IsCooldown
  <2>2. cooldown = [active |-> left > 0, remaining |-> left] /\ s.cooldown[1].remaining = left
    BY <2>1 DEF LastOr
  <2> HIDE DEF cooldown
  <2> QED BY <2>2
<1> HIDE DEF loss, trap, mistakes, repeated, allowed, active, remaining, p
<1>4. /\ DOMAIN p = DOMAIN m
      /\ p.decayed = m.decayed /\ p.cooldown = active /\ p.left = remaining
  BY <1>1 DEF IsMind
<1> QED BY <1>2, <1>3, <1>4 DEF p

\* A refresh leaves no more of a cooldown than what is owed.
LEMMA RefreshCools ==
  ASSUME NEW inputs, NEW minutes \in Nat, NEW failed,
         Cooling, Refresh(inputs, minutes, failed), IsCooldown(inputs["Psychology"].cooldown)
  PROVE  Cooling'
<1> DEFINE said == inputs["Psychology"]
           awake == [mind EXCEPT !.decayed = Later(@, minutes)]
           slept == Decay(awake)
<1>1. /\ DOMAIN awake = DOMAIN mind /\ awake.decayed = Later(mind.decayed, minutes)
      /\ awake.cooldown = mind.cooldown /\ awake.left = mind.left
  BY DEF Cooling, IsMind
<1>2. /\ mind' = IF "Psychology" \in failed THEN awake ELSE Process(slept, said)
      /\ owed' = IF "Psychology" \in failed THEN owed ELSE Owed(said, minutes)
  BY DEF Refresh
<1> HIDE DEF awake
<1>3. IsMind(awake)
  BY <1>1 DEF Cooling, IsMind, Later
<1>4. CASE "Psychology" \in failed
  BY <1>1, <1>2, <1>3, <1>4 DEF Cooling
<1>5. CASE "Psychology" \notin failed
  <2>1. /\ IsMind(slept)
        /\ slept.cooldown => awake.cooldown
        /\ slept.cooldown /\ awake.decayed = None => slept.left = awake.left
        /\ slept.cooldown /\ awake.decayed # None => slept.left = awake.left - awake.decayed
    BY <1>3, DecayKeeps
  <2> HIDE DEF slept, said
  <2> DEFINE after == Process(slept, said)
  <2>2. IsCooldown(said.cooldown)
    BY DEF said
  <2>3. /\ DOMAIN after = DOMAIN slept
        /\ after.decayed = slept.decayed
        /\ said.cooldown = <<>> => after.cooldown = slept.cooldown /\ after.left = slept.left
        /\ said.cooldown # <<>> =>
             /\ after.cooldown = (after.left > 0) /\ after.left = said.cooldown[1].remaining
             /\ said.cooldown[1].remaining \in Nat
    BY <2>1, <2>2, ProcessCooldown
  <2>4. mind' = after /\ owed' = Owed(said, minutes)
    BY <1>2, <1>5
  <2> HIDE DEF after
  <2>5. CASE said.cooldown # <<>>
    <3>1. owed' = after.left
      BY <2>3, <2>4, <2>5 DEF Owed
    <3>2. IsMind(after)
      <4> DEFINE runs == after.left > 0
      <4>1. runs \in BOOLEAN /\ after.cooldown = runs /\ (runs => after.left > 0) /\ after.left \in Nat
        BY <2>3, <2>5
      <4> HIDE DEF runs
      <4> QED BY <2>1, <2>3, <4>1 DEF IsMind
    <3>3. after.left \in Nat
      BY <3>2 DEF IsMind
    <3> QED BY <2>4, <3>1, <3>2, <3>3 DEF Cooling
  <2>6. CASE said.cooldown = <<>>
    <3>1. IsMind(after)
      BY <2>1, <2>3, <2>6 DEF IsMind
    <3>2. owed' = IF mind.decayed = None THEN owed ELSE IF owed - minutes >= 0 THEN owed - minutes ELSE 0
      <4>1. owed \in Nat
        BY DEF Cooling
      <4>2. Max({0, owed - minutes}) = IF 0 >= owed - minutes THEN 0 ELSE owed - minutes
        BY <4>1, MaxOfTwo
      <4> QED BY <2>4, <2>6, <4>1, <4>2 DEF Owed
    <3>3. owed' \in Nat
      BY <3>2 DEF Cooling
    <3>4. ASSUME after.cooldown PROVE after.left <= owed'
      <4>1. slept.cooldown /\ awake.cooldown /\ mind.cooldown /\ after.left = slept.left
        BY <1>1, <2>1, <2>3, <2>6, <3>4
      <4>2. mind.left \in Nat /\ mind.left <= owed /\ owed \in Nat /\ mind.decayed \in Nat \cup {None}
        BY <4>1 DEF Cooling, IsMind
      <4>3. slept.left \in Nat /\ slept.left > 0
        BY <2>1, <4>1 DEF IsMind
      <4>4. CASE mind.decayed = None
        <5>1. awake.decayed = None
          BY <1>1, <4>4 DEF Later
        <5> QED BY <1>1, <2>1, <3>2, <4>1, <4>2, <4>4, <5>1
      <4>5. CASE mind.decayed # None
        <5>1. awake.decayed = mind.decayed + minutes /\ mind.decayed \in Nat
          BY <1>1, <4>2, <4>5 DEF Later
        <5>2. awake.decayed # None
          BY <5>1, HeadsAssumption
        <5>3. slept.left = mind.left - (mind.decayed + minutes)
          BY <1>1, <2>1, <4>1, <5>1, <5>2
        <5> QED BY <3>2, <4>1, <4>2, <4>3, <4>5, <5>1, <5>3
      <4> QED BY <4>4, <4>5
    <3> QED BY <2>4, <3>1, <3>3, <3>4 DEF Cooling
  <2> QED BY <2>5, <2>6
<1> QED BY <1>4, <1>5

\* What the engines report of a cooldown is one report or none.
LEMMA CycleCooldown ==
  ASSUME NEW series, NEW minute, NEW with \in Unusual \cup {Ordinary}
  PROVE  IsCooldown(HeadInputs(CalculationCycle(series, minute, with))["Psychology"].cooldown)
<1> DEFINE c == CalculationCycle(series, minute, with)
           psychology == c.signals.PSYCHOLOGY
           left == IF with.day.cooldown > 0 THEN with.day.cooldown ELSE CooldownTotal(with.day.sequence)
<1>1. HeadInputs(c)["Psychology"].cooldown = [k \in DOMAIN psychology |-> psychology[k].cooldown]
  <2> HIDE DEF c
  <2> QED BY DEF HeadInputs
<1>2. psychology \in {<<>>, <<SupportSignals(with.day)>>}
  BY DEF CalculationCycle, Sent, EngineSignals, NoSignals
<1>3. SupportSignals(with.day).cooldown = [active |-> left > 0, remaining |-> left]
  BY DEF SupportSignals, Cooldown
<1>4. left \in Nat
  BY AnalysisAssumption DEF CooldownTotal
<1> HIDE DEF psychology, left
<1>5. CASE psychology = <<>>
  BY <1>1, <1>5 DEF IsCooldown
<1>6. CASE psychology = <<SupportSignals(with.day)>>
  <2>1. [k \in DOMAIN psychology |-> psychology[k].cooldown] = <<SupportSignals(with.day).cooldown>>
    BY <1>6
  <2> QED BY <1>1, <1>3, <1>4, <2>1 DEF IsCooldown
<1> QED BY <1>2, <1>5, <1>6

\* A cooldown does not outlast the minutes it was given.
THEOREM CooldownTheorem == Spec => []CooldownEnds
<1>1. Init => Cooling
  BY DEF Init, Cooling, IsMind, NewMind
<1>2. Cooling /\ [Next]_vars => Cooling'
  <2> SUFFICES ASSUME Cooling, [Next]_vars PROVE Cooling'
    OBVIOUS
  <2>1. ASSUME NEW series, NEW with \in Unusual \cup {Ordinary}, Analyse(series, with) PROVE Cooling'
    <3>1. IsCooldown(HeadInputs(contract')["Psychology"].cooldown)
      BY <2>1, CycleCooldown DEF Analyse
    <3>2. with.minutes \in Nat
      BY AnalysisAssumption
    <3>3. Refresh(HeadInputs(contract'), with.minutes, with.failed)
      BY <2>1 DEF Analyse
    <3> QED BY <3>1, <3>2, <3>3, RefreshCools
  <2>2. ASSUME NEW c \in Candles, CandleClosed(c) PROVE Cooling'
    BY <2>1, <2>2 DEF CandleClosed
  <2>3. ASSUME NEW with \in Unusual, QuietMinute(with) PROVE Cooling'
    BY <2>1, <2>3 DEF QuietMinute
  <2>4. ASSUME NEW c \in Contracts, HandedOver(c) PROVE Cooling'
    BY <2>4, RefreshCools, AnalysisAssumption DEF HandedOver
  <2>5. CASE UNCHANGED vars
    BY <2>5 DEF vars, Cooling
  <2> QED BY <2>2, <2>3, <2>4, <2>5 DEF Next
<1>3. Cooling => CooldownEnds
  BY DEF Cooling, IsMind, CooldownEnds
<1> QED BY <1>1, <1>2, <1>3, PTL DEF Spec

-----------------------------------------------------------------------------
(* A late engine. *)

\* What is put on top of a report leaves what it says of the market.
LEMMA SilentHead ==
  ASSUME NEW head, NEW input, NEW age, NEW thinking,
         Interpret(head, input, ApproxFreshness(age), thinking) = Silent
  PROVE  LET r == RefreshHead(head, input, age, thinking)
         IN r.bias = "NEUTRAL" /\ r.primary = None /\ r.backup = None /\ r.zones = <<>>
<1> DEFINE tag == Freshness(age).tag
           score == Freshness(age).score
           state == StateOfHead(tag, Silent.confidence)
           r == RefreshHead(head, input, age, thinking)
<1>1. r = [Silent EXCEPT !.tag = tag, !.freshness = score, !.state = state]
  BY Zenon DEF RefreshHead
<1>2. DOMAIN Silent = {"bias", "confidence", "quality", "primary", "backup", "zones", "triggers", "rules", "caution",
                       "eventRisk", "allowed", "cooldown", "repeated", "trap", "tag", "freshness", "state"}
  BY DEF Silent
<1>3. Silent.bias = "NEUTRAL" /\ Silent.primary = None /\ Silent.backup = None /\ Silent.zones = <<>>
  BY DEF Silent
<1> HIDE DEF tag, score, state, r
<1>4. r.bias = Silent.bias /\ r.primary = Silent.primary /\ r.backup = Silent.backup /\ r.zones = Silent.zones
  BY <1>1, <1>2
<1> QED BY <1>3, <1>4 DEF r

\* A head whose engine delivered nothing has nothing to read.
LEMMA NothingToRead ==
  ASSUME NEW c, NEW fresh, NEW thinking
  PROVE  /\ c.signals.SMC = NoSignals.SMC => Interpret("SMC", HeadInputs(c)["SMC"], fresh, thinking) = Silent
         /\ c.signals.ICT = NoSignals.ICT => Interpret("ICT", HeadInputs(c)["ICT"], fresh, thinking) = Silent
         /\ c.signals.TECHNICAL = NoSignals.TECHNICAL =>
              Interpret("Technical", HeadInputs(c)["Technical"], fresh, thinking) = Silent
         /\ c.signals.OPTIONS = NoSignals.OPTIONS =>
              Interpret("Options", HeadInputs(c)["Options"], fresh, thinking) = Silent
<1>1. ASSUME c.signals.SMC = NoSignals.SMC
      PROVE  Interpret("SMC", HeadInputs(c)["SMC"], fresh, thinking) = Silent
  <2> DEFINE s == HeadInputs(c)["SMC"]
  <2>1. s = NoSignals.SMC
    BY <1>1 DEF HeadInputs
  <2>2. s.structure = <<>> /\ s.gaps = <<>> /\ s.blocks = <<>> /\ s.chochs = <<>>
    BY <2>1 DEF NoSignals
  <2> HIDE DEF s
  <2>3. SmcReport(s, fresh) = Silent
    <3>1. Len(s.structure) + Len(s.gaps) + Len(s.blocks) + Len(s.chochs) = 0
      BY <2>2
    <3> QED BY <3>1, Zenon DEF SmcReport
  <2> QED BY <2>3 DEF Interpret, s
<1>2. ASSUME c.signals.ICT = NoSignals.ICT
      PROVE  Interpret("ICT", HeadInputs(c)["ICT"], fresh, thinking) = Silent
  <2> DEFINE s == HeadInputs(c)["ICT"]
             ict == c.signals.ICT
  <2>1. s.count = Len(ict.array) + Len(ict.zones) + Len(ict.next) + Len(ict.levels) + Len(ict.context)
    BY DEF HeadInputs
  <2>2. /\ ict.array = <<>> /\ ict.zones = <<>> /\ ict.next = <<>> /\ ict.levels = <<>>
        /\ ict.context = <<>>
    BY <1>2 DEF NoSignals
  <2> HIDE DEF ict
  <2>3. s.count = 0
    BY <2>1, <2>2
  <2> HIDE DEF s
  <2>4. IctReport(s, fresh) = Silent
    BY <2>3 DEF IctReport
  <2> QED BY <2>4 DEF Interpret, s
<1>3. ASSUME c.signals.TECHNICAL = NoSignals.TECHNICAL
      PROVE  Interpret("Technical", HeadInputs(c)["Technical"], fresh, thinking) = Silent
  <2> DEFINE s == HeadInputs(c)["Technical"]
             tech == c.signals.TECHNICAL
  <2>1. s.count = Len(tech.rsi) + Len(tech.fast) + Len(tech.slow) + Len(tech.cross) + Len(tech.atr)
                  + Len(tech.profile)
    BY DEF HeadInputs
  <2>2. /\ tech.rsi = <<>> /\ tech.fast = <<>> /\ tech.slow = <<>> /\ tech.cross = <<>>
        /\ tech.atr = <<>> /\ tech.profile = <<>>
    BY <1>3 DEF NoSignals
  <2> HIDE DEF tech
  <2>3. s.count = 0
    BY <2>1, <2>2
  <2> HIDE DEF s
  <2>4. TechnicalReport(s, fresh) = Silent
    BY <2>3 DEF TechnicalReport
  <2> QED BY <2>4 DEF Interpret, s
<1>4. ASSUME c.signals.OPTIONS = NoSignals.OPTIONS
      PROVE  Interpret("Options", HeadInputs(c)["Options"], fresh, thinking) = Silent
  <2> DEFINE s == HeadInputs(c)["Options"]
             options == c.signals.OPTIONS
  <2>1. s.count = Len(options.changes) + Len(options.summary) + Len(options.pcr) + Len(options.iv)
                  + Len(options.walls) + Len(options.pain)
    BY DEF HeadInputs
  <2>2. /\ options.changes = <<>> /\ options.summary = <<>> /\ options.pcr = <<>> /\ options.iv = <<>>
        /\ options.walls = <<>> /\ options.pain = <<>>
    BY <1>4 DEF NoSignals
  <2> HIDE DEF options
  <2>3. s.count = 0
    BY <2>1, <2>2
  <2> HIDE DEF s
  <2>4. OptionsReport(s, fresh) = Silent
    BY <2>3 DEF OptionsReport
  <2> QED BY <2>4 DEF Interpret, s
<1> QED BY <1>1, <1>2, <1>3, <1>4

\* The contract holds nothing of an engine that was late or did not run.
LEMMA SilentEngine ==
  ASSUME NEW series, NEW minute, NEW with
  PROVE  LET c == CalculationCycle(series, minute, with)
         IN \A d \in DOMAIN NoSignals \cap c.silent : c.signals[d] = NoSignals[d]
<1> DEFINE c == CalculationCycle(series, minute, with)
           active == ToSet(PhaseDomains(with.phase))
<1>1. /\ c.signals = [d \in DOMAIN NoSignals |-> IF d \in active THEN Sent(d, series, minute, with) ELSE NoSignals[d]]
      /\ c.silent = (DOMAIN NoSignals \ active) \cup with.late
  BY DEF CalculationCycle
<1> HIDE DEF c, active
<1>2. SUFFICES ASSUME NEW d \in DOMAIN NoSignals, d \in c.silent PROVE c.signals[d] = NoSignals[d]
  BY DEF c
<1>3. c.signals[d] = IF d \in active THEN Sent(d, series, minute, with) ELSE NoSignals[d]
  BY <1>1, <1>2
<1>4. d \in active => d \in with.late
  BY <1>1, <1>2
<1>5. d \in with.late => Sent(d, series, minute, with) = NoSignals[d]
  BY DEF Sent
<1> QED BY <1>3, <1>4, <1>5

\* A head says nothing out of an engine that was late or did not run.
THEOREM LateEngineTheorem == Spec => []LateEngineIsSilent
<1> DEFINE headOf == [SMC |-> "SMC", ICT |-> "ICT", TECHNICAL |-> "Technical", OPTIONS |-> "Options"]
           Says(r) == ~(r.bias = "NEUTRAL" /\ r.primary = None /\ r.backup = None /\ r.zones = <<>>)
<1>1. Init => LateEngineIsSilent
  BY DEF Init, NoContract, LateEngineIsSilent
<1>2. LateEngineIsSilent /\ [Next]_vars => LateEngineIsSilent'
  <2> SUFFICES ASSUME LateEngineIsSilent, [Next]_vars PROVE LateEngineIsSilent'
    OBVIOUS
  <2>1. ASSUME NEW series, NEW with, Analyse(series, with) PROVE LateEngineIsSilent'
    <3> DEFINE inputs == HeadInputs(contract')
    <3>1. \A d \in DOMAIN NoSignals \cap contract'.silent : contract'.signals[d] = NoSignals[d]
      BY <2>1, SilentEngine DEF Analyse
    <3>2. ASSUME NEW head \in DOMAIN reports'
          PROVE \E age : reports'[head] = RefreshHead(head, inputs[head], age, mind')
      BY <2>1, <3>2 DEF Analyse, Refresh
    <3>3. ASSUME NEW d \in DOMAIN headOf, d \in contract'.silent, headOf[d] \in DOMAIN reports'
          PROVE  ~Says(reports'[headOf[d]])
      <4>1. PICK age : reports'[headOf[d]] = RefreshHead(headOf[d], inputs[headOf[d]], age, mind')
        BY <3>2, <3>3
      <4>2. DOMAIN headOf = {"SMC", "ICT", "TECHNICAL", "OPTIONS"} /\ DOMAIN headOf \subseteq DOMAIN NoSignals
        BY DEF NoSignals
      <4>3. contract'.signals[d] = NoSignals[d]
        BY <3>1, <3>3, <4>2
      <4>4. Interpret(headOf[d], inputs[headOf[d]], ApproxFreshness(age), mind') = Silent
        <5>1. d \in {"SMC", "ICT", "TECHNICAL", "OPTIONS"}
          BY <4>2
        <5>2. /\ headOf["SMC"] = "SMC" /\ headOf["ICT"] = "ICT"
              /\ headOf["TECHNICAL"] = "Technical" /\ headOf["OPTIONS"] = "Options"
          OBVIOUS
        <5> HIDE DEF headOf
        <5> QED BY <4>3, <5>1, <5>2, NothingToRead
      <4> HIDE DEF inputs, headOf
      <4>5. ~Says(RefreshHead(headOf[d], inputs[headOf[d]], age, mind'))
        BY <4>4, SilentHead
      <4> QED BY <4>1, <4>5
    <3> QED BY <3>3 DEF LateEngineIsSilent
  <2>2. ASSUME NEW c \in Candles, CandleClosed(c) PROVE LateEngineIsSilent'
    BY <2>1, <2>2 DEF CandleClosed
  <2>3. ASSUME NEW with \in Unusual, QuietMinute(with) PROVE LateEngineIsSilent'
    BY <2>1, <2>3 DEF QuietMinute
  <2>4. ASSUME NEW c \in Contracts, HandedOver(c) PROVE LateEngineIsSilent'
    BY <2>4 DEF HandedOver, NoContract, LateEngineIsSilent
  <2>5. CASE UNCHANGED vars
    BY <2>5 DEF vars, LateEngineIsSilent
  <2> QED BY <2>2, <2>3, <2>4, <2>5 DEF Next
<1> QED BY <1>1, <1>2, PTL DEF Spec

-----------------------------------------------------------------------------
(* Levels of liquidity. *)

\* The level of one candle on one side.
LevelOf(series, i, kind) ==
  [type |-> IF kind = "HIGH" THEN "BUY_SIDE" ELSE "SELL_SIDE", at |-> i,
   price |-> EdgeOf(kind, series[i]), swept |-> Swept(series, kind, i)]

LEMMA LevelMembers ==
  ASSUME NEW n \in Nat, NEW series, DOMAIN series = 1 .. n, NEW l
  PROVE  /\ l \in ToSet(LiquidityLevels(series)) <=>
              \E i \in 1 .. n : \E kind \in {"HIGH", "LOW"} :
                i \in LiquidityPivots(series, kind) /\ l = LevelOf(series, i, kind)
         /\ \E T : LiquidityLevels(series) \in Seq(T)
<1> DEFINE One(i, kind) ==
             IF i \in LiquidityPivots(series, kind) THEN <<LevelOf(series, i, kind)>> ELSE <<>>
           Both(i) == One(i, "HIGH") \o One(i, "LOW")
           T == {LevelOf(series, i, "HIGH") : i \in 1 .. n} \cup {LevelOf(series, i, "LOW") : i \in 1 .. n}
           ss == [i \in 1 .. n |-> Both(i)]
<1>1. LiquidityLevels(series) = FlattenSeq(ss)
  BY DEF LiquidityLevels, LevelOf
<1>2. ASSUME NEW i \in 1 .. n, NEW kind \in {"HIGH", "LOW"}
      PROVE  /\ One(i, kind) \in Seq(T)
             /\ \A x : x \in ToSet(One(i, kind)) <=> i \in LiquidityPivots(series, kind) /\ x = LevelOf(series, i, kind)
  <2>1. LevelOf(series, i, kind) \in T
    BY <1>2
  <2> HIDE DEF T
  <2>2. CASE i \in LiquidityPivots(series, kind)
    <3>1. One(i, kind) = <<LevelOf(series, i, kind)>>
      BY <2>2
    <3> HIDE DEF One
    <3> DEFINE e == LevelOf(series, i, kind)
    <3> HIDE DEF e
    <3>2. <<e>> \in Seq(T) /\ \A x : x \in ToSet(<<e>>) <=> x = e
      BY <2>1 DEF e, ToSet
    <3> QED BY <2>2, <3>1, <3>2 DEF e
  <2>3. CASE i \notin LiquidityPivots(series, kind)
    <3>1. One(i, kind) = <<>>
      BY <2>3
    <3> HIDE DEF One
    <3>2. ToSet(<<>>) = {}
      BY DEF ToSet
    <3> QED BY <2>3, <3>1, <3>2
  <2> QED BY <2>2, <2>3
<1> HIDE DEF One, T
<1>3. ASSUME NEW i \in 1 .. n
      PROVE  Both(i) \in Seq(T) /\ ToSet(Both(i)) = ToSet(One(i, "HIGH")) \cup ToSet(One(i, "LOW"))
  BY <1>2, ConcatMembers
<1> HIDE DEF Both
<1>4. ss \in [1 .. n -> Seq(T)]
  BY <1>3
<1>5. /\ l \in ToSet(FlattenSeq(ss)) <=> \E i \in 1 .. n : l \in ToSet(ss[i])
      /\ FlattenSeq(ss) \in Seq(T)
  <2> HIDE DEF ss
  <2> QED BY <1>4, FlattenMembers
<1>6. \A i \in 1 .. n : l \in ToSet(ss[i]) <=>
        \E kind \in {"HIGH", "LOW"} : i \in LiquidityPivots(series, kind) /\ l = LevelOf(series, i, kind)
  BY <1>2, <1>3
<1> QED BY <1>1, <1>5, <1>6

\* A candle more takes no level back and leaves no swept one open.
LEMMA LevelsGrow ==
  ASSUME NEW series \in Seq(Candles), NEW c \in Candles, NEW l \in ToSet(LiquidityLevels(series))
  PROVE  \E m \in ToSet(LiquidityLevels(Append(series, c))) :
           m = [l EXCEPT !.swept = m.swept] /\ (l.swept => m.swept)
<1> DEFINE n == Len(series)
           longer == Append(series, c)
<1>1. /\ n \in Nat /\ DOMAIN series = 1 .. n
      /\ DOMAIN longer = 1 .. n + 1 /\ Len(longer) = n + 1
      /\ \A i \in 1 .. n : longer[i] = series[i]
  OBVIOUS
<1> HIDE DEF n, longer
<1>2. PICK i \in 1 .. n, kind \in {"HIGH", "LOW"} : i \in LiquidityPivots(series, kind) /\ l = LevelOf(series, i, kind)
  BY <1>1, LevelMembers
<1>3. i \in LiquidityWindow + 1 .. n - LiquidityWindow
  BY <1>2 DEF LiquidityPivots, n
<1>4. i \in LiquidityPivots(longer, kind)
  <2>1. \A j \in (i - LiquidityWindow .. i + LiquidityWindow) \ {i} :
          Side(kind, EdgeOf(kind, series[j])) < Side(kind, EdgeOf(kind, series[i]))
    BY <1>2 DEF LiquidityPivots
  <2>2. \A j \in i - LiquidityWindow .. i + LiquidityWindow : j \in 1 .. n
    BY <1>1, <1>3, IndicatorAssumption
  <2>3. \A j \in (i - LiquidityWindow .. i + LiquidityWindow) \ {i} :
          Side(kind, EdgeOf(kind, longer[j])) < Side(kind, EdgeOf(kind, longer[i]))
    BY <1>1, <2>1, <2>2
  <2>4. i \in LiquidityWindow + 1 .. Len(longer) - LiquidityWindow
    BY <1>1, <1>3, IndicatorAssumption
  <2> QED BY <2>3, <2>4 DEF LiquidityPivots
<1>5. Swept(series, kind, i) => Swept(longer, kind, i)
  <2> SUFFICES ASSUME Swept(series, kind, i) PROVE Swept(longer, kind, i)
    OBVIOUS
  <2>1. PICK j \in i + 1 .. n : Side(kind, series[j].close) > Side(kind, EdgeOf(kind, series[i])) + SweepThreshold
    BY DEF Swept, n
  <2>2. j \in i + 1 .. Len(longer) /\ longer[j] = series[j] /\ longer[i] = series[i]
    BY <1>1, <1>2
  <2> QED BY <2>1, <2>2 DEF Swept
<1> DEFINE m == LevelOf(longer, i, kind)
<1>6. m \in ToSet(LiquidityLevels(longer))
  BY <1>1, <1>2, <1>4, LevelMembers
<1>7. /\ m = [l EXCEPT !.swept = m.swept]
      /\ l.swept => m.swept
  <2>1. EdgeOf(kind, longer[i]) = EdgeOf(kind, series[i])
    BY <1>1, <1>2
  <2>2. /\ l = [type |-> IF kind = "HIGH" THEN "BUY_SIDE" ELSE "SELL_SIDE", at |-> i,
                price |-> EdgeOf(kind, series[i]), swept |-> Swept(series, kind, i)]
        /\ m = [type |-> IF kind = "HIGH" THEN "BUY_SIDE" ELSE "SELL_SIDE", at |-> i,
                price |-> EdgeOf(kind, series[i]), swept |-> Swept(longer, kind, i)]
    BY <1>2, <2>1 DEF LevelOf
  <2> DEFINE type == IF kind = "HIGH" THEN "BUY_SIDE" ELSE "SELL_SIDE"
             price == EdgeOf(kind, series[i])
             old == Swept(series, kind, i)
             new == Swept(longer, kind, i)
  <2>3. /\ l = [type |-> type, at |-> i, price |-> price, swept |-> old]
        /\ m = [type |-> type, at |-> i, price |-> price, swept |-> new]
    BY <2>2
  <2> HIDE DEF m, type, price, old, new
  <2>4. l.swept = old /\ m.swept = new
    BY <2>3
  <2>5. m = [l EXCEPT !.swept = new]
    BY <2>3
  <2> QED BY <1>5, <2>4, <2>5 DEF old, new
<1> QED BY <1>6, <1>7 DEF longer

\* The last of some candles.
LEMMA LastFacts ==
  ASSUME NEW series \in Seq(Candles), NEW most \in Nat \ {0}
  PROVE  LET last == LastN(series, most)
             gone == IF Len(series) > most THEN Len(series) - most ELSE 0
         IN /\ last \in Seq(Candles) /\ Len(last) = Len(series) - gone /\ Len(last) <= most
            /\ gone \in Nat /\ \A i \in 1 .. Len(last) : last[i] = series[i + gone]
<1>1. CASE Len(series) > most
  <2> DEFINE last == LastN(series, most)
             n == Len(series)
  <2>1. last = SubSeq(series, n - most + 1, n)
    BY <1>1 DEF LastN
  <2> HIDE DEF last
  <2>2. n \in Nat /\ n > most /\ n - most + 1 \in 1 .. n
    BY <1>1
  <2>3. last \in Seq(Candles) /\ Len(last) = most /\ \A i \in 1 .. most : last[i] = series[i + (n - most)]
    BY <2>1, <2>2
  <2> QED BY <1>1, <2>2, <2>3 DEF last
<1>2. CASE ~(Len(series) > most)
  BY <1>2 DEF LastN
<1> QED BY <1>1, <1>2

\* The levels of a series are those of what is left of it, as far as their candle's
\* neighbours are.
LEMMA LevelsMove ==
  ASSUME NEW series \in Seq(Candles), NEW left \in Seq(Candles), NEW gone \in Nat,
         Len(left) = Len(series) - gone, \A i \in 1 .. Len(left) : left[i] = series[i + gone],
         NEW l \in ToSet(LiquidityLevels(series)), l.at - gone > LiquidityWindow
  PROVE  Moved(l, gone) \in ToSet(LiquidityLevels(left))
<1> DEFINE n == Len(series)
           k == Len(left)
<1>1. n \in Nat /\ k \in Nat /\ k = n - gone /\ DOMAIN series = 1 .. n /\ DOMAIN left = 1 .. k
  OBVIOUS
<1>2. \A i \in 1 .. k : left[i] = series[i + gone]
  OBVIOUS
<1> HIDE DEF n, k
<1>3. PICK i \in 1 .. n, kind \in {"HIGH", "LOW"} : i \in LiquidityPivots(series, kind) /\ l = LevelOf(series, i, kind)
  BY <1>1, LevelMembers
<1>4. l.at = i
  BY <1>3 DEF LevelOf
<1> DEFINE at == i - gone
           w == LiquidityWindow
<1>5. w \in Nat /\ at > w /\ i \in w + 1 .. n - w
  BY <1>3, <1>4, IndicatorAssumption DEF LiquidityPivots, n
<1>6. at \in w + 1 .. k - w /\ at \in 1 .. k /\ at + gone = i
  BY <1>1, <1>5
<1> HIDE DEF at
<1>7. left[at] = series[i]
  BY <1>2, <1>6
<1>8. at \in LiquidityPivots(left, kind)
  <2>1. ASSUME NEW j \in (at - w .. at + w) \ {at}
        PROVE  Side(kind, EdgeOf(kind, left[j])) < Side(kind, EdgeOf(kind, left[at]))
    <3>1. j \in 1 .. k /\ j + gone \in (i - w .. i + w) \ {i}
      BY <1>1, <1>5, <1>6
    <3>2. Side(kind, EdgeOf(kind, series[j + gone])) < Side(kind, EdgeOf(kind, series[i]))
      BY <1>3, <3>1 DEF LiquidityPivots
    <3> QED BY <1>2, <1>7, <3>1, <3>2
  <2> QED BY <1>6, <2>1 DEF LiquidityPivots, k
<1>9. Swept(left, kind, at) = Swept(series, kind, i)
  <2> DEFINE Past(s, x) == Side(kind, s[x].close) > Side(kind, EdgeOf(kind, series[i])) + SweepThreshold
  <2>1. /\ Swept(left, kind, at) = \E x \in at + 1 .. k : Past(left, x)
        /\ Swept(series, kind, i) = \E x \in i + 1 .. n : Past(series, x)
    BY <1>7 DEF Swept, k, n
  <2>2. ASSUME NEW x \in at + 1 .. k, Past(left, x) PROVE \E y \in i + 1 .. n : Past(series, y)
    <3>1. x + gone \in i + 1 .. n /\ left[x] = series[x + gone]
      BY <1>1, <1>2, <1>6
    <3> QED BY <2>2, <3>1
  <2>3. ASSUME NEW y \in i + 1 .. n, Past(series, y) PROVE \E x \in at + 1 .. k : Past(left, x)
    <3>1. y - gone \in at + 1 .. k /\ left[y - gone] = series[y]
      BY <1>1, <1>2, <1>6
    <3> QED BY <2>3, <3>1
  <2> HIDE DEF Past
  <2> QED BY <2>1, <2>2, <2>3
<1>10. LevelOf(left, at, kind) = Moved(l, gone)
  <2> DEFINE type == IF kind = "HIGH" THEN "BUY_SIDE" ELSE "SELL_SIDE"
             price == EdgeOf(kind, series[i])
             swept == Swept(series, kind, i)
  <2>1. /\ l = [type |-> type, at |-> i, price |-> price, swept |-> swept]
        /\ LevelOf(left, at, kind) = [type |-> type, at |-> at, price |-> price, swept |-> swept]
    BY <1>3, <1>7, <1>9 DEF LevelOf
  <2>2. at = i - gone
    BY DEF at
  <2> HIDE DEF type, price, swept
  <2> QED BY <2>1, <2>2 DEF Moved
<1>11. LevelOf(left, at, kind) \in ToSet(LiquidityLevels(left))
  BY <1>1, <1>6, <1>8, LevelMembers
<1> QED BY <1>10, <1>11

\* What a cycle delivers of the levels.
LEMMA CycleLevels ==
  ASSUME NEW series, NEW minute, NEW with
  PROVE  LET c == CalculationCycle(series, minute, with)
             levels == c.signals.ICT.levels
         IN /\ levels = <<>> \/ (Stamped /\ levels = LiquidityLevels(series))
            /\ Stamped /\ series # <<>> /\ "ICT" \notin c.silent => levels = LiquidityLevels(series)
<1> DEFINE c == CalculationCycle(series, minute, with)
           levels == c.signals.ICT.levels
           active == ToSet(PhaseDomains(with.phase))
           run == IF series = <<>> THEN NoSignals.ICT ELSE IctRun(series, minute)
<1>1. /\ c.signals = [d \in DOMAIN NoSignals |-> IF d \in active THEN Sent(d, series, minute, with) ELSE NoSignals[d]]
      /\ c.silent = (DOMAIN NoSignals \ active) \cup with.late
  BY DEF CalculationCycle
<1>2. "ICT" \in DOMAIN NoSignals /\ NoSignals.ICT.levels = <<>>
  BY DEF NoSignals
<1>3. EngineSignals("ICT", series, minute, with) = run
  BY DEF EngineSignals
<1>4. series # <<>> => run.levels = IF Stamped THEN LiquidityLevels(series) ELSE <<>>
  <2> SUFFICES ASSUME series # <<>> PROVE IctRun(series, minute).levels = IF Stamped THEN LiquidityLevels(series) ELSE <<>>
    OBVIOUS
  <2> DEFINE found == IctSignals(series, minute)
  <2>1. DOMAIN found = {"array", "zones", "next", "levels", "context"} /\ found.levels = LiquidityLevels(series)
    BY DEF IctSignals
  <2>2. IctRun(series, minute) = IF Stamped THEN found ELSE [found EXCEPT !.array = <<>>, !.levels = <<>>, !.context = <<"BUY_SIDE">>]
    BY DEF IctRun
  <2> HIDE DEF found
  <2> QED BY <2>1, <2>2
<1>5. series = <<>> => run.levels = <<>>
  BY <1>2
<1> HIDE DEF c, active, run
<1>6. /\ c.signals.ICT = IF "ICT" \in active THEN Sent("ICT", series, minute, with) ELSE NoSignals.ICT
      /\ "ICT" \notin c.silent => "ICT" \in active /\ "ICT" \notin with.late
  BY <1>1, <1>2
<1>7. Sent("ICT", series, minute, with) = IF "ICT" \in with.late THEN NoSignals.ICT ELSE run
  BY <1>3 DEF Sent
<1> QED BY <1>2, <1>4, <1>5, <1>6, <1>7 DEF c

\* The levels of the last contract are those of the candles so far.
LevelsFound ==
  /\ candles \in Seq(Candles) /\ Len(candles) <= BufferMax /\ dropped \in Nat
  /\ LET levels == contract.signals.ICT.levels
     IN levels = <<>> \/ (Stamped /\ levels = LiquidityLevels(candles))

\* One candle more, and one less when the buffer was full.
Joins(c) ==
  /\ candles' = LastN(Append(candles, c), BufferMax)
  /\ dropped' = dropped + (IF Len(candles) < BufferMax THEN 0 ELSE 1)

\* Candles only come, and a cycle reads those there are; a contract by hand has none.
LEMMA Steps ==
  ASSUME candles \in Seq(Candles), Next
  PROVE  /\ UNCHANGED <<candles, dropped>> \/ \E c \in Candles : Joins(c)
         /\ candles' \in Seq(Candles)
         /\ \/ contract' = NoContract
            \/ \E with \in Unusual \cup {Ordinary} : Analyse(candles', with)
<1>1. ASSUME NEW c \in Candles, CandleClosed(c)
      PROVE  Joins(c) /\ Analyse(candles', Ordinary)
  BY <1>1 DEF CandleClosed, Joins
<1>2. ASSUME NEW with \in Unusual, QuietMinute(with)
      PROVE  UNCHANGED <<candles, dropped>> /\ Analyse(candles', with)
  <2>1. candles' = candles /\ dropped' = dropped /\ Analyse(candles, with)
    BY <1>2 DEF QuietMinute
  <2> QED BY <2>1 DEF Analyse
<1>3. ASSUME NEW c \in Contracts, HandedOver(c)
      PROVE  UNCHANGED <<candles, dropped>> /\ contract' = NoContract
  BY <1>3 DEF HandedOver
<1>4. ASSUME NEW c \in Candles, Joins(c) PROVE candles' \in Seq(Candles)
  <2>1. Append(candles, c) \in Seq(Candles)
    OBVIOUS
  <2> QED BY <1>4, <2>1, LastFacts, AnalysisAssumption DEF Joins
<1> QED BY <1>1, <1>2, <1>3, <1>4 DEF Next

\* What closing a candle does to the places of the others.
LEMMA JoinsMoves ==
  ASSUME candles \in Seq(Candles), Len(candles) <= BufferMax, dropped \in Nat, NEW c \in Candles, Joins(c)
  PROVE  LET longer == Append(candles, c)
             gone == dropped' - dropped
         IN /\ longer \in Seq(Candles) /\ candles' \in Seq(Candles) /\ candles' # <<>>
            /\ gone \in Nat /\ Len(candles') = Len(longer) - gone /\ Len(candles') <= BufferMax
            /\ dropped' \in Nat /\ \A i \in 1 .. Len(candles') : candles'[i] = longer[i + gone]
<1> DEFINE longer == Append(candles, c)
           left == LastN(longer, BufferMax)
           gone == IF Len(longer) > BufferMax THEN Len(longer) - BufferMax ELSE 0
<1>1. longer \in Seq(Candles) /\ Len(longer) = Len(candles) + 1 /\ Len(candles) \in Nat
  OBVIOUS
<1>2. BufferMax \in Nat \ {0}
  BY AnalysisAssumption
<1> HIDE DEF longer
<1>3. /\ left \in Seq(Candles) /\ Len(left) = Len(longer) - gone /\ Len(left) <= BufferMax
      /\ gone \in Nat /\ \A i \in 1 .. Len(left) : left[i] = longer[i + gone]
  BY <1>1, <1>2, LastFacts
<1>4. gone = IF Len(candles) < BufferMax THEN 0 ELSE 1
  BY <1>1, <1>2
<1>5. candles' = left /\ dropped' = dropped + gone
  BY <1>4 DEF Joins, longer
<1> HIDE DEF left
<1>6. left # <<>>
  BY <1>1, <1>2, <1>3
<1> HIDE DEF gone
<1>7. dropped' - dropped = gone /\ dropped' \in Nat
  BY <1>3, <1>5
<1> QED BY <1>1, <1>3, <1>5, <1>6, <1>7 DEF longer

\* What the engines found of the levels stays found.
THEOREM LevelsTheorem == Spec => LevelsStay
<1>1. Init => LevelsFound
  BY AnalysisAssumption DEF Init, NoContract, NoSignals, LevelsFound
<1>2. LevelsFound /\ [Next]_vars => LevelsFound' /\ [LevelsKept]_vars
  <2> SUFFICES ASSUME LevelsFound, [Next]_vars PROVE LevelsFound' /\ [LevelsKept]_vars
    OBVIOUS
  <2>1. CASE UNCHANGED vars
    BY <2>1 DEF vars, LevelsFound
  <2>2. CASE Next
    <3>1. /\ UNCHANGED <<candles, dropped>> \/ \E c \in Candles : Joins(c)
          /\ contract' = NoContract \/ \E with \in Unusual \cup {Ordinary} : Analyse(candles', with)
      BY <2>2, Steps DEF LevelsFound
    <3>2. candles' \in Seq(Candles) /\ Len(candles') <= BufferMax /\ dropped' \in Nat
      BY <3>1, JoinsMoves DEF LevelsFound
    <3>3. CASE contract' = NoContract
      BY <3>2, <3>3 DEF LevelsFound, LevelsKept, NoContract, NoSignals
    <3>4. ASSUME NEW with \in Unusual \cup {Ordinary}, Analyse(candles', with)
          PROVE  LevelsFound' /\ LevelsKept
      <4> DEFINE levels == contract.signals.ICT.levels
                 gone == dropped' - dropped
      <4>1. contract' = CalculationCycle(candles', Open + clock', with)
        BY <3>4 DEF Analyse
      <4>2. /\ levels' = <<>> \/ (Stamped /\ levels' = LiquidityLevels(candles'))
            /\ Stamped /\ candles' # <<>> /\ "ICT" \notin contract'.silent => levels' = LiquidityLevels(candles')
        BY <4>1, CycleLevels
      <4>3. LevelsFound'
        BY <3>2, <4>2 DEF LevelsFound
      <4>4. ASSUME NEW l \in ToSet(levels), "ICT" \notin contract'.silent, l.at - gone > LiquidityWindow
            PROVE  \E m \in ToSet(levels') : m = [Moved(l, gone) EXCEPT !.swept = m.swept] /\ (l.swept => m.swept)
        <5>1. Stamped /\ levels = LiquidityLevels(candles) /\ l \in ToSet(LiquidityLevels(candles))
          BY <4>4 DEF LevelsFound, ToSet
        <5>2. candles \in Seq(Candles) /\ candles # <<>>
          <6>1. candles = <<>> => LiquidityLevels(candles) = <<>>
            BY DEF LiquidityLevels, FlattenSeq
          <6> QED BY <5>1, <6>1 DEF LevelsFound, ToSet
        <5>3. CASE UNCHANGED <<candles, dropped>>
          <6>1. levels' = LiquidityLevels(candles)
            BY <4>2, <4>4, <5>1, <5>2, <5>3
          <6>2. gone = 0
            BY <5>3 DEF LevelsFound
          <6> HIDE DEF gone
          <6>3. PICK i \in 1 .. Len(candles), kind \in {"HIGH", "LOW"} : l = LevelOf(candles, i, kind)
            BY <5>1, <5>2, LevelMembers
          <6>4. l = [Moved(l, 0) EXCEPT !.swept = l.swept]
            <7> DEFINE type == IF kind = "HIGH" THEN "BUY_SIDE" ELSE "SELL_SIDE"
                       price == EdgeOf(kind, candles[i])
                       old == Swept(candles, kind, i)
            <7>1. l = [type |-> type, at |-> i, price |-> price, swept |-> old]
              BY <6>3 DEF LevelOf
            <7> HIDE DEF type, price, old
            <7>2. Moved(l, 0) = [type |-> type, at |-> i, price |-> price, swept |-> old]
              BY <7>1 DEF Moved
            <7>3. l.swept = old
              BY <7>1
            <7> QED BY <7>1, <7>2, <7>3
          <6>5. l \in ToSet(levels')
            BY <5>1, <6>1
          <6> QED BY <6>2, <6>4, <6>5, Zenon
        <5>4. ASSUME NEW c \in Candles, Joins(c)
              PROVE  \E m \in ToSet(levels') : m = [Moved(l, gone) EXCEPT !.swept = m.swept] /\ (l.swept => m.swept)
          <6> DEFINE longer == Append(candles, c)
          <6>1. /\ longer \in Seq(Candles) /\ candles' \in Seq(Candles) /\ candles' # <<>>
                /\ gone \in Nat /\ Len(candles') = Len(longer) - gone
                /\ \A i \in 1 .. Len(candles') : candles'[i] = longer[i + gone]
            BY <5>4, JoinsMoves DEF LevelsFound
          <6>2. PICK m \in ToSet(LiquidityLevels(longer)) : m = [l EXCEPT !.swept = m.swept] /\ (l.swept => m.swept)
            BY <5>1, <5>2, LevelsGrow
          <6>3. levels' = LiquidityLevels(candles')
            BY <4>2, <4>4, <5>1, <6>1
          <6> HIDE DEF longer, gone, levels
          <6>4. m.at = l.at
            <7>1. PICK i \in 1 .. Len(candles), kind \in {"HIGH", "LOW"} : l = LevelOf(candles, i, kind)
              BY <5>1, <5>2, LevelMembers
            <7> QED BY <6>2, <7>1 DEF LevelOf
          <6>5. Moved(m, gone) \in ToSet(levels')
            BY <4>4, <6>1, <6>2, <6>3, <6>4, LevelsMove
          <6>6. Moved(m, gone).swept = m.swept /\ Moved(m, gone) = [Moved(l, gone) EXCEPT !.swept = m.swept]
            <7>1. PICK i \in 1 .. Len(candles), kind \in {"HIGH", "LOW"} : l = LevelOf(candles, i, kind)
              BY <5>1, <5>2, LevelMembers
            <7> DEFINE type == IF kind = "HIGH" THEN "BUY_SIDE" ELSE "SELL_SIDE"
                       price == EdgeOf(kind, candles[i])
                       old == Swept(candles, kind, i)
                       new == m.swept
            <7>2. l = [type |-> type, at |-> i, price |-> price, swept |-> old]
              BY <7>1 DEF LevelOf
            <7> HIDE DEF type, price, old, new
            <7>3. m = [type |-> type, at |-> i, price |-> price, swept |-> new]
              BY <6>2, <7>2 DEF new
            <7>4. Moved(m, gone) = [type |-> type, at |-> i - gone, price |-> price, swept |-> new]
              BY <7>3 DEF Moved
            <7>5. Moved(l, gone) = [type |-> type, at |-> i - gone, price |-> price, swept |-> old]
              BY <7>2 DEF Moved
            <7>6. [Moved(l, gone) EXCEPT !.swept = new] = [type |-> type, at |-> i - gone, price |-> price, swept |-> new]
              BY <7>5
            <7>7. Moved(m, gone).swept = new
              BY <7>4
            <7> QED BY <7>4, <7>6, <7>7, Zenon DEF new
          <6> QED BY <6>2, <6>5, <6>6
        <5> QED BY <3>1, <5>3, <5>4
      <4>5. LevelsKept
        BY <4>4, Zenon DEF LevelsKept
      <4> QED BY <4>3, <4>5
    <3> QED BY <3>1, <3>3, <3>4
  <2> QED BY <2>1, <2>2
<1> QED BY <1>1, <1>2, PTL DEF Spec, LevelsStay

-----------------------------------------------------------------------------
(* Changes of character. *)

LEMMA Least ==
  ASSUME NEW S \in SUBSET Nat, S # {}
  PROVE  Min(S) \in S /\ \A y \in S : Min(S) <= y
<1>1. \E x \in S : \A y \in S : x <= y
  BY Smallest
<1> QED BY <1>1 DEF Min

LEMMA CandleFacts ==
  ASSUME NEW c \in Candles
  PROVE  /\ c.open \in Nat /\ c.high \in Nat /\ c.low \in Nat /\ c.close \in Nat /\ c.volume \in Nat
         /\ c.low > 0 /\ c.low <= c.high
<1>1. /\ c.open \in Nat /\ c.high \in Nat /\ c.low \in Nat /\ c.close \in Nat /\ c.volume \in Nat /\ c.low # 0
      /\ c.low <= Min({c.open, c.close}) /\ c.high >= Max({c.open, c.close})
  BY AnalysisAssumption
<1> DEFINE open == c.open high == c.high low == c.low close == c.close
<1>2. open \in Nat /\ high \in Nat /\ low \in Nat /\ close \in Nat /\ low # 0
  BY <1>1
<1>3. low <= Min({open, close}) /\ high >= Max({open, close})
  BY <1>1
<1> HIDE DEF open, high, low, close
<1> DEFINE least == Min({open, close}) most == Max({open, close})
<1>4. /\ least = IF open <= close THEN open ELSE close
      /\ most = IF open >= close THEN open ELSE close
  BY <1>2, MaxOfTwo
<1>5. low <= least /\ high >= most
  BY <1>3
<1> HIDE DEF least, most
<1>6. low > 0 /\ low <= high
  BY <1>2, <1>4, <1>5
<1> QED BY <1>1, <1>6 DEF open, high, low, close

\* A break that is found is one that its closes confirm.
LEMMA SwingConfirmed ==
  ASSUME NEW series \in Seq(Candles), NEW swings, NEW k, CheckSwing(swings, k, series) # <<>>
  PROVE  ClosesConfirm(series, CheckSwing(swings, k, series)[1])
<1> DEFINE swing == swings[k]
           n == Len(series)
           place == SwingCandle(swing, series)
           from == Min(place) + 1
           beyond == ClosesBeyond(swing, series, from)
           first == Min(beyond)
           prior == PriorStructure(swings, k)
           type == IF swing.kind = "HIGH" THEN "BULLISH_CHOCH" ELSE "BEARISH_CHOCH"
           c == CheckSwing(swings, k, series)[1]
<1>1. /\ place # {} /\ Breaks(swings, k, series)
      /\ c = [type |-> type, price |-> swing.price, at |-> first, prior |-> prior, confirmed |-> TRUE]
  BY DEF CheckSwing
<1>2. beyond # {} /\ Confirmed(swing, series, first)
  BY <1>1 DEF Breaks
<1>3. c.type = type /\ c.price = swing.price /\ c.at = first
  <2> HIDE DEF type, first, c, prior
  <2> QED BY <1>1
<1>4. n \in Nat /\ \A j \in 1 .. n : series[j] \in Candles /\ series[j].high \in Int /\ series[j].low \in Int /\ series[j].close \in Int
  <2>1. n \in Nat /\ \A j \in 1 .. n : series[j] \in Candles
    OBVIOUS
  <2>2. \A c1 \in Candles : c1.high \in Int /\ c1.low \in Int /\ c1.close \in Int
    BY CandleFacts
  <2> QED BY <2>1, <2>2
<1>5. place \subseteq 1 .. n /\ \A i \in place : EdgeOf(swing.kind, series[i]) = swing.price
  BY <1>4, StructureAssumption DEF SwingCandle
<1>6. swing.price \in Int
  <2>1. PICK i \in place : i \in 1 .. n /\ EdgeOf(swing.kind, series[i]) = swing.price
    BY <1>1, <1>5
  <2> QED BY <1>4, <2>1 DEF EdgeOf
<1>7. from \in Nat /\ from - 1 \in 1 .. n /\ EdgeOf(swing.kind, series[from - 1]) = swing.price
  <2>1. place \in SUBSET Nat
    BY <1>4, <1>5
  <2>2. Min(place) \in place
    BY <1>1, <2>1, Least
  <2>3. Min(place) \in 1 .. n /\ EdgeOf(swing.kind, series[Min(place)]) = swing.price
    BY <1>5, <2>2
  <2> DEFINE least == Min(place)
  <2> HIDE DEF least
  <2>4. from = least + 1 /\ least \in 1 .. n /\ EdgeOf(swing.kind, series[least]) = swing.price
    BY <2>3 DEF least
  <2>5. from - 1 = least
    BY <1>4, <2>4
  <2> HIDE DEF from
  <2> QED BY <1>4, <2>4, <2>5
<1> HIDE DEF place, from
<1>8. \A a \in Nat : ClosesBeyond(swing, series, a) \subseteq a .. n
  BY DEF ClosesBeyond
<1> DEFINE kind == IF type = "BULLISH_CHOCH" THEN "HIGH" ELSE "LOW"
           Beyond(j) == Side(kind, series[j].close) > Side(kind, swing.price)
<1>9. /\ first \in from .. n /\ Side(swing.kind, series[first].close) > Side(swing.kind, swing.price)
      /\ \A j \in from .. first - 1 : ~(Side(swing.kind, series[j].close) > Side(swing.kind, swing.price))
  <2>1. beyond \in SUBSET Nat /\ beyond \subseteq from .. n
    BY <1>4, <1>7, <1>8
  <2>2. first \in beyond /\ \A j \in beyond : first <= j
    BY <1>2, <2>1, Least
  <2>3. \A j \in from .. n : j \in beyond <=> Side(swing.kind, series[j].close) > Side(swing.kind, swing.price)
    BY DEF ClosesBeyond
  <2> HIDE DEF beyond, first
  <2>4. first \in from .. n
    BY <2>1, <2>2
  <2>5. ASSUME NEW j \in from .. first - 1 PROVE j \in from .. n /\ ~(first <= j)
    BY <1>4, <1>7, <2>4
  <2> QED BY <2>2, <2>3, <2>4, <2>5
<1> HIDE DEF beyond, first
<1> DEFINE end == first + 3 * Confirmations - 1
           limit == Min({end, n})
<1>10. limit \in Int /\ limit <= n /\ limit <= end
  <2>1. end \in Int
    BY <1>4, <1>7, <1>9, StructureAssumption
  <2> HIDE DEF end, n
  <2>2. limit = IF end <= n THEN end ELSE n
    <3>1. n \in Int
      BY <1>4
    <3>2. Min({end, n}) = IF end <= n THEN end ELSE n
      BY <2>1, <3>1, MaxOfTwo
    <3> QED BY <3>2
  <2> HIDE DEF limit
  <2> QED BY <1>4, <2>1, <2>2
<1>11. PICK i \in first .. limit - Confirmations + 1 : i .. i + Confirmations - 1 \subseteq ClosesBeyond(swing, series, first)
  BY <1>2 DEF Confirmed
<1> HIDE DEF limit
<1>12. i \in first .. first + 2 * Confirmations /\ first \in Nat
  BY <1>4, <1>7, <1>9, <1>10, <1>11, StructureAssumption
<1>13. ASSUME NEW j \in i .. i + Confirmations - 1
       PROVE  j <= n /\ Side(swing.kind, series[j].close) > Side(swing.kind, swing.price)
  <2>1. j \in ClosesBeyond(swing, series, first) /\ first \in Nat
    BY <1>11, <1>12, <1>13
  <2> QED BY <1>4, <1>8, <2>1 DEF ClosesBeyond
<1>14. /\ \A x : Side(kind, x) = Side(swing.kind, x)
       /\ \A x : EdgeOf(kind, x) = EdgeOf(swing.kind, x)
  BY DEF Side, EdgeOf
<1> DEFINE before == from - 1
<1>15. /\ before \in 1 .. first - 1 /\ EdgeOf(kind, series[before]) = swing.price
       /\ \A j \in before + 1 .. first - 1 : ~Beyond(j)
  <2>1. before + 1 = from /\ before \in 1 .. first - 1
    BY <1>4, <1>7, <1>9
  <2> HIDE DEF before, kind
  <2> QED BY <1>7, <1>9, <1>14, <2>1 DEF before
<1> HIDE DEF before
<1>16. /\ Beyond(first)
       /\ \A j \in i .. i + Confirmations - 1 : j <= n /\ Beyond(j)
  <2> HIDE DEF kind
  <2> QED BY <1>9, <1>13, <1>14
<1> HIDE DEF c, type, swing
<1> QED BY <1>3, <1>12, <1>15, <1>16 DEF ClosesConfirm, c, n

\* A swing has a side and the price of a candle on it.
IsSwing(s) == s.kind \in {"HIGH", "LOW"} /\ \E c \in Candles : s.price = EdgeOf(s.kind, c)

\* The swings are a sequence.
LEMMA SwingsMembers ==
  ASSUME NEW series \in Seq(Candles)
  PROVE  \E T : Swings(series) \in Seq(T) /\ \A s \in T : IsSwing(s)
<1> DEFINE recent == LastN(series, Lookback)
           offset == Len(series) - Len(recent)
           At(i, kind) == SwingAt(recent, kind, i, offset)
           One(i, kind) == IF i \in Pivots(recent, kind) THEN <<At(i, kind)>> ELSE <<>>
           Both(i) == One(i, "HIGH") \o One(i, "LOW")
           n == Len(recent)
           ss == [i \in 1 .. n |-> Both(i)]
           T == {At(i, "HIGH") : i \in 1 .. n} \cup {At(i, "LOW") : i \in 1 .. n}
<1>1. recent \in Seq(Candles) /\ DOMAIN recent = 1 .. n /\ n \in Nat
  <2>1. recent \in Seq(Candles)
    BY StructureAssumption DEF LastN
  <2> HIDE DEF recent
  <2>2. DOMAIN recent = 1 .. n /\ n \in Nat
    BY <2>1
  <2> QED BY <2>1, <2>2
<1>2. Swings(series) = FlattenSeq(ss)
  BY <1>1 DEF Swings
<1> HIDE DEF recent, offset, n
<1>7. ASSUME NEW i \in 1 .. n, NEW kind \in {"HIGH", "LOW"}
      PROVE  IsSwing(At(i, kind))
  <2> DEFINE c == recent[i]
             strength == At(i, kind).strength
             at == i + offset
             price == EdgeOf(kind, c)
  <2>1. c \in Candles
    BY <1>1
  <2>2. At(i, kind).kind = kind /\ At(i, kind).price = price
    BY DEF SwingAt
  <2> HIDE DEF c, At
  <2> QED BY <2>1, <2>2 DEF IsSwing
<1> HIDE DEF At
<1>3. ASSUME NEW i \in 1 .. n, NEW kind \in {"HIGH", "LOW"}
      PROVE  One(i, kind) \in Seq(T)
  <2>1. At(i, kind) \in T
    BY <1>3
  <2> HIDE DEF T
  <2>2. <<At(i, kind)>> \in Seq(T) /\ <<>> \in Seq(T)
    BY <2>1
  <2> QED BY <2>2
<1>8. \A s \in T : IsSwing(s)
  BY <1>7
<1> HIDE DEF One, T
<1>4. \A i \in 1 .. n : Both(i) \in Seq(T)
  BY <1>3
<1> HIDE DEF Both
<1>5. ss \in [1 .. n -> Seq(T)]
  BY <1>4
<1> HIDE DEF ss
<1>6. FlattenSeq(ss) \in Seq(T)
  BY <1>1, <1>5, FlattenMembers
<1> QED BY <1>2, <1>6, <1>8

LEMMA ChangesConfirmed ==
  ASSUME NEW series \in Seq(Candles), NEW c \in ToSet(Chochs(series))
  PROVE  ClosesConfirm(series, c)
<1> DEFINE swings == Swings(series)
           n == Len(swings)
           Check(k) == CheckSwing(swings, k, series)
           T == {Check(k)[1] : k \in 1 .. n}
           ss == [k \in 1 .. n |-> Check(k)]
<1>1. DOMAIN swings = 1 .. n /\ n \in Nat
  <2>1. PICK U : swings \in Seq(U)
    BY SwingsMembers
  <2> HIDE DEF swings
  <2> QED BY <2>1
<1>2. c \in ToSet(FlattenSeq(ss))
  <2>1. ToSet(<<>>) = {}
    BY DEF ToSet
  <2>2. Chochs(series) # <<>>
    BY <2>1
  <2>3. Chochs(series) = FlattenSeq(ss)
    BY <1>1, <2>2 DEF Chochs
  <2> QED BY <2>3
<1>3. ASSUME NEW k \in 1 .. n
      PROVE  Check(k) = <<>> \/ \E r : Check(k) = <<r>>
  <2> DEFINE swing == swings[k]
             r == [type |-> IF swing.kind = "HIGH" THEN "BULLISH_CHOCH" ELSE "BEARISH_CHOCH",
                   price |-> swing.price, at |-> Min(ClosesBeyond(swing, series, Min(SwingCandle(swing, series)) + 1)),
                   prior |-> PriorStructure(swings, k), confirmed |-> TRUE]
  <2>1. Check(k) \in {<<>>, <<r>>}
    BY Zenon DEF CheckSwing
  <2> HIDE DEF r
  <2> QED BY <2>1
<1> HIDE DEF n, Check
<1>4. ASSUME NEW k \in 1 .. n
      PROVE  Check(k) \in Seq(T) /\ \A x \in ToSet(Check(k)) : Check(k) # <<>> /\ x = Check(k)[1]
  <2>1. Check(k)[1] \in T
    BY <1>4
  <2> HIDE DEF T
  <2>2. CASE Check(k) = <<>>
    BY <2>2 DEF ToSet
  <2>3. ASSUME NEW r, Check(k) = <<r>> PROVE Check(k) \in Seq(T) /\ \A x \in ToSet(Check(k)) : Check(k) # <<>> /\ x = Check(k)[1]
    <3>1. r \in T
      BY <2>1, <2>3
    <3> QED BY <2>3, <3>1 DEF ToSet
  <2> QED BY <1>3, <2>2, <2>3
<1> HIDE DEF T
<1>5. ss \in [1 .. n -> Seq(T)]
  BY <1>4
<1>6. PICK k \in 1 .. n : c \in ToSet(ss[k])
  <2> HIDE DEF ss
  <2> QED BY <1>1, <1>2, <1>5, FlattenMembers
<1>7. Check(k) # <<>> /\ c = Check(k)[1]
  BY <1>4, <1>6
<1> QED BY <1>7, SwingConfirmed DEF Check

\* What a cycle delivers of the changes of character.
LEMMA CycleChanges ==
  ASSUME NEW series, NEW minute, NEW with
  PROVE  LET changes == CalculationCycle(series, minute, with).signals.SMC.chochs
         IN changes = <<>> \/ changes = Chochs(series)
<1> DEFINE c == CalculationCycle(series, minute, with)
           active == ToSet(PhaseDomains(with.phase))
           run == IF series = <<>> THEN NoSignals.SMC ELSE SmcRun(series)
<1>1. c.signals = [d \in DOMAIN NoSignals |-> IF d \in active THEN Sent(d, series, minute, with) ELSE NoSignals[d]]
  BY DEF CalculationCycle
<1>2. "SMC" \in DOMAIN NoSignals /\ NoSignals.SMC = [structure |-> <<>>, gaps |-> <<>>, blocks |-> <<>>, chochs |-> <<>>]
  BY DEF NoSignals
<1>3. EngineSignals("SMC", series, minute, with) = run
  BY DEF EngineSignals
<1>4. series # <<>> => run.chochs \in {<<>>, Chochs(series)}
  <2> SUFFICES ASSUME series # <<>> PROVE SmcRun(series).chochs \in {<<>>, Chochs(series)}
    OBVIOUS
  <2> DEFINE chop == <<[type |-> "CHOP", valid |-> StructureValid(series), highs |-> 0, lows |-> 0]>>
             found == SmcSignals(series)
             none == NoSignals.SMC
             silence == [none EXCEPT !.structure = chop]
  <2>1. found.chochs = Chochs(series)
    BY DEF SmcSignals
  <2>2. SmcRun(series) = IF Stamped THEN found ELSE silence
    BY DEF SmcRun
  <2>3. silence.chochs = none.chochs
    <3> HIDE DEF chop, none
    <3> QED OBVIOUS
  <2> HIDE DEF found, silence
  <2> QED BY <1>2, <2>1, <2>2, <2>3
<1> HIDE DEF c, active, run
<1>5. c.signals.SMC = IF "SMC" \in active THEN Sent("SMC", series, minute, with) ELSE NoSignals.SMC
  BY <1>1, <1>2
<1>6. Sent("SMC", series, minute, with) = IF "SMC" \in with.late THEN NoSignals.SMC ELSE run
  BY <1>3 DEF Sent
<1>7. NoSignals.SMC.chochs = <<>>
  BY <1>2
<1>8. series = <<>> => run = NoSignals.SMC
  BY DEF run
<1> QED BY <1>4, <1>5, <1>6, <1>7, <1>8 DEF c

\* The changes in the last contract are those of the candles so far.
ChangesFound ==
  /\ candles \in Seq(Candles)
  /\ LET changes == contract.signals.SMC.chochs
     IN changes = <<>> \/ changes = Chochs(candles)

\* A change of character is confirmed by closes in a row beyond its level.
THEOREM ConfirmationTheorem == Spec => []ConfirmedByCloses
<1>1. Init => ChangesFound
  BY DEF Init, NoContract, NoSignals, ChangesFound
<1>2. ChangesFound /\ [Next]_vars => ChangesFound'
  <2> SUFFICES ASSUME ChangesFound, [Next]_vars PROVE ChangesFound'
    OBVIOUS
  <2>1. CASE UNCHANGED vars
    BY <2>1 DEF vars, ChangesFound
  <2>2. CASE Next
    <3>1. /\ candles' \in Seq(Candles)
          /\ contract' = NoContract \/ \E with \in Unusual \cup {Ordinary} : Analyse(candles', with)
      BY <2>2, Steps DEF ChangesFound
    <3>2. CASE contract' = NoContract
      BY <3>1, <3>2 DEF ChangesFound, NoContract, NoSignals
    <3>3. ASSUME NEW with \in Unusual \cup {Ordinary}, Analyse(candles', with)
          PROVE  ChangesFound'
      <4>1. contract' = CalculationCycle(candles', Open + clock', with)
        BY <3>3 DEF Analyse
      <4> QED BY <3>1, <4>1, CycleChanges DEF ChangesFound
    <3> QED BY <3>1, <3>2, <3>3
  <2> QED BY <2>1, <2>2
<1>3. ChangesFound => ConfirmedByCloses
  <2> SUFFICES ASSUME ChangesFound, NEW c \in ToSet(Delivered("SMC").chochs)
               PROVE  ClosesConfirm(candles, c)
    BY DEF ConfirmedByCloses
  <2>1. c \in ToSet(Chochs(candles))
    <3>1. ToSet(<<>>) = {}
      BY DEF ToSet
    <3> QED BY <3>1 DEF ChangesFound, Delivered
  <2> QED BY <2>1, ChangesConfirmed DEF ChangesFound
<1> QED BY <1>1, <1>2, <1>3, PTL DEF Spec

-----------------------------------------------------------------------------
(* The value area. *)

LEMMA Greatest ==
  ASSUME NEW n \in Nat, NEW v, \A i \in 0 .. n : v[i] \in Int
  PROVE  \E b \in 0 .. n : \A o \in 0 .. n : v[o] <= v[b]
<1> DEFINE Leads(k) == \E b \in 0 .. k : \A o \in 0 .. k : v[o] <= v[b]
           P == {k \in Nat : k <= n => Leads(k)}
<1>1. 0 \in P
  OBVIOUS
<1>2. ASSUME NEW k \in Nat, k + 1 <= n, Leads(k) PROVE Leads(k + 1)
  <2>1. PICK b \in 0 .. k : \A o \in 0 .. k : v[o] <= v[b]
    BY <1>2
  <2>2. /\ 0 .. k + 1 = (0 .. k) \cup {k + 1}
        /\ \A i \in 0 .. k + 1 : v[i] \in Int
    BY <1>2
  <2>3. CASE v[k + 1] <= v[b]
    <3>1. \A o \in 0 .. k + 1 : v[o] <= v[b]
      BY <2>1, <2>2, <2>3
    <3> QED BY <3>1
  <2>4. CASE v[b] < v[k + 1]
    <3>1. \A o \in 0 .. k + 1 : v[o] <= v[k + 1]
      BY <2>1, <2>2, <2>4
    <3> QED BY <3>1
  <2> QED BY <2>1, <2>2, <2>3, <2>4
<1> HIDE DEF Leads
<1>3. ASSUME NEW k \in P PROVE k + 1 \in P
  BY <1>2, <1>3
<1>4. P \subseteq Nat
  OBVIOUS
<1>5. P = Nat
  <2> HIDE DEF P
  <2> QED BY <1>1, <1>3, <1>4, Induction
<1>6. Leads(n)
  BY <1>5
<1> QED BY <1>6 DEF Leads

LEMMA TotalIsNat ==
  ASSUME NEW n \in Nat, NEW s \in [1 .. n -> Nat]
  PROVE  Total(s) \in Nat
<1> DEFINE Sums(f) == f = [i \in 0 .. n |-> IF i = 0 THEN 0 ELSE f[i - 1] + s[i]]
           sum == CHOOSE f : Sums(f)
<1>1. Len(s) = n
  OBVIOUS
<1>2. Total(s) = sum[n]
  BY <1>1 DEF Total
<1>3. Sums(sum)
  <2> DEFINE step == [i \in Nat |-> [x \in Nat |-> IF i \in 1 .. n THEN x + s[i] ELSE x]]
  <2>1. Makes(step, Nat)
    BY DEF Makes
  <2> HIDE DEF step
  <2>2. PICK f : MadeBy(f, 0, step, Nat, n)
    BY <2>1, Recursion
  <2> USE DEF step
  <2>3. f \in [0 .. n -> Nat] /\ f[0] = 0 /\ \A i \in 1 .. n : f[i] = step[i][f[i - 1]]
    BY <2>2 DEF MadeBy
  <2>4. ASSUME NEW i \in 1 .. n PROVE f[i] = f[i - 1] + s[i]
    <3>1. f[i - 1] \in Nat /\ i \in Nat
      BY <2>3
    <3>2. step[i][f[i - 1]] = f[i - 1] + s[i]
      BY <3>1
    <3> HIDE DEF step
    <3> QED BY <2>3, <3>2
  <2>5. Sums(f)
    <3> DEFINE h == [i \in 0 .. n |-> IF i = 0 THEN 0 ELSE f[i - 1] + s[i]]
    <3>1. \A i \in 0 .. n : f[i] = h[i]
      BY <2>3, <2>4
    <3>2. f = [i \in 0 .. n |-> f[i]] /\ h = [i \in 0 .. n |-> h[i]]
      BY <2>3
    <3>3. f = h
      <4> HIDE DEF h
      <4> QED BY <3>1, <3>2
    <3> QED BY <3>3
  <2> QED BY <2>5
<1> HIDE DEF sum
<1>4. sum[0] = 0 /\ \A i \in 1 .. n : sum[i] = sum[i - 1] + s[i]
  BY <1>3
<1> DEFINE P == {k \in Nat : k <= n => sum[k] \in Nat}
<1>5. 0 \in P
  BY <1>4
<1>6. ASSUME NEW k \in P PROVE k + 1 \in P
  <2> SUFFICES ASSUME k + 1 <= n PROVE sum[k + 1] \in Nat
    OBVIOUS
  <2>1. k + 1 \in 1 .. n /\ k + 1 - 1 = k /\ sum[k] \in Nat /\ s[k + 1] \in Nat
    BY <1>6
  <2>2. sum[k + 1] = sum[k] + s[k + 1]
    BY <1>4, <2>1
  <2> QED BY <2>1, <2>2
<1>7. P \subseteq Nat
  OBVIOUS
<1>8. P = Nat
  <2> HIDE DEF P
  <2> QED BY <1>5, <1>6, <1>7, Induction
<1> QED BY <1>2, <1>8

LEMMA BucketIsNat ==
  ASSUME NEW c \in Candles, NEW b \in Nat, NEW low \in Int, NEW range \in Int
  PROVE  BucketVolume(c, b, low, range) \in Nat
<1> DEFINE first == ((c.low - low) * Buckets) \div range
           last == Min({Buckets - 1, ((c.high - low) * Buckets) \div range})
           below == (c.low - low) * Buckets
           above == (c.high - low) * Buckets
           from == Max({below, b * range})
           to == Min({above, (b + 1) * range})
           wide == (c.high - c.low) * Buckets
           part == (c.volume * (to - from)) \div wide
<1>1. c.high \in Int /\ c.low \in Int /\ c.volume \in Nat /\ Buckets \in Int
  BY AnalysisAssumption, IndicatorAssumption
<1>2. BucketVolume(c, b, low, range) =
        IF first = last THEN (IF b = first THEN c.volume ELSE 0)
        ELSE IF b \in first .. last /\ to > from THEN part ELSE 0
  BY DEF BucketVolume
<1>3. ASSUME to > from PROVE part \in Nat
  <2>1. below \in Int /\ above \in Int /\ b * range \in Int /\ (b + 1) * range \in Int
    BY <1>1
  <2>2. wide = above - below
    BY <1>1
  <2>3. from \in Int /\ from >= below
    <3> DEFINE other == b * range
    <3> HIDE DEF below, other
    <3>1. Max({below, other}) = IF below >= other THEN below ELSE other
      BY <2>1, MaxOfTwo DEF other
    <3>2. from = Max({below, other})
      BY DEF other
    <3> HIDE DEF from
    <3> QED BY <2>1, <3>1, <3>2 DEF other
  <2>4. to \in Int /\ to <= above
    <3> DEFINE other == (b + 1) * range
    <3> HIDE DEF above, other
    <3>1. Min({above, other}) = IF above <= other THEN above ELSE other
      BY <2>1, MaxOfTwo DEF other
    <3>2. to = Min({above, other})
      BY DEF other
    <3> HIDE DEF to
    <3> QED BY <2>1, <3>1, <3>2 DEF other
  <2> HIDE DEF from, to, below, above, wide
  <2>5. wide \in Nat /\ wide > 0 /\ to - from \in Nat
    BY <1>3, <2>1, <2>2, <2>3, <2>4
  <2> DEFINE moved == to - from
             volume == c.volume
             product == volume * moved
  <2>6. product \in Nat
    <3>1. volume \in Nat /\ moved \in Nat
      BY <1>1, <2>5
    <3> HIDE DEF volume, moved
    <3> QED BY <3>1
  <2>7. part = product \div wide
    OBVIOUS
  <2> HIDE DEF product, part
  <2> QED BY <2>5, <2>6, <2>7
<1> HIDE DEF first, last, from, to, part
<1> QED BY <1>1, <1>2, <1>3

\* The buckets lo to hi are an area of the volume in front of them: what was added
\* last was needed and no lighter than what lies beside the area on the other side.
AreaOk(a, volume, target, poc) ==
  LET at(b) == IF b \in DOMAIN volume THEN volume[b] ELSE -1
      lastOne(b, other) == b # poc /\ a.volume - at(b) < target /\ at(b) >= at(other)
  IN /\ a \in [low : 0 .. poc, high : poc .. Buckets - 1, volume : Int]
     /\ a.low = a.high \/ lastOne(a.low, a.high + 1) \/ lastOne(a.high, a.low - 1)

LEMMA GrowKeeps ==
  ASSUME NEW volume \in [0 .. Buckets - 1 -> Nat], NEW target \in Int, NEW poc \in 0 .. Buckets - 1,
         NEW a, AreaOk(a, volume, target, poc)
  PROVE  LET g == Grow(a, volume, target)
         IN /\ AreaOk(g, volume, target, poc)
            /\ \/ g.volume >= target
               \/ g.low = 0 /\ g.high = Buckets - 1
               \/ g.high - g.low > a.high - a.low
            /\ (a.volume >= target \/ (a.low = 0 /\ a.high = Buckets - 1)) => g = a
<1> DEFINE at(b) == IF b \in DOMAIN volume THEN volume[b] ELSE -1
           left == IF a.low > 0 THEN volume[a.low - 1] ELSE -1
           right == IF a.high < Buckets - 1 THEN volume[a.high + 1] ELSE -1
           lower == [a EXCEPT !.low = @ - 1, !.volume = @ + left]
           higher == [a EXCEPT !.high = @ + 1, !.volume = @ + right]
           lo == a.low
           hi == a.high
           v == a.volume
           g == Grow(a, volume, target)
<1>1. /\ a = [low |-> lo, high |-> hi, volume |-> v]
      /\ lo \in 0 .. poc /\ hi \in poc .. Buckets - 1 /\ v \in Int
  BY DEF AreaOk
<1>2. Buckets \in Int /\ poc \in Int /\ DOMAIN volume = 0 .. Buckets - 1
  BY IndicatorAssumption
<1>3. /\ left = at(lo - 1) /\ right = at(hi + 1)
      /\ left \in Int /\ right \in Int /\ left >= -1 /\ right >= -1
      /\ left >= 0 <=> lo > 0
      /\ right >= 0 <=> hi < Buckets - 1
  BY <1>1, <1>2
<1>4. g = IF v >= target \/ (left < 0 /\ right < 0) THEN a ELSE IF left >= right THEN lower ELSE higher
  BY DEF Grow
<1> HIDE DEF left, right, at
<1>5. /\ lower = [low |-> lo - 1, high |-> hi, volume |-> v + left]
      /\ higher = [low |-> lo, high |-> hi + 1, volume |-> v + right]
  <2>1. lower = [a EXCEPT !.low = lo - 1, !.volume = v + left] /\ higher = [a EXCEPT !.high = hi + 1, !.volume = v + right]
    OBVIOUS
  <2> DEFINE l == lo - 1
             h == hi + 1
             vl == v + left
             vh == v + right
  <2>2. lower = [a EXCEPT !.low = l, !.volume = vl] /\ higher = [a EXCEPT !.high = h, !.volume = vh]
    BY <2>1
  <2> HIDE DEF lower, higher, lo, hi, v, l, h, vl, vh
  <2>3. lower = [low |-> l, high |-> hi, volume |-> vl] /\ higher = [low |-> lo, high |-> h, volume |-> vh]
    BY <1>1, <2>2
  <2> QED BY <2>3 DEF l, h, vl, vh
<1> DEFINE Ok(l, h, w) ==
             /\ l \in 0 .. poc /\ h \in poc .. Buckets - 1 /\ w \in Int
             /\ \/ l = h
                \/ l # poc /\ w - at(l) < target /\ at(l) >= at(h + 1)
                \/ h # poc /\ w - at(h) < target /\ at(h) >= at(l - 1)
<1>6. \A l, h, w : AreaOk([low |-> l, high |-> h, volume |-> w], volume, target, poc) <=> Ok(l, h, w)
  BY DEF AreaOk, at
<1>7. CASE v >= target \/ (left < 0 /\ right < 0)
  <2>1. g = a
    BY <1>4, <1>7
  <2>2. v >= target \/ (lo = 0 /\ hi = Buckets - 1)
    BY <1>1, <1>2, <1>3, <1>7
  <2> HIDE DEF g
  <2> QED BY <2>1, <2>2 DEF g
<1>8. CASE ~(v >= target \/ (left < 0 /\ right < 0)) /\ left >= right
  <2>1. g = [low |-> lo - 1, high |-> hi, volume |-> v + left]
    BY <1>4, <1>5, <1>8
  <2>2. Ok(lo - 1, hi, v + left)
    BY <1>1, <1>2, <1>3, <1>8
  <2>3. ~(lo = 0 /\ hi = Buckets - 1) /\ ~(v >= target)
    BY <1>1, <1>2, <1>3, <1>8
  <2> HIDE DEF Ok, g, lower, higher
  <2>4. AreaOk(g, volume, target, poc)
    BY <1>6, <2>1, <2>2
  <2>5. g.high = hi /\ g.low = lo - 1
    BY <2>1
  <2> QED BY <1>1, <1>2, <2>3, <2>4, <2>5 DEF g
<1>9. CASE ~(v >= target \/ (left < 0 /\ right < 0)) /\ ~(left >= right)
  <2>1. g = [low |-> lo, high |-> hi + 1, volume |-> v + right]
    BY <1>4, <1>5, <1>9
  <2>2. Ok(lo, hi + 1, v + right)
    BY <1>1, <1>2, <1>3, <1>9
  <2>3. ~(lo = 0 /\ hi = Buckets - 1) /\ ~(v >= target)
    BY <1>1, <1>2, <1>3, <1>9
  <2> HIDE DEF Ok, g, lower, higher
  <2>4. AreaOk(g, volume, target, poc)
    BY <1>6, <2>1, <2>2
  <2>5. g.high = hi + 1 /\ g.low = lo
    BY <2>1
  <2> QED BY <1>1, <1>2, <2>3, <2>4, <2>5 DEF g
<1> QED BY <1>7, <1>8, <1>9

\* Grown as often as there are buckets, an area is large enough or all there is.
LEMMA AreaGrown ==
  ASSUME NEW volume \in [0 .. Buckets - 1 -> Nat], NEW target \in Int, NEW poc \in 0 .. Buckets - 1
  PROVE  LET whole == ValueArea(volume, poc, target)
         IN /\ AreaOk(whole, volume, target, poc)
            /\ whole.volume >= target \/ (whole.low = 0 /\ whole.high = Buckets - 1)
<1> DEFINE start == [low |-> poc, high |-> poc, volume |-> volume[poc]]
           S == {a \in [low : 0 .. poc, high : poc .. Buckets - 1, volume : Int] : AreaOk(a, volume, target, poc)}
           More(a) == Grow(a, volume, target)
           Grown(f) == f = [k \in 0 .. Buckets |-> IF k = 0 THEN start ELSE More(f[k - 1])]
           area == CHOOSE f : Grown(f)
           Done(a) == a.volume >= target \/ (a.low = 0 /\ a.high = Buckets - 1)
<1>0. Buckets \in Nat /\ poc \in Int
  BY IndicatorAssumption
<1>1. start \in S
  <2>1. volume[poc] \in Nat
    OBVIOUS
  <2> DEFINE first == volume[poc]
  <2> HIDE DEF first
  <2>2. start = [low |-> poc, high |-> poc, volume |-> first] /\ first \in Int
    BY <2>1 DEF first
  <2>3. start \in [low : 0 .. poc, high : poc .. Buckets - 1, volume : Int] /\ start.low = start.high
    BY <1>0, <2>2
  <2>4. AreaOk(start, volume, target, poc)
    BY <2>3 DEF AreaOk
  <2> QED BY <2>3, <2>4
<1>2. ASSUME NEW a \in S
      PROVE  /\ More(a) \in S
             /\ a.high - a.low \in Int /\ a.high - a.low <= Buckets - 1
             /\ Done(More(a)) \/ More(a).high - More(a).low > a.high - a.low
  <2>1. AreaOk(a, volume, target, poc)
    OBVIOUS
  <2>2. AreaOk(More(a), volume, target, poc) /\ (Done(More(a)) \/ More(a).high - More(a).low > a.high - a.low)
    BY <2>1, GrowKeeps
  <2>3. More(a) \in [low : 0 .. poc, high : poc .. Buckets - 1, volume : Int]
    BY <2>2 DEF AreaOk
  <2> QED BY <1>0, <2>2, <2>3
<1>3. ASSUME NEW a \in S, Done(a) PROVE More(a) = a
  <2>1. AreaOk(a, volume, target, poc)
    OBVIOUS
  <2> QED BY <1>3, <2>1, GrowKeeps
<1>4. \A a \in S : AreaOk(a, volume, target, poc)
  OBVIOUS
<1>12. ValueArea(volume, poc, target) = area[Buckets]
  BY Zenon DEF ValueArea
<1>13. start.high - start.low = 0
  BY <1>0
<1> HIDE DEF S, More, start
<1>5. Grown(area)
  <2> DEFINE step == [i \in Nat |-> [a \in S |-> More(a)]]
  <2>1. Makes(step, S)
    BY <1>2 DEF Makes
  <2> HIDE DEF step
  <2>2. PICK f : MadeBy(f, start, step, S, Buckets)
    BY <1>0, <1>1, <2>1, Recursion
  <2>3. f \in [0 .. Buckets -> S] /\ f[0] = start /\ \A i \in 1 .. Buckets : f[i] = step[i][f[i - 1]]
    BY <2>2 DEF MadeBy
  <2>4. ASSUME NEW i \in 1 .. Buckets PROVE f[i] = More(f[i - 1])
    <3>1. f[i - 1] \in S /\ i \in Nat
      BY <1>0, <2>3
    <3>2. step[i][f[i - 1]] = More(f[i - 1])
      BY <3>1 DEF step
    <3> QED BY <2>3, <3>2
  <2> DEFINE h == [k \in 0 .. Buckets |-> IF k = 0 THEN start ELSE More(f[k - 1])]
  <2>5. \A i \in 0 .. Buckets : f[i] = h[i]
    BY <1>0, <2>3, <2>4
  <2>6. f = [i \in 0 .. Buckets |-> f[i]] /\ h = [i \in 0 .. Buckets |-> h[i]]
    BY <2>3
  <2>7. f = h
    <3> HIDE DEF h
    <3> QED BY <2>5, <2>6
  <2>8. Grown(f)
    BY <2>7
  <2> QED BY <2>8
<1> HIDE DEF area
<1>6. area[0] = start /\ \A k \in 1 .. Buckets : area[k] = More(area[k - 1])
  BY <1>0, <1>5
<1> DEFINE Holds(k) == area[k] \in S /\ (Done(area[k]) \/ area[k].high - area[k].low >= k)
           P == {k \in Nat : k <= Buckets => Holds(k)}
<1>7. Holds(0)
  <2>1. area[0] \in S /\ area[0].high - area[0].low = 0
    BY <1>1, <1>6, <1>13
  <2> QED BY <2>1
<1>8. ASSUME NEW k \in Nat, k + 1 <= Buckets, Holds(k) PROVE Holds(k + 1)
  <2>1. k + 1 \in 1 .. Buckets /\ k + 1 - 1 = k
    BY <1>0, <1>8
  <2>2. area[k + 1] = More(area[k])
    BY <1>6, <2>1
  <2> DEFINE a == area[k]
             wide == a.high - a.low
             wider == More(a).high - More(a).low
  <2>3. a \in S /\ (Done(a) \/ wide >= k)
    BY <1>8
  <2>4. /\ More(a) \in S /\ wide \in Int
        /\ Done(More(a)) \/ wider > wide
    BY <1>2, <2>3
  <2>5. wider \in Int
    BY <1>2, <2>4
  <2>6. Done(a) => Done(More(a))
    BY <1>3, <2>3
  <2> HIDE DEF Done
  <2>7. Done(More(a)) \/ wider >= k + 1
    <3> HIDE DEF wide, wider, a
    <3> QED BY <2>3, <2>4, <2>5, <2>6
  <2> QED BY <2>2, <2>4, <2>7
<1> HIDE DEF Holds, Done
<1>9. P = Nat
  <2>1. 0 \in P
    BY <1>7
  <2>2. ASSUME NEW k \in P PROVE k + 1 \in P
    BY <1>0, <1>8, <2>2
  <2>3. P \subseteq Nat
    OBVIOUS
  <2> HIDE DEF P
  <2> QED BY <2>1, <2>2, <2>3, Induction
<1>10. Holds(Buckets)
  BY <1>0, <1>9
<1>11. AreaOk(area[Buckets], volume, target, poc) /\ Done(area[Buckets])
  <2>1. area[Buckets] \in S /\ (Done(area[Buckets]) \/ area[Buckets].high - area[Buckets].low >= Buckets)
    BY <1>10 DEF Holds
  <2>2. area[Buckets].high - area[Buckets].low \in Int /\ area[Buckets].high - area[Buckets].low <= Buckets - 1
    BY <1>2, <2>1
  <2> QED BY <1>0, <1>4, <2>1, <2>2
<1> QED BY <1>11, <1>12, Zenon DEF Done

\* What a profile of a series promises of its value area.
AreaPromised(series, p) ==
  LET window == LastN(series, ProfilePeriod)
      low == Min({c.low : c \in ToSet(window)})
      range == Max({c.high : c \in ToSet(window)}) - low
      volume == Spread(window, low, range)
      at(b) == IF b \in DOMAIN volume THEN volume[b] ELSE -1
      target == (p.total * 7) \div 10
      lastOne(b, other) == b # p.poc /\ p.volume - at(b) < target /\ at(b) >= at(other)
  IN \/ range = 0
     \/ /\ p.val <= p.poc /\ p.poc <= p.vah
        /\ p.volume >= target \/ (p.val = 0 /\ p.vah = Buckets - 1)
        /\ \/ p.val = p.vah
           \/ lastOne(p.val, p.vah + 1)
           \/ lastOne(p.vah, p.val - 1)

\* What the validator asks of a profile.
ProfileSound(p) == p.poc >= 0 /\ p.val >= 0 /\ p.vah >= 0

LEMMA ProfilePromise ==
  ASSUME NEW series \in Seq(Candles), NEW p \in ToSet(VolumeProfile(series))
  PROVE  AreaPromised(series, p) /\ ProfileSound(p)
<1> DEFINE window == LastN(series, ProfilePeriod)
           n == Len(window)
           low == Min({c.low : c \in ToSet(window)})
           range == Max({c.high : c \in ToSet(window)}) - low
           total == Total([i \in DOMAIN window |-> window[i].volume])
           volume == Spread(window, low, range)
           poc == Min({b \in DOMAIN volume : \A other \in DOMAIN volume : volume[other] <= volume[b]})
           target == (total * 7) \div 10
           whole == ValueArea(volume, poc, target)
           flat == [poc |-> 0, val |-> 0, vah |-> 0, volume |-> total, total |-> total]
           found == [poc |-> poc, val |-> whole.low, vah |-> whole.high, volume |-> whole.volume, total |-> total]
<1>1. VolumeProfile(series) = IF Len(series) < ProfilePeriod THEN <<>>
                              ELSE IF range = 0 THEN <<flat>> ELSE <<found>>
  BY DEF VolumeProfile
<1>18. flat.poc = 0 /\ flat.val = 0 /\ flat.vah = 0
  <2> HIDE DEF total
  <2> QED OBVIOUS
<1>2. SUFFICES ASSUME range # 0 PROVE AreaPromised(series, p) /\ ProfileSound(p)
  <2>1. range = 0 => AreaPromised(series, p)
    BY DEF AreaPromised
  <2> HIDE DEF range, flat, found
  <2>2. ToSet(<<>>) = {} /\ \A x : x \in ToSet(<<flat>>) => x = flat
    BY DEF ToSet
  <2>3. range = 0 => p = flat
    BY <1>1, <2>2
  <2> QED BY <1>18, <2>1, <2>3 DEF ProfileSound
<1>3. Len(series) >= ProfilePeriod /\ p = found
  <2> HIDE DEF range, flat, found
  <2>1. ToSet(<<>>) = {} /\ \A x : x \in ToSet(<<found>>) => x = found
    BY DEF ToSet
  <2>2. Len(series) \in Nat /\ ProfilePeriod \in Nat
    BY IndicatorAssumption
  <2> QED BY <1>1, <1>2, <2>1, <2>2
<1>4. /\ window \in Seq(Candles) /\ DOMAIN window = 1 .. n /\ n \in Nat /\ n >= 1
  <2>0. Len(series) >= ProfilePeriod
    BY <1>3
  <2>1. window \in Seq(Candles) /\ Len(window) >= 1
    <3> HIDE DEF found, low, range, volume, poc, whole
    <3>1. Len(series) \in Nat /\ ProfilePeriod \in Nat /\ ProfilePeriod >= 1
      BY IndicatorAssumption
    <3> DEFINE from == Len(series) - ProfilePeriod + 1
    <3>2. SubSeq(series, from, Len(series)) \in Seq(Candles) /\ Len(SubSeq(series, from, Len(series))) = ProfilePeriod
      BY <2>0, <3>1
    <3>4. window = (IF Len(series) > ProfilePeriod THEN SubSeq(series, from, Len(series)) ELSE series)
      BY DEF LastN
    <3> DEFINE part == SubSeq(series, from, Len(series))
    <3> HIDE DEF from, window, n, part
    <3>5. part \in Seq(Candles) /\ Len(part) >= 1
      BY <3>1, <3>2 DEF part
    <3>6. series \in Seq(Candles) /\ Len(series) >= 1
      BY <2>0, <3>1
    <3> QED BY <3>4, <3>5, <3>6 DEF part
  <2> HIDE DEF window
  <2> QED BY <2>1
<1> HIDE DEF window, n
<1>5. \A i \in 1 .. n : window[i] \in Candles
  BY <1>4
<1>6. low \in Int
  <2> DEFINE lows == {c.low : c \in ToSet(window)}
  <2>1. window[1].low \in lows
    BY <1>4 DEF ToSet
  <2>2. lows \in SUBSET Nat
    BY <1>4, <1>5, AnalysisAssumption DEF ToSet
  <2> HIDE DEF lows
  <2>3. Min(lows) \in Nat
    BY <2>1, <2>2, Least
  <2> QED BY <2>3 DEF lows
<1>7. range \in Int
  <2> DEFINE highs == {c.high : c \in ToSet(window)}
             v == [i \in 0 .. n - 1 |-> window[i + 1].high]
  <2>1. n - 1 \in Nat /\ \A i \in 0 .. n - 1 : v[i] \in Int
    BY <1>4, <1>5, AnalysisAssumption
  <2>2. \E b \in 0 .. n - 1 : \A o \in 0 .. n - 1 : v[o] <= v[b]
    <3> HIDE DEF v
    <3> DEFINE m == n - 1
    <3> HIDE DEF m
    <3>1. m \in Nat /\ \A i \in 0 .. m : v[i] \in Int
      BY <2>1 DEF m
    <3>2. \E b \in 0 .. m : \A o \in 0 .. m : v[o] <= v[b]
      BY <3>1, Greatest
    <3> QED BY <3>2 DEF m
  <2>3. PICK b \in 0 .. n - 1 : \A o \in 0 .. n - 1 : v[o] <= v[b]
    BY <2>2
  <2>4. v[b] \in highs /\ v[b] \in Int
    BY <1>4, <2>1 DEF ToSet
  <2>5. ASSUME NEW y \in highs PROVE v[b] >= y
    <3>1. PICK i \in 1 .. n : y = window[i].high
      BY <1>4 DEF ToSet
    <3>2. i - 1 \in 0 .. n - 1 /\ v[i - 1] = y
      BY <1>4, <3>1
    <3>3. v[i - 1] <= v[b] /\ v[i - 1] \in Int
      BY <2>1, <2>3, <3>2
    <3> HIDE DEF v
    <3> QED BY <2>4, <3>2, <3>3
  <2>6. highs \in SUBSET Int
    BY <1>4, <1>5, AnalysisAssumption DEF ToSet
  <2> HIDE DEF highs, v
  <2>7. Max(highs) \in highs
    BY <2>4, <2>5 DEF Max
  <2>8. Max(highs) \in Int
    BY <2>6, <2>7
  <2> HIDE DEF low
  <2> QED BY <1>6, <2>8 DEF highs
<1> HIDE DEF low, range
<1>8. total \in Nat
  <2> DEFINE volumes == [i \in DOMAIN window |-> window[i].volume]
  <2>1. volumes \in [1 .. n -> Nat]
    BY <1>4, <1>5, AnalysisAssumption
  <2> HIDE DEF volumes
  <2>2. Total(volumes) \in Nat
    BY <1>4, <2>1, TotalIsNat
  <2> QED BY <2>2 DEF volumes
<1>9. volume \in [0 .. Buckets - 1 -> Nat]
  <2>1. ASSUME NEW b \in 0 .. Buckets - 1
        PROVE  Total([i \in DOMAIN window |-> BucketVolume(window[i], b, low, range)]) \in Nat
    <3> DEFINE parts == [i \in DOMAIN window |-> BucketVolume(window[i], b, low, range)]
    <3>1. \A i \in 1 .. n : BucketVolume(window[i], b, low, range) \in Nat
      BY <1>5, <1>6, <1>7, BucketIsNat
    <3>2. parts \in [1 .. n -> Nat]
      BY <1>4, <3>1
    <3> HIDE DEF parts
    <3>3. Total(parts) \in Nat
      BY <1>4, <3>2, TotalIsNat
    <3> QED BY <3>3 DEF parts
  <2> QED BY <2>1 DEF Spread
<1>10. target \in Int
  BY <1>8
<1> HIDE DEF volume, total, target
<1>11. poc \in 0 .. Buckets - 1
  <2> DEFINE m == Buckets - 1
             heaviest == {b \in DOMAIN volume : \A other \in DOMAIN volume : volume[other] <= volume[b]}
  <2>1. m \in Nat /\ DOMAIN volume = 0 .. m /\ \A i \in 0 .. m : volume[i] \in Int
    BY <1>9, IndicatorAssumption
  <2> HIDE DEF m
  <2>2. \E b \in 0 .. m : \A o \in 0 .. m : volume[o] <= volume[b]
    BY <2>1, Greatest
  <2>4. heaviest \subseteq 0 .. m
    BY <2>1
  <2>3. heaviest \in SUBSET Nat /\ heaviest # {}
    <3>1. heaviest # {}
      BY <2>1, <2>2
    <3>2. 0 .. m \subseteq Nat
      BY <2>1
    <3> HIDE DEF heaviest
    <3> QED BY <2>4, <3>1, <3>2
  <2> HIDE DEF heaviest
  <2>5. Min(heaviest) \in 0 .. m
    BY <2>3, <2>4, Least
  <2> QED BY <2>5 DEF heaviest, m
<1> HIDE DEF poc
<1>12. /\ AreaOk(whole, volume, target, poc)
       /\ whole.volume >= target \/ (whole.low = 0 /\ whole.high = Buckets - 1)
  BY <1>9, <1>10, <1>11, AreaGrown
<1> HIDE DEF whole
<1>13. /\ whole.low \in 0 .. poc /\ whole.high \in poc .. Buckets - 1 /\ poc \in Int
  BY <1>11, <1>12 DEF AreaOk
<1>14. /\ p.poc = poc /\ p.val = whole.low /\ p.vah = whole.high
       /\ p.volume = whole.volume /\ (p.total * 7) \div 10 = target
  <2> DEFINE lo == whole.low
             hi == whole.high
             v == whole.volume
  <2>1. p = [poc |-> poc, val |-> lo, vah |-> hi, volume |-> v, total |-> total]
    BY <1>3
  <2> HIDE DEF lo, hi, v
  <2>2. p.poc = poc /\ p.val = lo /\ p.vah = hi /\ p.volume = v /\ p.total = total
    BY <2>1
  <2> QED BY <2>2 DEF lo, hi, v, target
<1> HIDE DEF found
<1> DEFINE at(b) == IF b \in DOMAIN volume THEN volume[b] ELSE -1
           lastOne(b, other) == b # poc /\ whole.volume - at(b) < target /\ at(b) >= at(other)
<1>15. whole.low = whole.high \/ lastOne(whole.low, whole.high + 1) \/ lastOne(whole.high, whole.low - 1)
  BY <1>12 DEF AreaOk
<1>16. whole.low <= poc /\ poc <= whole.high
  BY <1>13
<1> HIDE DEF at
<1> DEFINE last(b, other) == b # p.poc /\ p.volume - at(b) < (p.total * 7) \div 10 /\ at(b) >= at(other)
<1>17. /\ p.val <= p.poc /\ p.poc <= p.vah
       /\ p.volume >= (p.total * 7) \div 10 \/ (p.val = 0 /\ p.vah = Buckets - 1)
       /\ p.val = p.vah \/ last(p.val, p.vah + 1) \/ last(p.vah, p.val - 1)
  BY <1>12, <1>14, <1>15, <1>16, Zenon
<1> HIDE DEF lastOne
<1>19. AreaPromised(series, p)
  BY <1>17, Zenon DEF AreaPromised, volume, low, range, window, at
<1>20. ProfileSound(p)
  <2> DEFINE lo == whole.low hi == whole.high
  <2>1. lo \in 0 .. poc /\ hi \in poc .. Buckets - 1 /\ poc \in 0 .. Buckets - 1 /\ Buckets \in Nat
    BY <1>11, <1>13, IndicatorAssumption
  <2> HIDE DEF lo, hi
  <2>2. poc >= 0 /\ lo >= 0 /\ hi >= 0
    BY <2>1
  <2> QED BY <1>14, <2>2, Zenon DEF ProfileSound, lo, hi
<1> QED BY <1>19, <1>20

\* What a cycle delivers of the profile.
LEMMA CycleProfile ==
  ASSUME NEW series, NEW minute, NEW with
  PROVE  LET profile == CalculationCycle(series, minute, with).signals.TECHNICAL.profile
         IN profile = <<>> \/ (Stamped /\ profile = VolumeProfile(series))
<1> DEFINE c == CalculationCycle(series, minute, with)
           active == ToSet(PhaseDomains(with.phase))
           run == TechnicalSignals(Dated(series))
<1>1. c.signals = [d \in DOMAIN NoSignals |-> IF d \in active THEN Sent(d, series, minute, with) ELSE NoSignals[d]]
  BY DEF CalculationCycle
<1>2. "TECHNICAL" \in DOMAIN NoSignals /\ NoSignals.TECHNICAL.profile = <<>>
  BY DEF NoSignals
<1>3. EngineSignals("TECHNICAL", series, minute, with) = run
  BY DEF EngineSignals
<1>4. run.profile = <<>> \/ (Stamped /\ run.profile = VolumeProfile(series))
  <2>1. run.profile \in {<<>>, VolumeProfile(Dated(series))}
    BY DEF TechnicalSignals
  <2>2. VolumeProfile(<<>>) = <<>>
    <3>1. Len(<<>>) < ProfilePeriod
      BY IndicatorAssumption
    <3> QED BY <3>1, Zenon DEF VolumeProfile
  <2> QED BY <2>1, <2>2 DEF Dated
<1> HIDE DEF c, active, run
<1>5. c.signals.TECHNICAL = IF "TECHNICAL" \in active THEN Sent("TECHNICAL", series, minute, with) ELSE NoSignals.TECHNICAL
  BY <1>1, <1>2
<1>6. Sent("TECHNICAL", series, minute, with) = IF "TECHNICAL" \in with.late THEN NoSignals.TECHNICAL ELSE run
  BY <1>3 DEF Sent
<1> QED BY <1>2, <1>4, <1>5, <1>6 DEF c

\* The profile in the last contract is that of the candles so far.
ProfileFound ==
  /\ candles \in Seq(Candles)
  /\ LET profile == contract.signals.TECHNICAL.profile
     IN profile = <<>> \/ profile = VolumeProfile(candles)

\* The value area holds what it promises, and no more than it needs.
THEOREM ValueAreaTheorem == Spec => []ValueAreaHolds
<1>1. Init => ProfileFound
  BY DEF Init, NoContract, NoSignals, ProfileFound
<1>2. ProfileFound /\ [Next]_vars => ProfileFound'
  <2> SUFFICES ASSUME ProfileFound, [Next]_vars PROVE ProfileFound'
    OBVIOUS
  <2>1. CASE UNCHANGED vars
    BY <2>1 DEF vars, ProfileFound
  <2>2. CASE Next
    <3>1. /\ candles' \in Seq(Candles)
          /\ contract' = NoContract \/ \E with \in Unusual \cup {Ordinary} : Analyse(candles', with)
      BY <2>2, Steps DEF ProfileFound
    <3>2. CASE contract' = NoContract
      BY <3>1, <3>2 DEF ProfileFound, NoContract, NoSignals
    <3>3. ASSUME NEW with \in Unusual \cup {Ordinary}, Analyse(candles', with)
          PROVE  ProfileFound'
      <4>1. contract' = CalculationCycle(candles', Open + clock', with)
        BY <3>3 DEF Analyse
      <4> QED BY <3>1, <4>1, CycleProfile DEF ProfileFound
    <3> QED BY <3>1, <3>2, <3>3
  <2> QED BY <2>1, <2>2
<1>3. ProfileFound => ValueAreaHolds
  <2> SUFFICES ASSUME ProfileFound, NEW p \in ToSet(Delivered("TECHNICAL").profile)
               PROVE  AreaPromised(candles, p)
    BY Zenon DEF ValueAreaHolds, AreaPromised
  <2>1. p \in ToSet(VolumeProfile(candles))
    <3>1. ToSet(<<>>) = {}
      BY DEF ToSet
    <3> QED BY <3>1 DEF ProfileFound, Delivered
  <2> QED BY <2>1, ProfilePromise DEF ProfileFound
<1> QED BY <1>1, <1>2, <1>3, PTL DEF Spec

-----------------------------------------------------------------------------
(* What the heads report. *)

\* The smaller of two whole numbers is one.
LEMMA MinIsInt ==
  ASSUME NEW a \in Int, NEW b \in Int
  PROVE  Min({a, b}) \in Int
<1> DEFINE m == Min({a, b})
<1>1. m = IF a <= b THEN a ELSE b
  BY MaxOfTwo
<1> HIDE DEF m
<1>2. m \in Int
  BY <1>1
<1> QED BY <1>2 DEF m

\* A share lies between nothing and a hundred per cent.  (the clamps of the heads)
LEMMA PercentRange ==
  ASSUME NEW x \in Int
  PROVE  Percent(x) \in 0 .. 100
<1> DEFINE y == Min({100, x})
<1>1. y \in Int /\ y <= 100
  BY MaxOfTwo
<1> HIDE DEF y
<1>2. Max({0, y}) \in 0 .. 100
  <2>1. Max({0, y}) = IF 0 >= y THEN 0 ELSE y
    BY <1>1, MaxOfTwo
  <2> QED BY <1>1, <2>1
<1> QED BY <1>2 DEF Percent, y

\* A confidence is a share in ten-thousandths.  (compute_confidence)
LEMMA ConfidenceRange ==
  ASSUME NEW base \in Int, NEW fresh \in Int, NEW context \in Int, NEW strength \in Int
  PROVE  Confidence(base, fresh, context, strength) \in TenThousandths
<1> DEFINE x == 40 * base + 20 * fresh + 25 * context + 15 * strength
           y == Min({10000, x})
<1>1. x \in Int
  OBVIOUS
<1> HIDE DEF x
<1>2. y \in Int /\ y <= 10000
  <2>1. Min({10000, x}) = IF 10000 <= x THEN 10000 ELSE x
    BY <1>1, MaxOfTwo
  <2> QED BY <1>1, <2>1
<1> HIDE DEF y
<1>3. Max({0, y}) \in 0 .. 10000
  <2> DEFINE z == Max({0, y})
  <2>1. z = IF 0 >= y THEN 0 ELSE y
    BY <1>2, MaxOfTwo
  <2> HIDE DEF z
  <2>2. z \in 0 .. 10000
    BY <1>2, <2>1
  <2> QED BY <2>2 DEF z
<1> QED BY <1>3 DEF Confidence, TenThousandths, x, y

\* How fresh a head is comes from when it was last refreshed.
LEMMA FreshnessRange ==
  ASSUME NEW age
  PROVE  /\ ApproxFreshness(age) \in Int
         /\ Freshness(age).score \in 0 .. 100
         /\ Freshness(age).tag \in {"FRESH", "WARM", "STALE"}
<1>1. ApproxFreshness(age) \in Int
  <2>1. ApproxFreshness(age) \in {50, 100, 70, 40, 10}
    BY Zenon DEF ApproxFreshness
  <2> QED BY <2>1
<1>2. /\ Freshness(age).score \in 0 .. 100
      /\ Freshness(age).tag \in {"FRESH", "WARM", "STALE"}
  <2>1. CASE age = None
    <3>1. None \notin Int
      BY HeadsAssumption
    <3>. QED BY <2>1, <3>1 DEF Freshness
  <2>2. CASE age # None /\ age \in 0 .. 1
    BY <2>2 DEF Freshness
  <2>3. CASE age # None /\ age \in 2 .. 9
    BY <2>3 DEF Freshness
  <2>4. CASE age # None /\ age \in 10 .. 29
    BY <2>4 DEF Freshness
  <2>5. CASE age # None /\ age \notin 0 .. 1 /\ age \notin 2 .. 9 /\ age \notin 10 .. 29
    BY <2>5 DEF Freshness
  <2> QED BY <2>1, <2>2, <2>3, <2>4, <2>5
<1> QED BY <1>1, <1>2

\* What every head's report must be for the validator to take it.
Sound(r) ==
  /\ DOMAIN r = DOMAIN Silent
  /\ r.rules # {} /\ r.confidence \in TenThousandths /\ r.quality \in 0 .. 100

\* The fields of a report.
Said == {"bias", "confidence", "quality", "primary", "backup", "zones", "triggers", "rules", "caution",
         "eventRisk", "allowed", "cooldown", "repeated", "trap", "tag", "freshness", "state"}

\* A report without anything to say is sound.
LEMMA SilentSound ==
  Sound(Silent) /\ DOMAIN Silent = Said /\ Silent.primary = None /\ Silent.backup = None
<1>1. DOMAIN Silent = Said /\ Silent.primary = None /\ Silent.backup = None
  BY DEF Silent, Said
<1>2. Silent.rules # {}
  BY DEF Silent
<1>3. Silent.confidence \in TenThousandths
  BY DEF Silent, TenThousandths
<1>4. Silent.quality \in 0 .. 100
  BY DEF Silent
<1> QED BY <1>1, <1>2, <1>3, <1>4, Zenon DEF Sound

\* A report always has a rule of invalidation.  (_build_invalidation)
LEMMA SomeRule == ASSUME NEW rules PROVE OrBaseline(rules) # {}
BY DEF OrBaseline

\* A condition that holds is worth a number, and one that does not is worth none.
LEMMA WorthIsInt == ASSUME NEW condition, NEW value \in Int PROVE If(condition, value) \in Int
BY DEF If

\* The last of some numbers is a number.
LEMMA LastIsInt ==
  ASSUME NEW s \in Seq(Int), NEW default \in Int
  PROVE  LastOr(s, default) \in Int
BY DEF LastOr

\* A report that is filled in keeps its shape.
LEMMA ReportSound ==
  ASSUME NEW bias, NEW primary, NEW backup, NEW zones, NEW rules, NEW confidence \in TenThousandths
  PROVE  Sound([Silent EXCEPT !.bias = bias, !.primary = primary, !.backup = backup, !.zones = zones,
                              !.rules = OrBaseline(rules), !.confidence = confidence])
<1> DEFINE given == OrBaseline(rules)
<1>1. given # {}
  BY SomeRule
<1> HIDE DEF given
<1> DEFINE said == [Silent EXCEPT !.bias = bias, !.primary = primary, !.backup = backup, !.zones = zones,
                                  !.rules = given, !.confidence = confidence]
<1>2. /\ DOMAIN said = DOMAIN Silent /\ said.rules = given
      /\ said.confidence = confidence /\ said.quality = Silent.quality
  BY SilentSound DEF Said
<1> HIDE DEF said
<1>3. Silent.quality \in 0 .. 100
  BY SilentSound DEF Sound
<1>4. Sound(said)
  BY <1>1, <1>2, <1>3, Zenon DEF Sound
<1> QED BY <1>4 DEF said, given

\* SMCHead._interpret gives a sound report.
LEMMA SmcSound ==
  ASSUME NEW s, NEW fresh \in Int,
         IsSequence(s.structure), IsSequence(s.gaps), IsSequence(s.blocks), IsSequence(s.chochs)
  PROVE  Sound(SmcReport(s, fresh))
<1> DEFINE n == Len(s.structure) + Len(s.gaps) + Len(s.blocks) + Len(s.chochs)
<1>2. n \in Nat
  <2> DEFINE structure == s.structure gaps == s.gaps blocks == s.blocks chochs == s.chochs
  <2> HIDE DEF structure, gaps, blocks, chochs
  <2>1. Len(structure) \in Nat /\ Len(gaps) \in Nat /\ Len(blocks) \in Nat /\ Len(chochs) \in Nat
    BY DEF IsSequence, structure, gaps, blocks, chochs
  <2>2. Len(structure) + Len(gaps) + Len(blocks) + Len(chochs) \in Nat
    BY <2>1
  <2> QED BY <2>2, Zenon DEF structure, gaps, blocks, chochs
<1> HIDE DEF n
<1> DEFINE open == Len(Unmitigated(s.gaps))
<1>3. open \in Nat
  <2> DEFINE gaps == s.gaps
             T == {gaps[k] : k \in 1 .. Len(gaps)}
             ss == [k \in 1 .. Len(gaps) |-> IF gaps[k].mitigated THEN <<>> ELSE <<gaps[k]>>]
  <2>1. Len(gaps) \in Nat /\ DOMAIN gaps = 1 .. Len(gaps)
    BY DEF IsSequence
  <2>2. Unmitigated(s.gaps) = FlattenSeq(ss)
    BY <2>1 DEF Unmitigated
  <2> HIDE DEF gaps
  <2>3. \A k \in 1 .. Len(gaps) : gaps[k] \in T
    OBVIOUS
  <2> HIDE DEF T
  <2>4. ss \in [1 .. Len(gaps) -> Seq(T)]
    BY <2>3
  <2> HIDE DEF ss
  <2>5. FlattenSeq(ss) \in Seq(T)
    BY <2>1, <2>4, FlattenMembers
  <2> QED BY <2>2, <2>5
<1> HIDE DEF open
<1> DEFINE up == UpSide(s) down == DownSide(s)
           confirmed == SelectSeq(s.chochs, LAMBDA c : c.confirmed)
           bias == Bias(SideWeight(up, confirmed), SideWeight(down, confirmed))
           zones == SmcZones(up, down)
           setups == SmcSetups(bias, up, down)
           valid == \E m \in ToSet(LastOnly(s.structure)) : m.valid
           quality == SmcQuality(valid, open > 0, s.blocks # <<>>, confirmed # <<>>, n)
           triggers == (IF up.gaps = <<>> THEN <<>> ELSE <<zones[1].price>>)
                        \o (IF down.gaps = <<>> THEN <<>> ELSE <<zones[Len(zones)].price>>)
           rules == OrBaseline(Rule(up.structure, "swing low") \cup Rule(down.structure, "swing high")
                       \cup Rule(setups[1] = "FVG Retest" /\ up.gaps # <<>>, "gap closed")
                       \cup Rule(setups[1] = "Order Block Bounce" /\ up.blocks # <<>>, "block broken"))
           primary == setups[1]
           backup == setups[2]
           base == SmcBase(valid, primary, open)
           strength == Min({100, 5 * n})
           confidence == Confidence(base, fresh, quality, strength)
           said == [Silent EXCEPT !.bias = bias, !.primary = primary, !.backup = backup, !.zones = zones,
                                  !.quality = quality, !.triggers = triggers, !.rules = rules,
                                  !.confidence = confidence]
<1>1. SmcReport(s, fresh) = IF n = 0 THEN Silent ELSE said
  BY Zenon DEF SmcReport, n, open
<1> HIDE DEF setups, bias, zones, triggers, up, down, valid, confirmed, primary, backup
<1>4. rules # {}
  BY SomeRule
<1> HIDE DEF rules
<1>5. base \in 0 .. 100
  <2>1. 20 \in Int /\ 10 * open \in Int /\ 30 \in Int /\ 40 \in Int
    BY <1>3
  <2> DEFINE a == If(valid, 30) b == If(primary # None, 40) c == Min({20, 10 * open})
  <2>2. a \in Int /\ b \in Int /\ c \in Int
    BY <2>1, MinIsInt, WorthIsInt, Zenon
  <2> HIDE DEF a, b, c
  <2>3. a + b + c \in Int
    BY <2>2
  <2>4. base = Percent(a + b + c)
    BY Zenon DEF SmcBase, a, b, c
  <2> QED BY <2>3, <2>4, PercentRange
<1> HIDE DEF base
<1>6. quality \in 0 .. 100
  <2>1. 10 \in Int /\ 30 \in Int /\ 25 \in Int /\ 20 \in Int /\ 15 \in Int /\ n \in Int
    BY <1>2
  <2> DEFINE a == If(valid, 30) b == If(open > 0, 25) c == If(s.blocks # <<>>, 20) d == If(confirmed # <<>>, 15)
             e == Min({10, n})
  <2>2. a \in Int /\ b \in Int /\ c \in Int /\ d \in Int /\ e \in Int
    BY <2>1, MinIsInt, WorthIsInt, Zenon
  <2> HIDE DEF a, b, c, d, e
  <2>3. a + b + c + d + e \in Int
    BY <2>2
  <2>4. quality = Percent(a + b + c + d + e)
    BY Zenon DEF SmcQuality, a, b, c, d, e
  <2> QED BY <2>3, <2>4, PercentRange
<1> HIDE DEF quality
<1>7. strength \in Int
  <2>1. 100 \in Int /\ 5 * n \in Int
    BY <1>2
  <2> QED BY <2>1, MinIsInt, Zenon
<1> HIDE DEF strength
<1>8. confidence \in TenThousandths
  <2>1. base \in Int /\ quality \in Int
    BY <1>5, <1>6
  <2> QED BY <1>7, <2>1, ConfidenceRange, Zenon
<1> HIDE DEF confidence
<1>9. Sound(said)
  <2>1. /\ DOMAIN said = DOMAIN Silent /\ said.rules = rules
        /\ said.confidence = confidence /\ said.quality = quality
    BY SilentSound DEF Said
  <2> HIDE DEF said
  <2> QED BY <1>4, <1>6, <1>8, <2>1, Zenon DEF Sound
<1> HIDE DEF said
<1> QED BY <1>1, <1>9, SilentSound

\* ICTHead._interpret gives a sound report.
LEMMA IctSound ==
  ASSUME NEW s, NEW fresh \in Int, s.count \in Nat, s.delivery \in Seq(Int)
  PROVE  Sound(IctReport(s, fresh))
<1> DEFINE n == s.count
           last == LastOr(s.delivery, 50)
<1>1. n \in Nat
  OBVIOUS
<1>2. last \in Int
  <2> DEFINE delivery == s.delivery
  <2>1. delivery \in Seq(Int) /\ 50 \in Int
    OBVIOUS
  <2> HIDE DEF delivery
  <2> QED BY <2>1, LastIsInt, Zenon DEF delivery
<1> DEFINE setups == IctSetups(s, IctBias(s))
           bias == IctBias(s) zones == IctZones(s) primary == setups[1] backup == setups[2]
           rules == OrBaseline(Rule(PdOf(s).state = "DISCOUNT", "discount lost")
                       \cup Rule(PdOf(s).state = "PREMIUM", "premium lost")
                       \cup Rule(ShiftOf(s).confirmed, "shift fails"))
           quality == IctQuality(s)
           base == IctBase(s, primary)
           strength == Percent((100 * n) \div 15)
           confidence == Confidence(base, fresh, quality, strength)
           said == [Silent EXCEPT !.bias = bias, !.primary = primary, !.backup = backup, !.quality = quality,
                                  !.zones = zones, !.rules = rules, !.confidence = confidence]
<1>3. IctReport(s, fresh) = IF n = 0 THEN Silent ELSE said
  BY Zenon DEF IctReport
<1>4. rules # {}
  BY SomeRule
<1> HIDE DEF setups, bias, zones, rules, primary, backup
<1>5. quality \in 0 .. 100
  <2> DEFINE a == If(s.pd # <<>>, 30) b == If(s.displacement # <<>>, 20) c == If(ShiftOf(s).confirmed, 30)
             d == last \div 10 e == Min({10, n})
  <2>1. 10 \in Int /\ 20 \in Int /\ 30 \in Int /\ n \in Int
    BY <1>1
  <2>2. a \in Int /\ b \in Int /\ c \in Int /\ e \in Int
    BY <2>1, MinIsInt, WorthIsInt, Zenon
  <2>4. quality = Percent(a + b + c + d + e)
    BY Zenon DEF IctQuality
  <2> HIDE DEF last
  <2>5. d \in Int
    BY <1>2
  <2> HIDE DEF a, b, c, d, e
  <2>3. a + b + c + d + e \in Int
    BY <2>2, <2>5
  <2> QED BY <2>3, <2>4, PercentRange
<1> HIDE DEF quality
<1>6. base \in 0 .. 100
  <2> DEFINE a == If(s.pd # <<>>, 20) b == If(primary # None, 30) c == If(ShiftOf(s).confirmed, 20)
             d == last \div 5
  <2>1. 20 \in Int /\ 30 \in Int
    OBVIOUS
  <2>2. a \in Int /\ b \in Int /\ c \in Int
    BY <2>1, WorthIsInt, Zenon
  <2>4. base = Percent(a + b + c + d)
    BY Zenon DEF IctBase
  <2> HIDE DEF last
  <2>5. d \in Int
    BY <1>2
  <2> HIDE DEF a, b, c, d
  <2>3. a + b + c + d \in Int
    BY <2>2, <2>5
  <2> QED BY <2>3, <2>4, PercentRange
<1> HIDE DEF base, last
<1>7. strength \in Int
  <2> HIDE DEF n
  <2>1. (100 * n) \div 15 \in Int
    BY <1>1
  <2> QED BY <2>1, PercentRange
<1> HIDE DEF strength
<1>8. confidence \in TenThousandths
  <2>1. base \in Int /\ quality \in Int
    BY <1>5, <1>6
  <2> QED BY <1>7, <2>1, ConfidenceRange, Zenon
<1> HIDE DEF confidence
<1>9. Sound(said)
  <2>1. /\ DOMAIN said = DOMAIN Silent /\ said.rules = rules
        /\ said.confidence = confidence /\ said.quality = quality
    BY SilentSound DEF Said
  <2> HIDE DEF said
  <2> QED BY <1>4, <1>5, <1>8, <2>1, Zenon DEF Sound
<1> HIDE DEF said
<1> QED BY <1>3, <1>9, SilentSound

\* TechnicalHead._interpret gives a sound report.
LEMMA TechnicalSound ==
  ASSUME NEW s, NEW fresh \in Int, s.count \in Nat
  PROVE  Sound(TechnicalReport(s, fresh))
<1> DEFINE n == s.count
           setups == TechnicalSetups(s, TechnicalBias(s))
           bias == TechnicalBias(s) zones == TechnicalZones(s) primary == setups[1] backup == setups[2]
           rules == Rule(Aligned(s), "alignment lost") \cup Rule(s.vwap # <<>>, "vwap lost")
                       \cup Rule(FastOf(s) > 0 /\ SlowOf(s) > 0, "cross reverses")
           context == IF Aligned(s) THEN 60 ELSE 30
           base == TechnicalBase(s, primary)
           strength == Percent((100 * n) \div 15)
           confidence == Confidence(base, fresh, context, strength)
           said == [Silent EXCEPT !.bias = bias, !.primary = primary, !.backup = backup, !.zones = zones,
                                  !.rules = OrBaseline(rules), !.confidence = confidence]
<1>1. n \in Nat
  OBVIOUS
<1>2. TechnicalReport(s, fresh) = IF n = 0 THEN Silent ELSE said
  BY Zenon DEF TechnicalReport
<1> HIDE DEF setups, bias, zones, rules, primary, backup
<1>3. base \in Int
  <2> DEFINE a == If(Aligned(s), 40) b == If(primary # None, 30) c == Min({20, 2 * n})
  <2>4. base = Percent(a + b + c)
    BY Zenon DEF TechnicalBase
  <2> HIDE DEF n
  <2>1. 20 \in Int /\ 30 \in Int /\ 40 \in Int /\ 2 * n \in Int
    BY <1>1
  <2>2. a \in Int /\ b \in Int /\ c \in Int
    BY <2>1, MinIsInt, WorthIsInt, Zenon
  <2> HIDE DEF a, b, c
  <2>3. a + b + c \in Int
    BY <2>2
  <2> QED BY <2>3, <2>4, PercentRange
<1>4. strength \in Int
  <2> HIDE DEF n
  <2>1. (100 * n) \div 15 \in Int
    BY <1>1
  <2> QED BY <2>1, PercentRange
<1>5. context \in Int
  OBVIOUS
<1> HIDE DEF base, strength, context
<1>6. confidence \in TenThousandths
  BY <1>3, <1>4, <1>5, ConfidenceRange, Zenon
<1> HIDE DEF confidence
<1>7. Sound(said)
  BY <1>6, ReportSound, Zenon
<1> HIDE DEF said
<1> QED BY <1>2, <1>7, SilentSound

\* OptionsHead._interpret gives a sound report.
LEMMA OptionsSound ==
  ASSUME NEW s, NEW fresh \in Int, s.count \in Nat, s.building["CE"] \in Nat, s.building["PE"] \in Nat
  PROVE  Sound(OptionsReport(s, fresh))
<1> DEFINE n == s.count
           built == s.building["CE"] + s.building["PE"]
           setups == OptionsSetups(s, OptionsBias(s))
           bias == OptionsBias(s) zones == OptionsZones(s) primary == setups[1] backup == setups[2]
           rules == Rule(WallsOf(s, "CALL_WALL") # <<>>, "call wall breaks")
                       \cup Rule(WallsOf(s, "PUT_WALL") # <<>>, "put wall breaks")
                       \cup Rule(s.pressure["BULLISH"] > 0, "bullish pressure gone")
                       \cup Rule(s.pressure["BEARISH"] > 0, "bearish pressure gone")
           base == OptionsBase(s, primary)
           strength == Percent(10 * n)
           confidence == Confidence(base, fresh, 50, strength)
           said == [Silent EXCEPT !.bias = bias, !.primary = primary, !.backup = backup, !.zones = zones,
                                  !.rules = OrBaseline(rules), !.confidence = confidence]
<1>1. n \in Nat
  OBVIOUS
<1>0. built \in Nat
  <2> DEFINE calls == s.building["CE"] puts == s.building["PE"]
  <2>1. calls \in Nat /\ puts \in Nat
    OBVIOUS
  <2> HIDE DEF calls, puts
  <2>2. calls + puts \in Nat
    BY <2>1
  <2> QED BY <2>2, Zenon DEF calls, puts
<1>2. OptionsReport(s, fresh) = IF n = 0 THEN Silent ELSE said
  BY Zenon DEF OptionsReport
<1> HIDE DEF setups, bias, zones, rules, primary, backup
<1>3. base \in Int
  <2> DEFINE a == If(s.walls # <<>>, 30) b == If(primary # None, 30) c == Min({30, 10 * built})
  <2>4. base = Percent(a + b + c)
    BY Zenon DEF OptionsBase
  <2> HIDE DEF built
  <2>1. 30 \in Int /\ 10 * built \in Int
    BY <1>0
  <2>2. a \in Int /\ b \in Int /\ c \in Int
    BY <2>1, MinIsInt, WorthIsInt, Zenon
  <2> HIDE DEF a, b, c
  <2>3. a + b + c \in Int
    BY <2>2
  <2> QED BY <2>3, <2>4, PercentRange
<1>4. strength \in Int /\ 50 \in Int
  <2> HIDE DEF n
  <2>1. 10 * n \in Int
    BY <1>1
  <2> QED BY <2>1, PercentRange
<1> HIDE DEF base, strength
<1>6. confidence \in TenThousandths
  BY <1>3, <1>4, ConfidenceRange, Zenon
<1> HIDE DEF confidence
<1>7. Sound(said)
  BY <1>6, ReportSound, Zenon
<1> HIDE DEF said
<1> QED BY <1>2, <1>7, SilentSound

\* The macro and the psychology head have no setups.
LEMMA MacroSound ==
  ASSUME NEW s, NEW fresh \in Int,
         IsSequence(s.vix), IsSequence(s.fii), IsSequence(s.events), IsSequence(s.environment)
  PROVE  LET r == MacroReport(s, fresh) IN Sound(r) /\ r.primary = None /\ r.backup = None
<1> DEFINE n == Len(s.vix) + Len(s.fii) + Len(s.events) + Len(s.environment)
<1>1. n \in Nat
  <2> DEFINE vix == s.vix fii == s.fii events == s.events environment == s.environment
  <2> HIDE DEF vix, fii, events, environment
  <2>1. Len(vix) \in Nat /\ Len(fii) \in Nat /\ Len(events) \in Nat /\ Len(environment) \in Nat
    BY DEF IsSequence, vix, fii, events, environment
  <2>2. Len(vix) + Len(fii) + Len(events) + Len(environment) \in Nat
    BY <2>1
  <2> QED BY <2>2, Zenon DEF vix, fii, events, environment
<1> DEFINE caution == MacroCaution(s)
           risk == EventRisk(s) > 50
           bias == MacroBias(s, caution)
           triggers == EventTriggers(s)
           rules == OrBaseline(Rule(LastOr(s.vix, 15) >= 14, "vix normal") \cup Rule(risk, "event passed")
                       \cup Rule(caution > 40, "caution removed"))
           base == MacroBase(s, n)
           strength == Percent((100 * n) \div 8)
           confidence == Confidence(base, fresh, 50, strength)
           said == [Silent EXCEPT !.caution = caution, !.eventRisk = risk, !.bias = bias, !.triggers = triggers,
                                  !.rules = rules, !.confidence = confidence]
<1>2. MacroReport(s, fresh) = IF n = 0 THEN Silent ELSE said
  BY Zenon DEF MacroReport
<1> HIDE DEF n
<1>3. rules # {}
  BY SomeRule
<1> HIDE DEF caution, risk, bias, triggers, rules
<1>4. base \in Int
  <2> DEFINE a == If(s.vix # <<>>, 30) b == If(s.fii # <<>>, 30) c == If(s.events # <<>>, 20) d == Min({15, 3 * n})
  <2>1. 30 \in Int /\ 20 \in Int /\ 15 \in Int /\ 3 * n \in Int
    BY <1>1
  <2>2. a \in Int /\ b \in Int /\ c \in Int /\ d \in Int
    BY <2>1, MinIsInt, WorthIsInt, Zenon
  <2>4. base = Percent(a + b + c + d)
    BY Zenon DEF MacroBase
  <2> HIDE DEF a, b, c, d
  <2>3. a + b + c + d \in Int
    BY <2>2
  <2> QED BY <2>3, <2>4, PercentRange
<1>5. strength \in Int /\ 50 \in Int
  <2>1. (100 * n) \div 8 \in Int
    BY <1>1
  <2> QED BY <2>1, PercentRange
<1> HIDE DEF base, strength
<1>6. confidence \in TenThousandths
  BY <1>4, <1>5, ConfidenceRange, Zenon
<1> HIDE DEF confidence
<1>7. Sound(said) /\ said.primary = None /\ said.backup = None
  <2>1. /\ DOMAIN said = DOMAIN Silent /\ said.rules = rules /\ said.quality = Silent.quality
        /\ said.confidence = confidence /\ said.primary = Silent.primary /\ said.backup = Silent.backup
    BY SilentSound DEF Said
  <2> HIDE DEF said
  <2>2. Silent.quality \in 0 .. 100 /\ Silent.primary = None /\ Silent.backup = None
    BY SilentSound DEF Sound
  <2> QED BY <1>3, <1>6, <2>1, <2>2, Zenon DEF Sound
<1> HIDE DEF said
<1> QED BY <1>2, <1>7, SilentSound

\* PsychologyHead._interpret gives a sound report, whatever it remembers.
LEMMA PsychologySound ==
  ASSUME NEW thinking, NEW count \in Nat, NEW fresh \in Int
  PROVE  LET r == PsychologyReport(thinking, count, fresh) IN Sound(r) /\ r.primary = None /\ r.backup = None
<1> DEFINE a == If(count > 0, 40) b == If(thinking.allowed /\ ~thinking.cooldown, 30)
           c == If(thinking.mistakes > 0 \/ thinking.losses > 0, 20)
           base == Percent(a + b + c)
           bias == IF TradeAllowed(thinking) THEN "NEUTRAL" ELSE "BEARISH"
           allowed == TradeAllowed(thinking) caution == Caution(thinking) cooldown == thinking.cooldown
           repeated == thinking.repeated trap == thinking.trap
           rules == OrBaseline(Rule(thinking.cooldown, "cooldown over") \cup Rule(thinking.repeated, "mistakes over")
                  \cup Rule(thinking.trap, "trap over") \cup Rule(thinking.sequence >= 3, "losses over")
                  \cup Rule(~thinking.allowed, "block lifted"))
           strength == Percent(20 * count)
           confidence == Confidence(base, fresh, 50, strength)
           said == [Silent EXCEPT !.bias = bias, !.allowed = allowed, !.caution = caution, !.cooldown = cooldown,
                                  !.repeated = repeated, !.trap = trap, !.rules = rules, !.confidence = confidence]
<1>1. PsychologyReport(thinking, count, fresh) = said
  BY Zenon DEF PsychologyReport
<1>2. rules # {}
  BY SomeRule
<1> HIDE DEF bias, allowed, caution, cooldown, repeated, trap, rules
<1>3. base \in Int
  <2>1. 40 \in Int /\ 30 \in Int /\ 20 \in Int
    OBVIOUS
  <2>2. a \in Int /\ b \in Int /\ c \in Int
    BY <2>1, WorthIsInt, Zenon
  <2> HIDE DEF a, b, c
  <2>3. a + b + c \in Int
    BY <2>2
  <2> QED BY <2>3, PercentRange
<1>4. strength \in Int /\ 50 \in Int
  <2>1. 20 * count \in Int
    OBVIOUS
  <2> QED BY <2>1, PercentRange
<1> HIDE DEF base, strength
<1>5. confidence \in TenThousandths
  BY <1>3, <1>4, ConfidenceRange, Zenon
<1> HIDE DEF confidence
<1>6. Sound(said) /\ said.primary = None /\ said.backup = None
  <2>1. /\ DOMAIN said = DOMAIN Silent /\ said.rules = rules /\ said.quality = Silent.quality
        /\ said.confidence = confidence /\ said.primary = Silent.primary /\ said.backup = Silent.backup
    BY SilentSound DEF Said
  <2> HIDE DEF said
  <2>2. Silent.quality \in 0 .. 100 /\ Silent.primary = None /\ Silent.backup = None
    BY SilentSound DEF Sound
  <2> QED BY <1>2, <1>5, <2>1, <2>2, Zenon DEF Sound
<1> QED BY <1>1, <1>6

\* What each head must find in what it reads.
CanBeRead(head, input) ==
  /\ head = "SMC" => /\ IsSequence(input.structure) /\ IsSequence(input.gaps)
                     /\ IsSequence(input.blocks) /\ IsSequence(input.chochs)
  /\ head = "ICT" => input.count \in Nat /\ input.delivery \in Seq(Int)
  /\ head = "Technical" => input.count \in Nat
  /\ head = "Options" => input.count \in Nat /\ input.building["CE"] \in Nat /\ input.building["PE"] \in Nat
  /\ head = "Macro" => /\ IsSequence(input.vix) /\ IsSequence(input.fii)
                       /\ IsSequence(input.events) /\ IsSequence(input.environment)
  /\ head = "Psychology" => input.count \in Nat

\* The heads by name.
LEMMA SixHeads == Heads = {"SMC", "ICT", "Technical", "Options", "Macro", "Psychology"}
<1>1. DOMAIN HeadOrder = 1 .. 6
  BY DEF HeadOrder
<1>2. /\ HeadOrder[1] = "SMC" /\ HeadOrder[2] = "ICT" /\ HeadOrder[3] = "Technical"
      /\ HeadOrder[4] = "Options" /\ HeadOrder[5] = "Macro" /\ HeadOrder[6] = "Psychology"
  BY DEF HeadOrder
<1>3. 1 .. 6 = {1, 2, 3, 4, 5, 6}
  OBVIOUS
<1> QED BY <1>1, <1>2, <1>3 DEF Heads, ToSet

\* A head that can read its input gives a report the validator takes, whenever it was last refreshed.
LEMMA HeadAccepted ==
  ASSUME NEW head \in Heads, NEW input, CanBeRead(head, input), NEW age, NEW thinking
  PROVE  ReportValid(head, RefreshHead(head, input, age, thinking))
<1> DEFINE fresh == ApproxFreshness(age)
           said == Interpret(head, input, fresh, thinking)
           score == Freshness(age).score
           tag == Freshness(age).tag
           state == StateOfHead(tag, said.confidence)
           r == RefreshHead(head, input, age, thinking)
<1>1. r = [said EXCEPT !.tag = tag, !.freshness = score, !.state = state]
  BY Zenon DEF RefreshHead
<1>2. fresh \in Int /\ score \in 0 .. 100
  BY FreshnessRange
<1>3. state \in {"READY", "UNCERTAIN", "STALE"}
  BY DEF StateOfHead
<1> HIDE DEF fresh, score, tag, state, r
<1>4. Sound(said) /\ (head \in {"Macro", "Psychology"} => said.primary = None /\ said.backup = None)
  <2>1. CASE head = "SMC"
    BY <1>2, <2>1, SmcSound DEF CanBeRead, Interpret
  <2>2. CASE head = "ICT"
    BY <1>2, <2>2, IctSound DEF CanBeRead, Interpret
  <2>3. CASE head = "Technical"
    BY <1>2, <2>3, TechnicalSound DEF CanBeRead, Interpret
  <2>4. CASE head = "Options"
    BY <1>2, <2>4, OptionsSound DEF CanBeRead, Interpret
  <2>5. CASE head = "Macro"
    BY <1>2, <2>5, MacroSound DEF CanBeRead, Interpret
  <2>6. CASE head = "Psychology"
    BY <1>2, <2>6, PsychologySound DEF CanBeRead, Interpret
  <2> QED BY <2>1, <2>2, <2>3, <2>4, <2>5, <2>6, SixHeads
<1> HIDE DEF said
<1>5. /\ r.rules = said.rules /\ r.quality = said.quality /\ r.primary = said.primary /\ r.backup = said.backup
      /\ r.state = state /\ r.freshness = score /\ r.confidence = said.confidence
  BY <1>1, <1>4, SilentSound DEF Sound, Said
<1>6. said.rules # {} /\ said.confidence \in TenThousandths /\ said.quality \in 0 .. 100
  BY <1>4 DEF Sound
<1>7. /\ r.rules # {} /\ r.quality \in 0 .. 100 /\ r.confidence \in TenThousandths
      /\ head \in {"Macro", "Psychology"} => r.primary = None /\ r.backup = None
      /\ r.state \in {"READY", "UNCERTAIN", "STALE"} /\ r.freshness \in 0 .. 100
  BY <1>2, <1>3, <1>4, <1>5, <1>6, Zenon
<1>8. ReportValid(head, r)
  BY <1>7, Zenon DEF ReportValid
<1> QED BY <1>8 DEF r

\* A contract made by hand can be read.
LEMMA HandMadeCanBeRead ==
  ASSUME NEW c \in Contracts, NEW head \in Heads
  PROVE  CanBeRead(head, c.inputs[head])
<1> DEFINE inputs == c.inputs
<1>0. IsReadable(inputs)
  BY AnalysisAssumption
<1> HIDE DEF inputs
<1>1. /\ IsSequence(inputs.SMC.structure) /\ IsSequence(inputs.SMC.gaps)
      /\ IsSequence(inputs.SMC.blocks) /\ IsSequence(inputs.SMC.chochs)
  BY <1>0, Zenon DEF IsReadable
<1>2. /\ IsSequence(inputs.Macro.vix) /\ IsSequence(inputs.Macro.fii)
      /\ IsSequence(inputs.Macro.events) /\ IsSequence(inputs.Macro.environment)
  BY <1>0, Zenon DEF IsReadable
<1>3. inputs.ICT.delivery \in Seq(Int)
  BY <1>0, Zenon DEF IsReadable
<1>4. inputs.Options.building["CE"] \in Nat /\ inputs.Options.building["PE"] \in Nat
  BY <1>0, Zenon DEF IsReadable
<1>5. /\ inputs.ICT.count \in Nat /\ inputs.Technical.count \in Nat
      /\ inputs.Options.count \in Nat /\ inputs.Psychology.count \in Nat
  BY <1>0, Zenon DEF IsReadable
<1>6. CanBeRead(head, inputs[head])
  <2>1. CASE head = "SMC"
    BY <1>1, <2>1, Zenon DEF CanBeRead
  <2>2. CASE head = "ICT"
    BY <1>3, <1>5, <2>2, Zenon DEF CanBeRead
  <2>3. CASE head = "Technical"
    BY <1>5, <2>3, Zenon DEF CanBeRead
  <2>4. CASE head = "Options"
    BY <1>4, <1>5, <2>4, Zenon DEF CanBeRead
  <2>5. CASE head = "Macro"
    BY <1>2, <2>5, Zenon DEF CanBeRead
  <2>6. CASE head = "Psychology"
    BY <1>5, <2>6, Zenon DEF CanBeRead
  <2> QED BY <2>1, <2>2, <2>3, <2>4, <2>5, <2>6, SixHeads
<1> QED BY <1>6 DEF inputs

-----------------------------------------------------------------------------
(* Sequences of anything. *)

\* A sequence of anything is one of its own members.
LEMMA SeqIsSequence ==
  ASSUME NEW T, NEW s \in Seq(T)
  PROVE  IsSequence(s)
<1>1. DOMAIN s = 1 .. Len(s) /\ Len(s) \in Nat /\ \A i \in 1 .. Len(s) : s[i] \in ToSet(s)
  BY DEF ToSet
<1>2. s = [i \in 1 .. Len(s) |-> s[i]]
  BY <1>1
<1> DEFINE U == ToSet(s)
<1> HIDE DEF U
<1>3. s \in [1 .. Len(s) -> U]
  BY <1>1, <1>2 DEF U
<1>4. s \in Seq(U)
  BY <1>1, <1>3
<1> QED BY <1>4 DEF IsSequence, U

\* A function on the first places is a sequence.
LEMMA MadeIsSequence ==
  ASSUME NEW n \in Nat, NEW s, DOMAIN s = 1 .. n, s = [i \in 1 .. n |-> s[i]]
  PROVE  IsSequence(s) /\ Len(s) = n
<1> DEFINE U == ToSet(s)
<1>1. \A i \in 1 .. n : s[i] \in U
  BY DEF ToSet
<1> HIDE DEF U
<1>2. s \in [1 .. n -> U]
  BY <1>1
<1>3. s \in Seq(U) /\ Len(s) = n
  BY <1>2
<1> QED BY <1>3 DEF IsSequence, U

\* Nothing and one thing are sequences.
LEMMA OneIsSequence ==
  IsSequence(<<>>) /\ \A x : IsSequence(<<x>>)
<1>1. <<>> \in Seq({})
  OBVIOUS
<1>2. ASSUME NEW x PROVE <<x>> \in Seq({x})
  OBVIOUS
<1> QED BY <1>1, <1>2, SeqIsSequence

\* What is kept of a sequence is a sequence, of some of its members.
LEMMA KeptMembers ==
  ASSUME NEW T, NEW s \in Seq(T), NEW places
  PROVE  /\ Kept(s, places) \in Seq(T)
         /\ \A x : x \in ToSet(Kept(s, places)) => \E k \in DOMAIN s : k \in places /\ x = s[k]
<1> DEFINE n == Len(s)
           ss == [k \in 1 .. n |-> IF k \in places THEN <<s[k]>> ELSE <<>>]
<1>1. n \in Nat /\ DOMAIN s = 1 .. n /\ \A k \in 1 .. n : s[k] \in T
  OBVIOUS
<1>2. Kept(s, places) = FlattenSeq(ss)
  BY <1>1 DEF Kept
<1> HIDE DEF n
<1>3. ss \in [1 .. n -> Seq(T)]
  BY <1>1
<1>4. ASSUME NEW k \in 1 .. n, NEW x \in ToSet(ss[k]) PROVE k \in places /\ x = s[k]
  BY <1>4 DEF ToSet
<1> HIDE DEF ss
<1>5. FlattenSeq(ss) \in Seq(T)
  BY <1>1, <1>3, FlattenMembers
<1>6. ASSUME NEW x \in ToSet(FlattenSeq(ss)) PROVE \E k \in 1 .. n : x \in ToSet(ss[k])
  BY <1>1, <1>3, <1>6, FlattenMembers
<1> QED BY <1>1, <1>2, <1>4, <1>5, <1>6

\* The price of a swing is a price, so it is not zero.
LEMMA SwingPrice ==
  ASSUME NEW s, IsSwing(s)
  PROVE  s.price \in Nat /\ s.price > 0
<1>1. PICK c \in Candles : s.price = EdgeOf(s.kind, c)
  BY DEF IsSwing
<1>2. c.low \in Nat /\ c.high \in Nat /\ c.low > 0 /\ c.low <= c.high
  BY CandleFacts
<1> DEFINE price == EdgeOf(s.kind, c) low == c.low high == c.high
<1>3. price = high \/ price = low
  BY DEF EdgeOf
<1> HIDE DEF price, low, high
<1>4. low \in Nat /\ high \in Nat /\ low > 0 /\ low <= high
  BY <1>2 DEF low, high
<1>5. price \in Nat /\ price > 0
  BY <1>3, <1>4
<1> QED BY <1>1, <1>5, Zenon DEF price

-----------------------------------------------------------------------------
(* What the smart-money engine delivers. *)

\* A trend has one of the names of a structure.
LEMMA TrendNamed ==
  ASSUME NEW highs, NEW lows, NEW otherwise \in Structures
  PROVE  Trend(highs, lows, otherwise) \in Structures
<1> DEFINE t == Trend(highs, lows, otherwise)
<1>2. t \in {"CHOP", "BULLISH_HH_HL", "BEARISH_LH_LL", otherwise}
  BY DEF Trend
<1> HIDE DEF t
<1>3. {"CHOP", "BULLISH_HH_HL", "BEARISH_LH_LL", otherwise} \subseteq Structures
  BY DEF Structures
<1> QED BY <1>2, <1>3, Zenon DEF t

\* A structure has a name, and so has the one before it.
LEMMA StructureNamed ==
  ASSUME NEW swings
  PROVE  /\ Structure(swings) \in Structures
         /\ \A k : PriorStructure(swings, k) \in Structures
<1>1. "CHOP" \in Structures /\ "BREAKOUT" \in Structures
  BY DEF Structures
<1>2. Structure(swings) \in Structures
  <2> DEFINE few == Len(swings) < 4
             otherwise == IF RecentBreakout(swings) THEN "BREAKOUT" ELSE "CHOP"
  <2>1. otherwise \in Structures
    BY <1>1, Zenon
  <2>2. Structure(swings) = IF few THEN "CHOP" ELSE Trend(OfKind(swings, "HIGH"), OfKind(swings, "LOW"), otherwise)
    BY Zenon DEF Structure
  <2> HIDE DEF few, otherwise
  <2>3. Trend(OfKind(swings, "HIGH"), OfKind(swings, "LOW"), otherwise) \in Structures
    BY <2>1, TrendNamed
  <2> QED BY <1>1, <2>2, <2>3, Zenon
<1>3. ASSUME NEW k PROVE PriorStructure(swings, k) \in Structures
  <2> DEFINE four == SubSeq(swings, k - 4, k - 1)
             early == k <= 4
  <2>1. PriorStructure(swings, k) = IF early THEN "CHOP" ELSE Trend(OfKind(four, "HIGH"), OfKind(four, "LOW"), "CHOP")
    BY Zenon DEF PriorStructure
  <2> HIDE DEF four, early
  <2>2. Trend(OfKind(four, "HIGH"), OfKind(four, "LOW"), "CHOP") \in Structures
    BY <1>1, TrendNamed
  <2> QED BY <1>1, <2>1, <2>2, Zenon
<1> QED BY <1>2, <1>3

\* What the validator asks of each signal of the smart-money engine.
GapSound(g) == g.type \in {"BULLISH_FVG", "BEARISH_FVG"} /\ g.top > g.bottom
BlockSound(b) == b.type \in {"BULLISH_OB", "BEARISH_OB"} /\ b.price > 0 /\ b.strength \in 0 .. 100
ChangeSound(c) == c.type \in {"BULLISH_CHOCH", "BEARISH_CHOCH"} /\ c.price > 0 /\ c.prior \in Structures

\* Gaps have a side and a width.  (detect_fvgs)
LEMMA GapsSound ==
  ASSUME NEW series \in Seq(Candles)
  PROVE  LET gaps == WithMitigation(Gaps(series), series)
         IN IsSequence(gaps) /\ \A g \in ToSet(gaps) : GapSound(g)
<1> DEFINE T == {g \in [type : {"BULLISH_FVG", "BEARISH_FVG"}, top : Nat, bottom : Nat, at : Nat, mitigated : BOOLEAN] :
                   g.top > g.bottom}
           m == Len(series)
           n == Max({0, m - 2})
           Both(i) == BullishGap(series, i) \o BearishGap(series, i)
           ss == [i \in 1 .. n |-> Both(i)]
           all == Gaps(series)
           gaps == WithMitigation(all, series)
<1>1. m \in Nat /\ \A i \in 1 .. m : series[i] \in Candles
  OBVIOUS
<1>2. n \in Nat /\ \A i \in 1 .. n : i \in 1 .. m /\ i + 2 \in 1 .. m
  <2> HIDE DEF m
  <2>1. n = IF 0 >= m - 2 THEN 0 ELSE m - 2
    BY <1>1, MaxOfTwo
  <2> HIDE DEF n
  <2> QED BY <1>1, <2>1
<1>3. all = FlattenSeq(ss)
  BY DEF Gaps, UpTo
<1> HIDE DEF n, m
<1>4. ASSUME NEW top \in Nat, NEW bottom \in Nat, NEW i \in Nat, NEW type \in {"BULLISH_FVG", "BEARISH_FVG"},
             top - bottom >= MinGap
      PROVE  [type |-> type, top |-> top, bottom |-> bottom, at |-> i, mitigated |-> FALSE] \in T
  BY <1>4, StructureAssumption
<1> HIDE DEF T
<1>5. ASSUME NEW i \in 1 .. n
      PROVE  BullishGap(series, i) \in Seq(T) /\ BearishGap(series, i) \in Seq(T)
  <2> DEFINE a == series[i] b == series[i + 2]
             up == b.low lowered == a.high
             top == a.low bottom == b.high
             bull == [type |-> "BULLISH_FVG", top |-> up, bottom |-> lowered, at |-> i, mitigated |-> FALSE]
             bear == [type |-> "BEARISH_FVG", top |-> top, bottom |-> bottom, at |-> i, mitigated |-> FALSE]
  <2>1. a \in Candles /\ b \in Candles
    BY <1>1, <1>2, <1>5
  <2>2. up \in Nat /\ lowered \in Nat /\ top \in Nat /\ bottom \in Nat /\ i \in Nat
    BY <1>2, <1>5, <2>1, CandleFacts
  <2>3. /\ BullishGap(series, i) = IF up - lowered >= MinGap THEN <<bull>> ELSE <<>>
        /\ BearishGap(series, i) = IF top - bottom >= MinGap THEN <<bear>> ELSE <<>>
    BY DEF BullishGap, BearishGap
  <2> HIDE DEF a, b, up, lowered, top, bottom
  <2>4. /\ up - lowered >= MinGap => bull \in T
        /\ top - bottom >= MinGap => bear \in T
    BY <1>4, <2>2
  <2> HIDE DEF bull, bear
  <2>5. \A x \in T : <<x>> \in Seq(T)
    OBVIOUS
  <2>6. <<>> \in Seq(T)
    OBVIOUS
  <2> QED BY <2>3, <2>4, <2>5, <2>6
<1>6. \A i \in 1 .. n : Both(i) \in Seq(T)
  BY <1>5
<1> HIDE DEF Both
<1>7. ss \in [1 .. n -> Seq(T)]
  BY <1>6
<1> HIDE DEF ss
<1>8. all \in Seq(T)
  BY <1>2, <1>3, <1>7, FlattenMembers
<1> HIDE DEF all
<1>9. DOMAIN all = 1 .. Len(all) /\ Len(all) \in Nat /\ \A k \in 1 .. Len(all) : all[k] \in T
  BY <1>8
<1>10. gaps = [k \in 1 .. Len(all) |-> [all[k] EXCEPT !.mitigated = Mitigated(all[k], series)]]
  BY <1>9 DEF WithMitigation
<1> HIDE DEF gaps
<1>11. ASSUME NEW k \in 1 .. Len(all) PROVE GapSound(gaps[k])
  <2> DEFINE g == all[k] reached == Mitigated(g, series) h == [g EXCEPT !.mitigated = reached]
  <2>1. gaps[k] = h /\ g \in T
    BY <1>9, <1>10
  <2> HIDE DEF g, reached
  <2>2. g \in [type : {"BULLISH_FVG", "BEARISH_FVG"}, top : Nat, bottom : Nat, at : Nat, mitigated : BOOLEAN] /\ g.top > g.bottom
    BY <2>1 DEF T
  <2>3. h.type = g.type /\ h.top = g.top /\ h.bottom = g.bottom
    BY <2>2
  <2> HIDE DEF h
  <2> QED BY <2>1, <2>2, <2>3 DEF GapSound
<1>12. DOMAIN gaps = 1 .. Len(all) /\ gaps = [k \in 1 .. Len(all) |-> gaps[k]]
  BY <1>10
<1>13. IsSequence(gaps)
  BY <1>9, <1>12, MadeIsSequence
<1>14. \A g \in ToSet(gaps) : GapSound(g)
  BY <1>11, <1>12 DEF ToSet
<1> QED BY <1>13, <1>14 DEF gaps, all

\* What is clamped lies between the bounds.
LEMMA ClampRange ==
  ASSUME NEW x \in Int, NEW low \in Int, NEW high \in Int, low <= high
  PROVE  Clamp(low, x, high) \in low .. high
<1> DEFINE y == Min({x, high})
<1>1. y \in Int /\ y <= high
  <2>1. y = IF x <= high THEN x ELSE high
    BY MaxOfTwo
  <2> HIDE DEF y
  <2> QED BY <2>1
<1> HIDE DEF y
<1>2. Max({low, y}) = IF low >= y THEN low ELSE y
  BY <1>1, MaxOfTwo
<1>3. Clamp(low, x, high) = Max({low, y})
  BY DEF Clamp, y
<1> DEFINE z == Max({low, y})
<1> HIDE DEF z
<1>4. z \in low .. high
  BY <1>1, <1>2 DEF z
<1> QED BY <1>3, <1>4 DEF z

\* The largest of the numbers at the places of an interval is one of them.
LEMMA LargestIsInt ==
  ASSUME NEW a \in Int, NEW b \in Int, a <= b, NEW f \in [a .. b -> Int]
  PROVE  Max({f[j] : j \in a .. b}) \in Int
<1> DEFINE v == [i \in 0 .. b - a |-> f[a + i]]
           S == {f[j] : j \in a .. b}
<1>1. b - a \in Nat /\ \A i \in 0 .. b - a : v[i] \in Int
  OBVIOUS
<1>2. PICK k \in 0 .. b - a : \A o \in 0 .. b - a : v[o] <= v[k]
  <2> HIDE DEF v
  <2> QED BY <1>1, Greatest
<1>3. f[a + k] \in S /\ \A y \in S : f[a + k] >= y
  <2>1. a + k \in a .. b /\ v[k] = f[a + k]
    OBVIOUS
  <2>2. ASSUME NEW j \in a .. b PROVE f[j] <= f[a + k]
    <3>1. j - a \in 0 .. b - a /\ a + (j - a) = j
      OBVIOUS
    <3>2. v[j - a] = f[j]
      BY <3>1
    <3> QED BY <1>2, <2>1, <3>1, <3>2
  <2> QED BY <2>1, <2>2
<1>4. S \subseteq Int
  OBVIOUS
<1> HIDE DEF S
<1>5. Max(S) \in S
  BY <1>3 DEF Max
<1> QED BY <1>4, <1>5 DEF S

\* The factor of a strength is a share.
LEMMA FactorRange ==
  ASSUME NEW x \in Int, NEW price \in Nat
  PROVE  Clamp(0, (x * 50 * 100) \div Max({price, 1}), 100) \in 0 .. 100
<1> DEFINE d == Max({price, 1})
<1>1. d \in Nat /\ d > 0
  <2>1. d = IF price >= 1 THEN price ELSE 1
    BY MaxOfTwo
  <2> HIDE DEF d
  <2> QED BY <2>1
<1> HIDE DEF d
<1> DEFINE y == x * 50 * 100
           z == y \div d
<1>2. y \in Int
  OBVIOUS
<1> HIDE DEF y
<1>3. z \in Int
  BY <1>1, <1>2
<1>4. 0 \in Int /\ 100 \in Int /\ 0 <= 100
  OBVIOUS
<1> HIDE DEF z
<1>5. Clamp(0, z, 100) \in 0 .. 100
  BY <1>3, <1>4, ClampRange
<1> QED BY <1>5 DEF y, z, d

\* The strength of a block is a share.
LEMMA BlockStrengthRange ==
  ASSUME NEW series \in Seq(Candles), NEW swing, IsSwing(swing), NEW i \in 1 .. Len(series)
  PROVE  BlockStrength(swing, i, series) \in 0 .. 100
<1> DEFINE m == Len(series)
           end == Min({i + 4 * Window - 1, m})
           after == i + 1 .. end
           other == IF swing.kind = "HIGH" THEN "LOW" ELSE "HIGH"
           f == [j \in i + 1 .. end |-> Side(other, EdgeOf(other, series[j]))]
           away == {Side(other, EdgeOf(other, series[j])) : j \in after}
           impulse == Max(away) - Side(other, swing.price)
           range == series[i].high - series[i].low
           price == swing.price
           near == Clamp(0, (impulse * 50 * 100) \div Max({price, 1}), 100)
           size == Clamp(0, (range * 50 * 100) \div Max({price, 1}), 100)
           r == BlockStrength(swing, i, series)
<1>1. m \in Nat /\ \A j \in 1 .. m : series[j] \in Candles
  OBVIOUS
<1>2. price \in Nat
  BY SwingPrice
<1>3. end \in Int /\ end <= m
  <2> DEFINE e == i + 4 * Window - 1
             least == Min({e, m})
  <2>1. e \in Int
    BY <1>1, StructureAssumption
  <2> HIDE DEF e, m
  <2>4. m \in Int
    BY <1>1
  <2>2. least = IF e <= m THEN e ELSE m
    BY <2>1, <2>4, MaxOfTwo
  <2> HIDE DEF least
  <2>3. least \in Int /\ least <= m
    BY <1>1, <2>1, <2>2
  <2> QED BY <2>3 DEF least, e
<1>4. range \in Int
  <2>1. series[i] \in Candles
    BY <1>1
  <2>2. series[i].high \in Nat /\ series[i].low \in Nat
    BY <2>1, CandleFacts
  <2> QED BY <2>2
<1>5. r = IF after = {} \/ impulse <= 0 THEN 10 ELSE Max({10, (7 * near + 3 * size) \div 10})
  BY DEF BlockStrength
<1> HIDE DEF end, m, r
<1>6. ASSUME after # {} PROVE impulse \in Int
  <2>1. i + 1 <= end /\ i + 1 \in Int
    BY <1>1, <1>3, <1>6
  <2>2. ASSUME NEW j \in i + 1 .. end PROVE Side(other, EdgeOf(other, series[j])) \in Int
    <3>1. series[j] \in Candles
      BY <1>1, <1>3 DEF m
    <3>2. series[j].high \in Nat /\ series[j].low \in Nat
      BY <3>1, CandleFacts
    <3> QED BY <3>2 DEF Side, EdgeOf
  <2>3. f \in [i + 1 .. end -> Int]
    BY <2>2
  <2>4. away = {f[j] : j \in i + 1 .. end}
    OBVIOUS
  <2> HIDE DEF f
  <2>5. Max({f[j] : j \in i + 1 .. end}) \in Int
    BY <1>3, <2>1, <2>3, LargestIsInt
  <2> HIDE DEF away
  <2>6. Max(away) \in Int
    BY <2>4, <2>5
  <2>7. Side(other, price) \in Int
    BY <1>2 DEF Side
  <2> DEFINE far == Max(away) start == Side(other, price)
  <2> HIDE DEF far, start
  <2>8. far - start \in Int
    BY <2>6, <2>7 DEF far, start
  <2> QED BY <2>8 DEF far, start
<1> HIDE DEF impulse, range, price, after
<1>7. size \in 0 .. 100 /\ (after # {} => near \in 0 .. 100)
  BY <1>2, <1>4, <1>6, FactorRange
<1> HIDE DEF near, size
<1>8. after = {} \/ impulse <= 0 => r \in 0 .. 100
  BY <1>5
<1>9. ASSUME ~(after = {} \/ impulse <= 0) PROVE r \in 0 .. 100
  <2> DEFINE x == (7 * near + 3 * size) \div 10
             most == Max({10, x})
  <2>4. near \in 0 .. 100 /\ size \in 0 .. 100
    BY <1>7, <1>9, Zenon
  <2>1. x \in 0 .. 100
    BY <2>4
  <2> HIDE DEF x
  <2>2. r = most
    BY <1>5, <1>9 DEF x
  <2>3. most = IF 10 >= x THEN 10 ELSE x
    BY <2>1, MaxOfTwo
  <2> HIDE DEF most
  <2> QED BY <2>1, <2>2, <2>3
<1>10. r \in 0 .. 100
  BY <1>8, <1>9
<1> QED BY <1>10 DEF r

\* Blocks have a side, a price and a strength.  (detect_order_blocks)
LEMMA BlocksSound ==
  ASSUME NEW series \in Seq(Candles), NEW trend
  PROVE  LET blocks == OrderBlocks(series, trend)
         IN IsSequence(blocks) /\ \A b \in ToSet(blocks) : BlockSound(b)
<1> DEFINE against == IF trend = "BEARISH_LH_LL" THEN "LOW"
                      ELSE IF trend = "BULLISH_HH_HL" THEN "HIGH" ELSE "NONE"
           swings == Swings(series)
           places == {k \in DOMAIN swings : swings[k].kind # against /\ SwingCandle(swings[k], series) # {}}
           from == Kept(swings, places)
           n == Len(from)
           At(s) == Min(SwingCandle(s, series))
           Block(s) == [type |-> IF s.kind = "LOW" THEN "BULLISH_OB" ELSE "BEARISH_OB",
                        price |-> s.price, at |-> At(s), strength |-> BlockStrength(s, At(s), series)]
           made == [k \in DOMAIN from |-> Block(from[k])]
           blocks == OrderBlocks(series, trend)
<1>1. PICK T : swings \in Seq(T) /\ \A s \in T : IsSwing(s)
  BY SwingsMembers
<1>2. blocks = IF StructureValid(series) THEN made ELSE <<>>
  BY DEF OrderBlocks
<1> HIDE DEF swings, against, blocks
<1>3. from \in Seq(T) /\ \A s \in ToSet(from) : SwingCandle(s, series) # {}
  <2>1. /\ from \in Seq(T)
        /\ \A x : x \in ToSet(from) => \E k \in DOMAIN swings : k \in places /\ x = swings[k]
    BY <1>1, KeptMembers
  <2> HIDE DEF from
  <2> QED BY <2>1
<1> HIDE DEF places, from
<1>4. n \in Nat /\ DOMAIN from = 1 .. n
  BY <1>3
<1>5. ASSUME NEW k \in 1 .. n PROVE BlockSound(Block(from[k]))
  <2> DEFINE s == from[k] m == Len(series)
             type == IF s.kind = "LOW" THEN "BULLISH_OB" ELSE "BEARISH_OB"
             price == s.price at == At(s) strength == BlockStrength(s, at, series)
  <2>1. s \in T /\ s \in ToSet(from)
    BY <1>3, <1>4 DEF ToSet
  <2> HIDE DEF s
  <2>2. IsSwing(s) /\ SwingCandle(s, series) # {}
    BY <1>1, <1>3, <2>1
  <2>3. price \in Nat /\ price > 0
    BY <2>2, SwingPrice
  <2>4. SwingCandle(s, series) \subseteq 1 .. m /\ m \in Nat
    BY StructureAssumption DEF SwingCandle
  <2>5. at \in 1 .. m
    <3>1. SwingCandle(s, series) \in SUBSET Nat
      BY <2>4
    <3>2. at \in SwingCandle(s, series)
      BY <2>2, <3>1, Least
    <3> QED BY <2>4, <3>2
  <2> HIDE DEF at
  <2>6. strength \in 0 .. 100
    BY <2>2, <2>5, BlockStrengthRange
  <2>7. type \in {"BULLISH_OB", "BEARISH_OB"}
    OBVIOUS
  <2> HIDE DEF type, price, strength
  <2>8. Block(s) = [type |-> type, price |-> price, at |-> at, strength |-> strength]
    BY Zenon DEF at, type, price, strength
  <2> DEFINE b == Block(s)
  <2> HIDE DEF b
  <2>9. b.type = type /\ b.price = price /\ b.strength = strength
    BY <2>8 DEF b
  <2>10. BlockSound(b)
    BY <2>3, <2>6, <2>7, <2>9 DEF BlockSound
  <2> QED BY <2>10 DEF b, s
<1> HIDE DEF Block
<1>6. DOMAIN made = 1 .. n /\ made = [k \in 1 .. n |-> made[k]] /\ \A k \in 1 .. n : BlockSound(made[k])
  BY <1>4, <1>5
<1> HIDE DEF made
<1>7. IsSequence(made) /\ \A b \in ToSet(made) : BlockSound(b)
  <2>1. IsSequence(made)
    BY <1>4, <1>6, MadeIsSequence
  <2> QED BY <1>6, <2>1 DEF ToSet
<1>8. IsSequence(<<>>) /\ ToSet(<<>>) = {}
  BY OneIsSequence DEF ToSet
<1>9. IsSequence(blocks) /\ \A b \in ToSet(blocks) : BlockSound(b)
  BY <1>2, <1>7, <1>8
<1> QED BY <1>9 DEF blocks

\* Changes of character have a side, a price and a structure before them.
LEMMA ChangesSound ==
  ASSUME NEW series \in Seq(Candles)
  PROVE  IsSequence(Chochs(series)) /\ \A c \in ToSet(Chochs(series)) : ChangeSound(c)
<1> DEFINE swings == Swings(series)
           n == Len(swings)
           Check(k) == CheckSwing(swings, k, series)
           Type(k) == IF swings[k].kind = "HIGH" THEN "BULLISH_CHOCH" ELSE "BEARISH_CHOCH"
           Change(k) == [type |-> Type(k), price |-> swings[k].price,
                         at |-> Min(ClosesBeyond(swings[k], series, Min(SwingCandle(swings[k], series)) + 1)),
                         prior |-> PriorStructure(swings, k), confirmed |-> TRUE]
           T == {Change(k) : k \in 1 .. n}
           ss == [k \in 1 .. n |-> Check(k)]
           all == Chochs(series)
<1>1. PICK U : swings \in Seq(U) /\ \A s \in U : IsSwing(s)
  BY SwingsMembers
<1>2. all = <<>> \/ all = FlattenSeq([k \in DOMAIN swings |-> Check(k)])
  BY DEF Chochs
<1>3. ASSUME NEW k PROVE Check(k) \in {<<>>, <<Change(k)>>}
  BY Zenon DEF CheckSwing
<1> HIDE DEF swings, Check, all
<1>4. n \in Nat /\ DOMAIN swings = 1 .. n /\ \A k \in 1 .. n : swings[k] \in U
  BY <1>1
<1> HIDE DEF n
<1>5. ASSUME NEW k \in 1 .. n PROVE ChangeSound(Change(k))
  <2> DEFINE s == swings[k]
             type == Type(k) price == s.price prior == PriorStructure(swings, k)
             at == Min(ClosesBeyond(s, series, Min(SwingCandle(s, series)) + 1))
             r == [type |-> type, price |-> price, at |-> at, prior |-> prior, confirmed |-> TRUE]
  <2>1. IsSwing(s)
    BY <1>1, <1>4
  <2>2. price \in Nat /\ price > 0
    BY <2>1, SwingPrice
  <2>3. type \in {"BULLISH_CHOCH", "BEARISH_CHOCH"}
    OBVIOUS
  <2>4. prior \in Structures
    BY StructureNamed
  <2>5. Change(k) = r
    OBVIOUS
  <2> HIDE DEF type, price, prior, at, Change
  <2>6. r.type = type /\ r.price = price /\ r.prior = prior
    OBVIOUS
  <2> HIDE DEF r
  <2> QED BY <2>2, <2>3, <2>4, <2>5, <2>6 DEF ChangeSound
<1> HIDE DEF Change
<1>6. ASSUME NEW k \in 1 .. n PROVE Check(k) \in Seq(T)
  <2>1. Change(k) \in T
    BY <1>6
  <2> HIDE DEF T
  <2>2. <<Change(k)>> \in Seq(T) /\ <<>> \in Seq(T)
    BY <2>1
  <2> QED BY <1>3, <2>2
<1>7. \A c \in T : ChangeSound(c)
  BY <1>5
<1> HIDE DEF T
<1>8. ss \in [1 .. n -> Seq(T)]
  BY <1>6
<1>9. all = <<>> \/ all = FlattenSeq(ss)
  BY <1>2, <1>4
<1> HIDE DEF ss
<1>10. all \in Seq(T)
  <2>1. FlattenSeq(ss) \in Seq(T)
    BY <1>4, <1>8, FlattenMembers
  <2>2. <<>> \in Seq(T)
    OBVIOUS
  <2> QED BY <1>9, <2>1, <2>2
<1>11. IsSequence(all)
  BY <1>10, SeqIsSequence
<1>12. \A c \in ToSet(all) : ChangeSound(c)
  <2>1. \A i \in DOMAIN all : all[i] \in T
    BY <1>10
  <2> QED BY <1>7, <2>1 DEF ToSet
<1> QED BY <1>11, <1>12 DEF all

\* What the smart-money engine delivers is valid and can be read.
SmcDelivered(s) ==
  /\ IsSequence(s.structure) /\ IsSequence(s.gaps) /\ IsSequence(s.blocks) /\ IsSequence(s.chochs)
  /\ SmcValid(s)

\* Sound parts make a valid delivery.  (validate_smc_signals)
LEMMA SmcParts ==
  ASSUME NEW s, NEW name, NEW valid \in BOOLEAN, NEW one, s.structure = <<one>>, one.type = name, one.valid = valid,
         name \in Structures,
         IsSequence(s.gaps), IsSequence(s.blocks), IsSequence(s.chochs),
         \A g \in ToSet(s.gaps) : GapSound(g), \A b \in ToSet(s.blocks) : BlockSound(b),
         \A c \in ToSet(s.chochs) : ChangeSound(c)
  PROVE  SmcDelivered(s)
<1>1. IsSequence(s.structure)
  BY OneIsSequence
<1>2. \A m \in ToSet(s.structure) : m = one
  <2> DEFINE structure == s.structure
  <2>1. structure = <<one>>
    OBVIOUS
  <2> HIDE DEF structure
  <2>2. \A m \in ToSet(structure) : m = one
    BY <2>1 DEF ToSet
  <2> QED BY <2>2 DEF structure
<1>3. SmcValid(s)
  BY <1>2, Zenon DEF SmcValid, GapSound, BlockSound, ChangeSound
<1> QED BY <1>1, <1>3, Zenon DEF SmcDelivered

\* So does an engine that delivers nothing.
LEMMA NoSmcDelivered == SmcDelivered(NoSignals.SMC)
<1> DEFINE s == NoSignals.SMC
<1>1. s.structure = <<>> /\ s.gaps = <<>> /\ s.blocks = <<>> /\ s.chochs = <<>>
  BY DEF NoSignals
<1> HIDE DEF s
<1>2. IsSequence(<<>>) /\ ToSet(<<>>) = {}
  BY OneIsSequence DEF ToSet
<1>3. SmcDelivered(s)
  BY <1>1, <1>2, Zenon DEF SmcDelivered, SmcValid
<1> QED BY <1>3 DEF s

\* What the smart-money engine finds in a series is valid.
LEMMA SmcRunDelivers ==
  ASSUME NEW series \in Seq(Candles), series # <<>>
  PROVE  SmcDelivered(SmcRun(series))
<1>0. StructureValid(series) \in BOOLEAN /\ "CHOP" \in Structures
  BY DEF StructureValid, Structures
<1>1. CASE Stamped
  <2> DEFINE s == SmcSignals(series)
             one == StructureSignal(Swings(series), series)
             gaps == WithMitigation(Gaps(series), series)
             blocks == OrderBlocks(series, Structure(Swings(series)))
             chochs == Chochs(series)
             name == Structure(Swings(series)) valid == StructureValid(series)
  <2>1. s = [structure |-> <<one>>, gaps |-> gaps, blocks |-> blocks, chochs |-> chochs]
    BY Zenon DEF SmcSignals
  <2>2. one.type = name /\ one.valid = valid
    BY DEF StructureSignal
  <2>3. name \in Structures
    BY StructureNamed
  <2>4. IsSequence(gaps) /\ \A g \in ToSet(gaps) : GapSound(g)
    BY GapsSound
  <2>5. IsSequence(blocks) /\ \A b \in ToSet(blocks) : BlockSound(b)
    BY BlocksSound
  <2>6. IsSequence(chochs) /\ \A c \in ToSet(chochs) : ChangeSound(c)
    BY ChangesSound
  <2> HIDE DEF s, one, gaps, blocks, chochs, name
  <2>7. s.structure = <<one>> /\ s.gaps = gaps /\ s.blocks = blocks /\ s.chochs = chochs
    BY <2>1
  <2>8. SmcDelivered(s)
    BY <1>0, <2>2, <2>3, <2>4, <2>5, <2>6, <2>7, SmcParts
  <2> QED BY <1>1, <2>8 DEF SmcRun, s
<1>2. CASE ~Stamped
  <2> DEFINE none == NoSignals.SMC
             valid == StructureValid(series)
             one == [type |-> "CHOP", valid |-> valid, highs |-> 0, lows |-> 0]
             s == [none EXCEPT !.structure = <<one>>]
  <2>1. SmcRun(series) = s
    BY <1>2, Zenon DEF SmcRun
  <2>2. none = [structure |-> <<>>, gaps |-> <<>>, blocks |-> <<>>, chochs |-> <<>>]
    BY DEF NoSignals
  <2>3. one.type = "CHOP" /\ one.valid = valid
    OBVIOUS
  <2> HIDE DEF none, valid, one
  <2>4. s.structure = <<one>> /\ s.gaps = <<>> /\ s.blocks = <<>> /\ s.chochs = <<>>
    BY <2>2
  <2> HIDE DEF s
  <2>5. IsSequence(<<>>) /\ ToSet(<<>>) = {}
    BY OneIsSequence DEF ToSet
  <2>6. valid \in BOOLEAN
    BY <1>0 DEF valid
  <2>7. SmcDelivered(s)
    BY <1>0, <2>3, <2>4, <2>5, <2>6, SmcParts
  <2> QED BY <2>1, <2>7
<1> QED BY <1>1, <1>2

-----------------------------------------------------------------------------
(* What the ICT engine delivers. *)

\* The largest of the highs and the smallest of the lows of some candles.
LEMMA RangeOfCandles ==
  ASSUME NEW series \in Seq(Candles), NEW a \in Nat, NEW b \in Nat, 1 <= a, a <= b, b <= Len(series)
  PROVE  LET before == SubSeq(series, a, b)
         IN /\ Max({c.high : c \in ToSet(before)}) \in Int
            /\ Min({c.low : c \in ToSet(before)}) \in Nat /\ Min({c.low : c \in ToSet(before)}) > 0
<1> DEFINE before == SubSeq(series, a, b)
           f == [j \in a .. b |-> series[j].high]
           highs == {c.high : c \in ToSet(before)}
           lows == {c.low : c \in ToSet(before)}
<1>1. \A j \in a .. b : series[j] \in Candles
  OBVIOUS
<1>2. ToSet(before) = {series[j] : j \in a .. b}
  <2>1. DOMAIN before = 1 .. b - a + 1 /\ \A i \in 1 .. b - a + 1 : before[i] = series[a + i - 1]
    OBVIOUS
  <2> HIDE DEF before
  <2>2. \A j \in a .. b : j - a + 1 \in 1 .. b - a + 1 /\ a + (j - a + 1) - 1 = j
    OBVIOUS
  <2>3. \A i \in 1 .. b - a + 1 : a + i - 1 \in a .. b
    OBVIOUS
  <2>4. \A x : x \in ToSet(before) <=> \E i \in 1 .. b - a + 1 : x = series[a + i - 1]
    BY <2>1 DEF ToSet
  <2>5. \A x : (\E i \in 1 .. b - a + 1 : x = series[a + i - 1]) <=> \E j \in a .. b : x = series[j]
    BY <2>2, <2>3
  <2> QED BY <2>4, <2>5
<1> HIDE DEF before
<1>3. Max(highs) \in Int
  <2>1. f \in [a .. b -> Int]
    BY <1>1, CandleFacts
  <2>2. highs = {f[j] : j \in a .. b}
    BY <1>2
  <2> HIDE DEF f, highs
  <2> QED BY <2>1, <2>2, LargestIsInt
<1>4. lows \in SUBSET Nat /\ lows # {} /\ \A y \in lows : y > 0
  <2>1. \A c \in ToSet(before) : c.low \in Nat /\ c.low > 0
    BY <1>1, <1>2, CandleFacts
  <2>2. series[a] \in ToSet(before)
    BY <1>2
  <2> QED BY <2>1, <2>2
<1> HIDE DEF lows
<1>5. Min(lows) \in lows
  BY <1>4, Least
<1>6. Min(lows) \in Nat /\ Min(lows) > 0
  BY <1>4, <1>5
<1> QED BY <1>3, <1>6 DEF lows, before

\* How deep a price is in its zone is a share.
LEMMA ZoneStrengthRange ==
  ASSUME NEW price \in Int, NEW high \in Int, NEW low \in Int, high > low
  PROVE  ZoneStrength(price, high, low) \in 0 .. 100
<1> DEFINE zone == Zone(price, high, low)
           above == 2 * price - high - low
           toEdge == IF zone = "DISCOUNT" THEN 0 - above ELSE above
           scaled == 100 * toEdge
           width == high - low
           x == scaled \div width
<1>1. ZoneStrength(price, high, low) = IF zone = "OPTIMAL_TRADE_ENTRY" THEN 100 ELSE Clamp(0, x, 100)
  BY DEF ZoneStrength
<1> HIDE DEF zone
<1>2. scaled \in Int /\ width \in Nat /\ width > 0
  OBVIOUS
<1> HIDE DEF scaled, width
<1>3. x \in Int
  BY <1>2
<1> HIDE DEF x
<1>4. 0 \in Int /\ 100 \in Int /\ 0 <= 100
  OBVIOUS
<1>5. Clamp(0, x, 100) \in 0 .. 100
  BY <1>3, <1>4, ClampRange
<1> DEFINE share == Clamp(0, x, 100)
<1> HIDE DEF share
<1>6. share \in 0 .. 100
  BY <1>5 DEF share
<1> QED BY <1>1, <1>6 DEF share

\* What the validator asks of the premium and discount of a candle.
ArraySound(p) == p.level > 0 /\ p.strength \in 0 .. 100

\* A candle against the ones before it: at most one zone, with a level and a strength.  (_classify_single)
LEMMA ArrayAtSound ==
  ASSUME NEW series \in Seq(Candles), NEW i \in Nat, ArrayPeriod < i, i <= Len(series)
  PROVE  ArrayAt(series, i) = <<>> \/ \E p : ArraySound(p) /\ ArrayAt(series, i) = <<p>>
<1> DEFINE before == SubSeq(series, i - ArrayPeriod, i - 1)
           high == Max({c.high : c \in ToSet(before)})
           low == Min({c.low : c \in ToSet(before)})
           price == series[i].close
           zone == Zone(price, high, low)
           strength == ZoneStrength(price, high, low)
           level == CASE zone = "OPTIMAL_TRADE_ENTRY" -> 8 * low + 5 * (high - low)
                      [] zone = "DISCOUNT" -> 8 * low [] OTHER -> 8 * high
           p == [type |-> zone, strength |-> strength, level |-> level]
           flat == high <= low
<1>1. ArrayAt(series, i) = IF flat THEN <<>> ELSE <<p>>
  BY Zenon DEF ArrayAt
<1>2. high \in Int /\ low \in Nat /\ low > 0
  <2>1. /\ i - ArrayPeriod \in Nat /\ i - 1 \in Nat /\ 1 <= i - ArrayPeriod
        /\ i - ArrayPeriod <= i - 1 /\ i - 1 <= Len(series)
    BY IndicatorAssumption
  <2> QED BY <2>1, RangeOfCandles
<1>3. price \in Int
  <2>1. series[i] \in Candles
    BY IndicatorAssumption
  <2> QED BY <2>1, CandleFacts
<1> HIDE DEF high, low, price
<1>4. flat \/ ArraySound(p)
  <2> SUFFICES ASSUME high > low PROVE ArraySound(p)
    BY <1>2
  <2>5. low \in Int
    BY <1>2
  <2>1. strength \in 0 .. 100
    BY <1>2, <1>3, <2>5, ZoneStrengthRange, Zenon
  <2> HIDE DEF zone, strength
  <2>2. level \in {8 * low + 5 * (high - low), 8 * low, 8 * high}
    <3> DEFINE a == 8 * low + 5 * (high - low) b == 8 * low c == 8 * high
               entry == zone = "OPTIMAL_TRADE_ENTRY" cheap == zone = "DISCOUNT"
               l == CASE entry -> a [] cheap -> b [] OTHER -> c
    <3> HIDE DEF a, b, c, entry, cheap
    <3>1. l \in {a, b, c}
      BY Zenon
    <3> QED BY <3>1 DEF a, b, c, entry, cheap
  <2> HIDE DEF level
  <2>4. level > 0
    BY <1>2, <2>2
  <2>3. p.level = level /\ p.strength = strength
    OBVIOUS
  <2> HIDE DEF p
  <2> QED BY <2>1, <2>3, <2>4 DEF ArraySound
<1> HIDE DEF flat, p
<1> QED BY <1>1, <1>4

\* The zones of every candle.  (calculate_pd_array)
LEMMA PdArraySound ==
  ASSUME NEW series \in Seq(Candles)
  PROVE  IsSequence(PdArray(series)) /\ \A p \in ToSet(PdArray(series)) : ArraySound(p)
<1> DEFINE m == Len(series)
           n == Max({0, m - ArrayPeriod})
           At(k) == ArrayAt(series, ArrayPeriod + k)
           ss == [k \in 1 .. n |-> At(k)]
           T == UNION {ToSet(At(k)) : k \in 1 .. n}
           all == PdArray(series)
<1>1. m \in Nat /\ ArrayPeriod \in Nat
  BY IndicatorAssumption
<1>2. n \in Nat /\ \A k \in 1 .. n : ArrayPeriod + k \in Nat /\ ArrayPeriod < ArrayPeriod + k /\ ArrayPeriod + k <= m
  <2> DEFINE rest == m - ArrayPeriod
  <2>0. rest \in Int
    BY <1>1
  <2> HIDE DEF m, rest
  <2>1. n = IF 0 >= rest THEN 0 ELSE rest
    BY <2>0, MaxOfTwo DEF rest
  <2> HIDE DEF n
  <2> QED BY <1>1, <2>0, <2>1 DEF rest
<1>3. all = FlattenSeq(ss)
  BY DEF PdArray, UpTo
<1>4. ASSUME NEW k \in 1 .. n
      PROVE  At(k) = <<>> \/ \E p : ArraySound(p) /\ At(k) = <<p>>
  BY <1>2, <1>4, ArrayAtSound
<1> HIDE DEF n, m, At, all
<1>5. ASSUME NEW k \in 1 .. n
      PROVE  At(k) \in Seq(T) /\ \A p \in ToSet(At(k)) : ArraySound(p)
  <2>1. CASE At(k) = <<>>
    BY <2>1 DEF ToSet
  <2>2. ASSUME NEW p, ArraySound(p), At(k) = <<p>>
        PROVE  At(k) \in Seq(T) /\ \A q \in ToSet(At(k)) : ArraySound(q)
    <3>1. ToSet(<<p>>) = {p}
      BY DEF ToSet
    <3>2. p \in T
      BY <1>5, <2>2, <3>1
    <3> HIDE DEF T
    <3>3. <<p>> \in Seq(T)
      BY <3>2
    <3> QED BY <2>2, <3>1, <3>3
  <2> QED BY <1>4, <2>1, <2>2
<1>6. \A p \in T : ArraySound(p)
  BY <1>5
<1> HIDE DEF T
<1>7. ss \in [1 .. n -> Seq(T)]
  BY <1>5
<1> HIDE DEF ss
<1>8. all \in Seq(T)
  BY <1>2, <1>3, <1>7, FlattenMembers
<1>9. \A p \in ToSet(all) : ArraySound(p)
  <2>1. \A i \in DOMAIN all : all[i] \in T
    BY <1>8
  <2> QED BY <1>6, <2>1 DEF ToSet
<1> QED BY <1>8, <1>9, SeqIsSequence DEF all

\* The zones that are open, and the one that is or comes first.
LEMMA ZonesSound ==
  ASSUME NEW minute \in Int
  PROVE  /\ IsSequence(ActiveZones(minute)) /\ IsSequence(NextZone(minute))
         /\ \A z \in ToSet(NextZone(minute)) : z.left >= 0
<1> DEFINE T == [type : {"ASIAN", "LONDON_OPEN", "NY_AM_OPEN", "NY_PM_CLOSE"}, from : Nat, to : Nat]
           active == {k \in DOMAIN KillZones : KillZones[k].from <= minute /\ minute < KillZones[k].to}
           coming == {k \in DOMAIN KillZones : minute < KillZones[k].from}
           later == Kept(KillZones, coming)
           zones == ActiveZones(minute) \o later
           left == zones[1].to - minute
           one == [type |-> zones[1].type, active |-> ActiveZones(minute) # <<>>, left |-> left]
<1>1. /\ KillZones \in Seq(T)
      /\ \A k \in DOMAIN KillZones : KillZones[k] \in T /\ KillZones[k].from < KillZones[k].to
  <2> DEFINE a == [type |-> "ASIAN", from |-> 135, to |-> 570]
             b == [type |-> "LONDON_OPEN", from |-> 735, to |-> 885]
             c == [type |-> "NY_AM_OPEN", from |-> 1035, to |-> 1215]
             d == [type |-> "NY_PM_CLOSE", from |-> 1305, to |-> 1395]
  <2>1. a \in T /\ b \in T /\ c \in T /\ d \in T
    OBVIOUS
  <2>2. a.from < a.to /\ b.from < b.to /\ c.from < c.to /\ d.from < d.to
    OBVIOUS
  <2>3. KillZones = <<a, b, c, d>>
    BY DEF KillZones
  <2> HIDE DEF a, b, c, d, T
  <2>4. <<a, b, c, d>> \in Seq(T) /\ DOMAIN <<a, b, c, d>> = 1 .. 4
    BY <2>1
  <2>5. KillZones[1] = a /\ KillZones[2] = b /\ KillZones[3] = c /\ KillZones[4] = d
    BY <2>3
  <2>6. 1 .. 4 = {1, 2, 3, 4}
    OBVIOUS
  <2> QED BY <2>2, <2>3, <2>4, <2>5, <2>6
<1>2. ActiveZones(minute) = Kept(KillZones, active)
  BY DEF ActiveZones
<1>12. \A z \in T : z.from \in Nat /\ z.to \in Nat
  OBVIOUS
<1> HIDE DEF T
<1>3. Kept(KillZones, active) \in Seq(T) /\ later \in Seq(T)
  BY <1>1, KeptMembers
<1>4. \A z \in ToSet(Kept(KillZones, active)) : minute < z.to
  <2> SUFFICES ASSUME NEW z \in ToSet(Kept(KillZones, active)) PROVE minute < z.to
    OBVIOUS
  <2>1. PICK k \in DOMAIN KillZones : k \in active /\ z = KillZones[k]
    BY <1>1, KeptMembers
  <2> QED BY <2>1
<1>5. \A z \in ToSet(later) : minute < z.to
  <2> SUFFICES ASSUME NEW z \in ToSet(later) PROVE minute < z.to
    OBVIOUS
  <2>1. PICK k \in DOMAIN KillZones : k \in coming /\ z = KillZones[k]
    BY <1>1, KeptMembers
  <2>2. KillZones[k] \in T /\ minute < KillZones[k].from /\ KillZones[k].from < KillZones[k].to
    BY <1>1, <2>1
  <2>3. KillZones[k].from \in Nat /\ KillZones[k].to \in Nat
    BY <1>12, <2>2
  <2> DEFINE from == KillZones[k].from to == KillZones[k].to
  <2>4. minute < from /\ from < to /\ from \in Nat /\ to \in Nat
    BY <2>2, <2>3
  <2> HIDE DEF from, to
  <2>5. minute < to
    BY <2>4
  <2> QED BY <2>1, <2>5 DEF to
<1>6. NextZone(minute) = IF zones = <<>> THEN <<>> ELSE <<one>>
  BY Zenon DEF NextZone
<1>7. zones \in Seq(T) /\ \A z \in ToSet(zones) : minute < z.to
  <2> DEFINE now == Kept(KillZones, active)
  <2>1. zones = now \o later
    BY <1>2
  <2> HIDE DEF now, later, zones
  <2>2. now \in Seq(T) /\ later \in Seq(T)
    BY <1>3 DEF now
  <2>3. now \o later \in Seq(T) /\ ToSet(now \o later) = ToSet(now) \cup ToSet(later)
    BY <2>2, ConcatMembers
  <2>4. (\A z \in ToSet(now) : minute < z.to) /\ (\A z \in ToSet(later) : minute < z.to)
    BY <1>4, <1>5 DEF now
  <2> QED BY <2>1, <2>3, <2>4
<1> HIDE DEF later, zones
<1>8. zones # <<>> => left >= 0
  <2> SUFFICES ASSUME zones # <<>> PROVE left >= 0
    OBVIOUS
  <2>1. zones[1] \in T /\ zones[1] \in ToSet(zones)
    BY <1>7 DEF ToSet
  <2>2. zones[1].to \in Nat /\ minute < zones[1].to
    BY <1>7, <1>12, <2>1
  <2> DEFINE to == zones[1].to
  <2>3. to \in Nat /\ minute < to
    BY <2>2
  <2> HIDE DEF to
  <2>4. to - minute >= 0
    BY <2>3
  <2> QED BY <2>4 DEF to
<1>9. one.left = left
  OBVIOUS
<1>10. IsSequence(ActiveZones(minute))
  <2> QED BY <1>2, <1>3, SeqIsSequence
<1> HIDE DEF left, one
<1>11. IsSequence(NextZone(minute)) /\ \A z \in ToSet(NextZone(minute)) : z.left >= 0
  <2>1. ToSet(<<>>) = {} /\ \A z \in ToSet(<<one>>) : z = one
    BY DEF ToSet
  <2> QED BY <1>6, <1>8, <1>9, <2>1, OneIsSequence
<1> QED BY <1>10, <1>11

\* What the validator asks of a level.
LevelSound(l) == l.price > 0 /\ l.type \in {"BUY_SIDE", "SELL_SIDE"}

\* Levels of liquidity have a price and a side.  (detect_liquidity_levels)
LEMMA LevelsSound ==
  ASSUME NEW series \in Seq(Candles)
  PROVE  IsSequence(LiquidityLevels(series)) /\ \A l \in ToSet(LiquidityLevels(series)) : LevelSound(l)
<1>1. DOMAIN series = 1 .. Len(series) /\ Len(series) \in Nat
  OBVIOUS
<1>2. IsSequence(LiquidityLevels(series))
  <2>1. \E T : LiquidityLevels(series) \in Seq(T)
    BY <1>1, LevelMembers
  <2> QED BY <2>1, SeqIsSequence
<1>3. ASSUME NEW l \in ToSet(LiquidityLevels(series)) PROVE LevelSound(l)
  <2>1. PICK i \in 1 .. Len(series), kind \in {"HIGH", "LOW"} : l = LevelOf(series, i, kind)
    BY <1>1, LevelMembers
  <2> DEFINE c == series[i] low == c.low high == c.high
             type == IF kind = "HIGH" THEN "BUY_SIDE" ELSE "SELL_SIDE"
             price == EdgeOf(kind, c) swept == Swept(series, kind, i)
  <2>2. c \in Candles
    OBVIOUS
  <2>3. low \in Nat /\ high \in Nat /\ low > 0 /\ low <= high
    BY <2>2, CandleFacts
  <2>4. price = high \/ price = low
    BY DEF EdgeOf
  <2>5. l = [type |-> type, at |-> i, price |-> price, swept |-> swept]
    BY <2>1 DEF LevelOf
  <2>6. type \in {"BUY_SIDE", "SELL_SIDE"}
    OBVIOUS
  <2> HIDE DEF low, high, price, type, swept
  <2>7. price > 0
    BY <2>3, <2>4
  <2>8. l.type = type /\ l.price = price
    BY <2>5
  <2> QED BY <2>6, <2>7, <2>8 DEF LevelSound
<1> QED BY <1>2, <1>3

\* What the ICT engine delivers is valid and can be counted.
IctDelivered(s) ==
  /\ IsSequence(s.array) /\ IsSequence(s.zones) /\ IsSequence(s.next) /\ IsSequence(s.levels) /\ IsSequence(s.context)
  /\ IctValid(s)

\* The contexts that classify_liquidity knows.
Contexts == {"BUY_SIDE", "SELL_SIDE", "DOUBLE_DISTRIBUTION"}

\* Sound parts make a valid delivery.  (validate_ict_signals)
LEMMA IctParts ==
  ASSUME NEW s, NEW context \in Contexts, s.context \in {<<>>, <<context>>},
         IsSequence(s.array), \A p \in ToSet(s.array) : ArraySound(p),
         IsSequence(s.zones), IsSequence(s.next), \A z \in ToSet(s.next) : z.left >= 0,
         IsSequence(s.levels), \A l \in ToSet(s.levels) : LevelSound(l)
  PROVE  IctDelivered(s)
<1> DEFINE said == s.context
<1>1. IsSequence(said)
  BY OneIsSequence
<1>2. ToSet(said) \subseteq Contexts
  <2>1. said \in {<<>>, <<context>>}
    OBVIOUS
  <2> HIDE DEF said
  <2> QED BY <2>1 DEF ToSet
<1>3. ToSet(s.context) \subseteq {"BUY_SIDE", "SELL_SIDE", "DOUBLE_DISTRIBUTION"}
  BY <1>2, Zenon DEF Contexts
<1>4. IctValid(s)
  BY <1>3, Zenon DEF IctValid, ArraySound, LevelSound
<1> QED BY <1>1, <1>4, Zenon DEF IctDelivered

\* The context of any levels has a name.
LEMMA ContextNamed == ASSUME NEW levels PROVE LiquidityContext(levels) \in Contexts
BY DEF LiquidityContext, Contexts

\* What the ICT engine finds in a series is valid, at any minute.
LEMMA IctRunDelivers ==
  ASSUME NEW series \in Seq(Candles), series # <<>>, NEW minute \in Int
  PROVE  IctDelivered(IctRun(series, minute))
<1> DEFINE levels == LiquidityLevels(series) array == PdArray(series) zones == ActiveZones(minute)
           next == IF ActiveZones(minute) = <<>> THEN NextZone(minute) ELSE <<>>
           context == LiquidityContext(levels)
           found == IctSignals(series, minute)
           s == IctRun(series, minute)
           none == <<>>
<1>1. found = [array |-> array, zones |-> zones, next |-> next, levels |-> levels, context |-> <<context>>]
  BY Zenon DEF IctSignals
<1>2. s = IF Stamped THEN found ELSE [found EXCEPT !.array = none, !.levels = none, !.context = <<"BUY_SIDE">>]
  BY Zenon DEF IctRun
<1>3. IsSequence(none) /\ ToSet(none) = {} /\ "BUY_SIDE" \in Contexts
  BY OneIsSequence DEF ToSet, Contexts
<1>4. IsSequence(array) /\ \A p \in ToSet(array) : ArraySound(p)
  BY PdArraySound
<1>5. IsSequence(zones)
  BY ZonesSound
<1>6. IsSequence(next) /\ \A z \in ToSet(next) : z.left >= 0
  <2>1. IsSequence(NextZone(minute)) /\ \A z \in ToSet(NextZone(minute)) : z.left >= 0
    BY ZonesSound
  <2>2. next \in {<<>>, NextZone(minute)}
    OBVIOUS
  <2> HIDE DEF next
  <2> QED BY <1>3, <2>1, <2>2
<1>7. IsSequence(levels) /\ \A l \in ToSet(levels) : LevelSound(l)
  BY LevelsSound
<1>8. context \in Contexts
  BY ContextNamed
<1> HIDE DEF levels, array, zones, next, context, none, s
<1>9. CASE Stamped
  <2>1. s = [array |-> array, zones |-> zones, next |-> next, levels |-> levels, context |-> <<context>>]
    BY <1>1, <1>2, <1>9
  <2>2. s.array = array /\ s.zones = zones /\ s.next = next /\ s.levels = levels /\ s.context = <<context>>
    BY <2>1
  <2>3. IctDelivered(s)
    BY <1>4, <1>5, <1>6, <1>7, <1>8, <2>2, IctParts
  <2> QED BY <2>3 DEF s
<1>10. CASE ~Stamped
  <2> DEFINE f == [array |-> array, zones |-> zones, next |-> next, levels |-> levels, context |-> <<context>>]
  <2>1. s = [f EXCEPT !.array = none, !.levels = none, !.context = <<"BUY_SIDE">>]
    BY <1>1, <1>2, <1>10
  <2>2. s.array = none /\ s.zones = zones /\ s.next = next /\ s.levels = none /\ s.context = <<"BUY_SIDE">>
    BY <2>1
  <2>3. IctDelivered(s)
    BY <1>3, <1>5, <1>6, <2>2, IctParts
  <2> QED BY <2>3 DEF s
<1> QED BY <1>9, <1>10

\* An engine that delivers nothing delivers nothing wrong.
LEMMA NoIctDelivered == IctDelivered(NoSignals.ICT)
<1> DEFINE s == NoSignals.ICT
<1>1. s.array = <<>> /\ s.zones = <<>> /\ s.next = <<>> /\ s.levels = <<>> /\ s.context = <<>>
  BY DEF NoSignals
<1> HIDE DEF s
<1>2. IsSequence(<<>>) /\ ToSet(<<>>) = {} /\ "BUY_SIDE" \in Contexts
  BY OneIsSequence DEF ToSet, Contexts
<1>3. IctDelivered(s)
  BY <1>1, <1>2, IctParts
<1> QED BY <1>3 DEF s

-----------------------------------------------------------------------------
(* What the technical engine delivers. *)

\* A part of two is a share of them.
LEMMA ShareOf ==
  ASSUME NEW a \in Nat, NEW d \in Nat, d > 0, NEW m \in Nat, a <= m * d
  PROVE  a \div d \in 0 .. m
<1> DEFINE q == a \div d
<1>1. q \in Int /\ d * q <= a /\ a < d * (q + 1)
  OBVIOUS
<1> HIDE DEF q
<1>2. q >= 0
  <2> SUFFICES ASSUME q < 0 PROVE FALSE
    BY <1>1
  <2>1. q + 1 <= 0
    BY <1>1
  <2>2. d * (q + 1) <= 0
    BY <1>1, <2>1
  <2> QED BY <1>1, <2>2
<1>3. q <= m
  <2> SUFFICES ASSUME q >= m + 1 PROVE FALSE
    BY <1>1
  <2>1. d * q >= d * (m + 1)
    BY <1>1
  <2>2. d * (m + 1) = m * d + d
    OBVIOUS
  <2> QED BY <1>1, <2>1, <2>2
<1> QED BY <1>1, <1>2, <1>3 DEF q

\* Wilder's average of natural numbers is one.
LEMMA WilderIsNat ==
  ASSUME NEW n \in Nat, NEW s \in [1 .. n -> Nat], NEW period \in Nat, 1 <= period, period <= n
  PROVE  Wilder(s, period).value \in Nat
<1> DEFINE S == [value : Nat, scale : Nat]
           More(avg, i) == [value |-> avg.value * (period - 1) + s[period + i] * avg.scale, scale |-> avg.scale * period]
           m == n - period
           start == [value |-> Total(First(s, period)), scale |-> period]
           Averages(f) == f = [i \in 0 .. m |-> IF i = 0 THEN start ELSE More(f[i - 1], i)]
           average == CHOOSE f : Averages(f)
<1>1. Len(s) = n
  OBVIOUS
<1>2. Wilder(s, period) = average[m]
  BY <1>1 DEF Wilder
<1>3. m \in Nat /\ \A i \in 1 .. m : s[period + i] \in Nat
  OBVIOUS
<1>4. start \in S
  <2>1. First(s, period) \in [1 .. period -> Nat]
    <3> DEFINE f == SubSeq(s, 1, period)
    <3>1. s \in Seq(Nat)
      OBVIOUS
    <3>2. f \in Seq(Nat) /\ Len(f) = period
      BY <1>1, <3>1
    <3> HIDE DEF f
    <3>3. f \in [1 .. period -> Nat]
      BY <3>2
    <3> QED BY <3>3 DEF First, f
  <2>2. Total(First(s, period)) \in Nat
    BY <2>1, TotalIsNat
  <2> DEFINE total == Total(First(s, period))
  <2> HIDE DEF total
  <2>3. [value |-> total, scale |-> period] \in S
    BY <2>2 DEF total
  <2> QED BY <2>3 DEF total
<1>5. ASSUME NEW avg \in S, NEW i \in 1 .. m PROVE More(avg, i) \in S
  <2> DEFINE v == avg.value c == avg.scale x == s[period + i] p == period - 1
  <2>4. v \in Nat /\ c \in Nat
    OBVIOUS
  <2>5. x \in Nat /\ p \in Nat
    <3> HIDE DEF m
    <3> QED BY <1>3
  <2>1. v \in Nat /\ c \in Nat /\ x \in Nat /\ p \in Nat
    BY <2>4, <2>5, Zenon
  <2> HIDE DEF v, c, x, p
  <2>2. v * p \in Nat /\ x * c \in Nat /\ c * period \in Nat
    BY <2>1
  <2> DEFINE a == v * p b == x * c d == c * period
  <2> HIDE DEF a, b, d
  <2>3. [value |-> a + b, scale |-> d] \in S
    BY <2>2 DEF a, b, d
  <2> QED BY <2>3 DEF a, b, d, v, c, x, p
<1> HIDE DEF More, S, start, m
<1>6. Averages(average)
  <2> DEFINE step == [i \in Nat |-> [avg \in S |-> IF i \in 1 .. m THEN More(avg, i) ELSE avg]]
  <2>1. Makes(step, S)
    BY <1>5 DEF Makes
  <2> HIDE DEF step
  <2>2. PICK f : MadeBy(f, start, step, S, m)
    BY <1>3, <1>4, <2>1, Recursion
  <2>3. f \in [0 .. m -> S] /\ f[0] = start /\ \A i \in 1 .. m : f[i] = step[i][f[i - 1]]
    BY <2>2 DEF MadeBy
  <2>4. ASSUME NEW i \in 1 .. m PROVE f[i] = More(f[i - 1], i)
    <3>1. f[i - 1] \in S /\ i \in Nat
      BY <1>3, <2>3
    <3>2. step[i][f[i - 1]] = More(f[i - 1], i)
      BY <3>1 DEF step
    <3> QED BY <2>3, <3>2
  <2> DEFINE h == [i \in 0 .. m |-> IF i = 0 THEN start ELSE More(f[i - 1], i)]
  <2>5. \A i \in 0 .. m : f[i] = h[i]
    BY <1>3, <2>3, <2>4
  <2>6. f = [i \in 0 .. m |-> f[i]] /\ h = [i \in 0 .. m |-> h[i]]
    BY <2>3
  <2>7. f = h
    <3> HIDE DEF h
    <3> QED BY <2>5, <2>6
  <2>8. Averages(f)
    BY <2>7
  <2> QED BY <2>8
<1> HIDE DEF average
<1>7. average[0] = start /\ \A i \in 1 .. m : average[i] = More(average[i - 1], i)
  BY <1>3, <1>6
<1> DEFINE P == {k \in Nat : k <= m => average[k] \in S}
<1>8. 0 \in P
  BY <1>4, <1>7
<1>9. ASSUME NEW k \in P PROVE k + 1 \in P
  <2> SUFFICES ASSUME k + 1 <= m PROVE average[k + 1] \in S
    OBVIOUS
  <2>1. k + 1 \in 1 .. m /\ k + 1 - 1 = k /\ average[k] \in S
    BY <1>3, <1>9
  <2>2. average[k + 1] = More(average[k], k + 1)
    BY <1>7, <2>1
  <2> QED BY <1>5, <2>1, <2>2
<1>10. P \subseteq Nat
  OBVIOUS
<1>11. P = Nat
  <2> HIDE DEF P
  <2> QED BY <1>8, <1>9, <1>10, Induction
<1>12. average[m] \in S
  BY <1>3, <1>11
<1>13. average[m].value \in Nat
  BY <1>12 DEF S
<1> QED BY <1>2, <1>13

\* The places up to a number, which may be negative.
LEMMA UpToIs == ASSUME NEW n \in Int PROVE UpTo(n) = 1 .. n
<1> DEFINE m == Max({0, n})
<1>1. m = IF 0 >= n THEN 0 ELSE n
  BY MaxOfTwo
<1> HIDE DEF m
<1>2. 1 .. m = 1 .. n
  BY <1>1
<1> QED BY <1>2 DEF UpTo, m

\* The RSI is in per cent.  (_compute_rsi)
LEMMA RsiRange ==
  ASSUME NEW series \in Seq(Candles), RsiPeriod < Len(series)
  PROVE  Rsi(series) \in 0 .. 100
<1> DEFINE closes == Closes(series)
           n == Len(series) - 1
           changes == Changes(closes)
           up == [i \in DOMAIN changes |-> Max({changes[i], 0})]
           down == [i \in DOMAIN changes |-> Max({0 - changes[i], 0})]
           gain == Wilder(up, RsiPeriod).value
           loss == Wilder(down, RsiPeriod).value
<1>1. Len(series) \in Nat /\ n \in Nat /\ n >= 1 /\ RsiPeriod \in Nat /\ 1 <= RsiPeriod /\ RsiPeriod <= n
  BY IndicatorAssumption
<1>2. /\ DOMAIN closes = 1 .. n + 1 /\ Len(closes) = n + 1
      /\ \A i \in 1 .. n + 1 : closes[i] \in Nat
  <2>1. closes = [i \in 1 .. n + 1 |-> series[i].close]
    BY <1>1 DEF Closes
  <2>2. \A i \in 1 .. n + 1 : series[i].close \in Nat
    <3>1. \A i \in 1 .. n + 1 : series[i] \in Candles
      BY <1>1
    <3> QED BY <3>1, CandleFacts
  <2> HIDE DEF closes, n
  <2>3. Len(closes) = n + 1
    BY <1>1, <2>1
  <2> QED BY <2>1, <2>2, <2>3
<1> HIDE DEF closes, n
<1>3. DOMAIN changes = 1 .. n /\ \A i \in 1 .. n : changes[i] \in Int
  <2>2. changes = [i \in UpTo(Len(closes) - 1) |-> closes[i + 1] - closes[i]]
    BY DEF Changes
  <2>1. Len(closes) - 1 = n
    BY <1>1, <1>2
  <2>3. UpTo(Len(closes) - 1) = 1 .. n
    BY <1>1, <2>1, UpToIs
  <2>4. \A i \in 1 .. n : closes[i + 1] - closes[i] \in Int
    BY <1>1, <1>2
  <2> HIDE DEF changes
  <2> QED BY <2>2, <2>3, <2>4
<1> HIDE DEF changes
<1>4. up \in [1 .. n -> Nat] /\ down \in [1 .. n -> Nat]
  <2>1. ASSUME NEW x \in Int PROVE Max({x, 0}) \in Nat
    <3>1. Max({x, 0}) = IF x >= 0 THEN x ELSE 0
      BY MaxOfTwo
    <3> DEFINE y == Max({x, 0})
    <3> HIDE DEF y
    <3>2. y \in Nat
      BY <3>1 DEF y
    <3> QED BY <3>2 DEF y
  <2>2. \A i \in 1 .. n : Max({changes[i], 0}) \in Nat
    BY <1>3, <2>1
  <2>3. \A i \in 1 .. n : Max({0 - changes[i], 0}) \in Nat
    <3> SUFFICES ASSUME NEW i \in 1 .. n PROVE Max({0 - changes[i], 0}) \in Nat
      OBVIOUS
    <3> DEFINE x == 0 - changes[i]
    <3>1. x \in Int
      BY <1>3
    <3> HIDE DEF x
    <3>2. Max({x, 0}) \in Nat
      BY <2>1, <3>1
    <3> QED BY <3>2 DEF x
  <2> QED BY <1>3, <2>2, <2>3
<1> HIDE DEF up, down
<1>5. gain \in Nat /\ loss \in Nat
  BY <1>1, <1>4, WilderIsNat
<1>6. Rsi(series) = IF loss = 0 THEN 100 ELSE IF gain = 0 THEN 0 ELSE (100 * gain) \div (gain + loss)
  BY Zenon DEF Rsi, closes, changes, up, down
<1> HIDE DEF gain, loss
<1>7. CASE loss = 0
  BY <1>6, <1>7
<1>8. CASE loss # 0
  <2> DEFINE a == 100 * gain d == gain + loss q == a \div d
  <2>1. a \in Nat /\ d \in Nat /\ d > 0 /\ a <= 100 * d /\ 100 \in Nat
    BY <1>5, <1>8
  <2> HIDE DEF a, d
  <2>2. q \in 0 .. 100
    BY <2>1, ShareOf
  <2> HIDE DEF q
  <2>3. Rsi(series) = IF gain = 0 THEN 0 ELSE q
    BY <1>6, <1>8 DEF q, a, d
  <2> QED BY <2>2, <2>3
<1> QED BY <1>7, <1>8

\* The largest of three is one of them and no smaller than the others.
LEMMA LargestOfThree ==
  ASSUME NEW a \in Int, NEW b \in Int, NEW c \in Int
  PROVE  Max({a, b, c}) \in Int /\ Max({a, b, c}) >= a
<1>1. \E x \in {a, b, c} : \A y \in {a, b, c} : x >= y
  <2> DEFINE ab == IF a >= b THEN a ELSE b
             abc == IF ab >= c THEN ab ELSE c
  <2>1. abc \in {a, b, c} /\ abc >= a /\ abc >= b /\ abc >= c
    OBVIOUS
  <2> QED BY <2>1
<1>2. Max({a, b, c}) \in {a, b, c} /\ \A y \in {a, b, c} : Max({a, b, c}) >= y
  BY <1>1 DEF Max
<1> QED BY <1>2

\* The average true range is not negative.  (calculate_atr)
LEMMA AtrIsNat ==
  ASSUME NEW series \in Seq(Candles), AtrPeriod < Len(series)
  PROVE  Atr(series).value \in Nat
<1> DEFINE n == Len(series) - 1
           ranges == [i \in UpTo(n) |-> TrueRange(series[i + 1], series[i])]
<1>1. Len(series) \in Nat /\ n \in Nat /\ AtrPeriod \in Nat /\ 1 <= AtrPeriod /\ AtrPeriod <= n
  BY IndicatorAssumption
<1>2. \A i \in 1 .. n : series[i] \in Candles /\ series[i + 1] \in Candles
  BY <1>1
<1>3. Atr(series) = Wilder(ranges, AtrPeriod)
  BY DEF Atr
<1> HIDE DEF n
<1>4. ASSUME NEW c \in Candles, NEW before \in Candles PROVE TrueRange(c, before) \in Nat
  <2> DEFINE high == c.high low == c.low close == before.close
             whole == high - low above == Absolute(high - close) below == Absolute(low - close)
             range == Max({whole, above, below})
  <2>1. high \in Nat /\ low \in Nat /\ close \in Nat /\ low <= high
    BY CandleFacts
  <2>2. TrueRange(c, before) = range
    BY DEF TrueRange
  <2> HIDE DEF high, low, close
  <2>3. whole \in Nat /\ above \in Int /\ below \in Int
    BY <2>1 DEF Absolute
  <2> HIDE DEF whole, above, below
  <2>4. range \in Int /\ range >= whole
    BY <2>3, LargestOfThree
  <2> HIDE DEF range
  <2> QED BY <2>2, <2>3, <2>4
<1>5. UpTo(n) = 1 .. n
  BY <1>1, UpToIs
<1>6. ranges \in [1 .. n -> Nat]
  BY <1>2, <1>4, <1>5
<1> HIDE DEF ranges
<1>7. Wilder(ranges, AtrPeriod).value \in Nat
  BY <1>1, <1>6, WilderIsNat
<1> QED BY <1>3, <1>7

\* What the technical engine delivers is valid and can be counted.
TechnicalDelivered(s) ==
  /\ IsSequence(s.rsi) /\ IsSequence(s.fast) /\ IsSequence(s.slow) /\ IsSequence(s.cross)
  /\ IsSequence(s.atr) /\ IsSequence(s.profile)
  /\ TechnicalValid(s)

\* Sound parts make a valid delivery.  (validate_technical_signals)
LEMMA TechnicalParts ==
  ASSUME NEW s, IsSequence(s.rsi), \A rsi \in ToSet(s.rsi) : rsi \in 0 .. 100,
         IsSequence(s.fast), IsSequence(s.slow), IsSequence(s.cross),
         IsSequence(s.atr), \A atr \in ToSet(s.atr) : atr.value \in Nat,
         IsSequence(s.profile), \A p \in ToSet(s.profile) : ProfileSound(p)
  PROVE  TechnicalDelivered(s)
<1> DEFINE atrs == ToSet(s.atr)
<1>1. \A atr \in atrs : atr.value \in Nat
  OBVIOUS
<1> HIDE DEF atrs
<1>2. \A atr \in atrs : atr.value >= 0
  BY <1>1
<1>3. TechnicalValid(s)
  BY <1>2, Zenon DEF TechnicalValid, ProfileSound, atrs
<1> QED BY <1>3, Zenon DEF TechnicalDelivered

\* What the technical engine finds in a series is valid.
LEMMA TechnicalDelivers ==
  ASSUME NEW series \in Seq(Candles)
  PROVE  TechnicalDelivered(TechnicalSignals(series))
<1> DEFINE n == Len(series)
           fast == RunningSum(Closes(series), FastPeriod) slow == RunningSum(Closes(series), SlowPeriod)
           when(enough, value) == IF enough THEN <<value>> ELSE <<>>
           rsi == [k \in UpTo(n - RsiPeriod) |-> Rsi(First(series, RsiPeriod + k))]
           fasts == when(n >= FastPeriod, fast) slows == when(n >= SlowPeriod, slow)
           cross == when(n >= SlowPeriod, MaCross(fast, slow))
           atr == when(n > AtrPeriod, Atr(series))
           profile == IF ProfileFails(series) \/ \E p \in ToSet(VolumeProfile(series)) : p.total = 0
                      THEN <<>> ELSE VolumeProfile(series)
           s == TechnicalSignals(series)
<1>1. s = [rsi |-> rsi, fast |-> fasts, slow |-> slows, cross |-> cross, atr |-> atr, profile |-> profile]
  BY Zenon DEF TechnicalSignals
<1>2. n \in Nat /\ RsiPeriod \in Nat /\ AtrPeriod \in Nat
  BY IndicatorAssumption
<1>3. IsSequence(<<>>) /\ ToSet(<<>>) = {} /\ \A x : IsSequence(<<x>>) /\ ToSet(<<x>>) = {x}
  BY OneIsSequence DEF ToSet
<1>4. IsSequence(rsi) /\ \A x \in ToSet(rsi) : x \in 0 .. 100
  <2> DEFINE m == n - RsiPeriod
             u == Max({0, m})
  <2>1. m \in Int
    BY <1>2
  <2>2. ASSUME NEW k \in 1 .. m PROVE Rsi(First(series, RsiPeriod + k)) \in 0 .. 100
    <3> DEFINE end == RsiPeriod + k
               part == SubSeq(series, 1, end)
    <3>1. end \in Nat /\ end <= n /\ RsiPeriod < end
      BY <1>2, <2>2
    <3> HIDE DEF end
    <3>2. part \in Seq(Candles) /\ Len(part) = end
      BY <1>2, <3>1
    <3> HIDE DEF part
    <3>3. Rsi(part) \in 0 .. 100
      BY <3>1, <3>2, RsiRange
    <3> QED BY <3>3 DEF First, part, end
  <2> HIDE DEF m
  <2>3. u \in Nat /\ UpTo(m) = 1 .. u /\ UpTo(m) = 1 .. m
    <3>1. u = IF 0 >= m THEN 0 ELSE m
      BY <2>1, MaxOfTwo
    <3> HIDE DEF u
    <3>2. u \in Nat
      BY <2>1, <3>1
    <3>3. UpTo(m) = 1 .. u
      BY DEF UpTo, u
    <3>4. UpTo(m) = 1 .. m
      BY <2>1, UpToIs
    <3> QED BY <3>2, <3>3, <3>4
  <2> HIDE DEF u
  <2>4. DOMAIN rsi = 1 .. u /\ rsi = [k \in 1 .. u |-> rsi[k]] /\ \A k \in 1 .. u : rsi[k] \in 0 .. 100
    <3>1. rsi = [k \in 1 .. u |-> Rsi(First(series, RsiPeriod + k))]
      BY <2>3 DEF m
    <3> HIDE DEF rsi
    <3> QED BY <2>2, <2>3, <3>1
  <2> HIDE DEF rsi
  <2>5. IsSequence(rsi)
    BY <2>3, <2>4, MadeIsSequence
  <2> QED BY <2>4, <2>5 DEF ToSet
<1>5. IsSequence(fasts) /\ IsSequence(slows) /\ IsSequence(cross) /\ IsSequence(atr)
  BY <1>3
<1>6. \A x \in ToSet(atr) : x.value \in Nat
  <2>1. n > AtrPeriod => Atr(series).value \in Nat
    BY <1>2, AtrIsNat
  <2> DEFINE many == n > AtrPeriod value == Atr(series)
  <2>2. many => value.value \in Nat
    BY <2>1
  <2> HIDE DEF many, value
  <2>3. \A x \in ToSet(IF many THEN <<value>> ELSE <<>>) : x.value \in Nat
    BY <1>3, <2>2
  <2> QED BY <2>3 DEF many, value
<1>7. IsSequence(VolumeProfile(series))
  <2> DEFINE v == VolumeProfile(series)
  <2>1. v = <<>> \/ \E x : v = <<x>>
    BY DEF VolumeProfile
  <2> HIDE DEF v
  <2>2. IsSequence(v)
    BY <1>3, <2>1
  <2> QED BY <2>2 DEF v
<1>8. IsSequence(profile) /\ \A p \in ToSet(profile) : ProfileSound(p)
  <2>1. \A p \in ToSet(VolumeProfile(series)) : ProfileSound(p)
    BY ProfilePromise
  <2>2. profile \in {<<>>, VolumeProfile(series)}
    BY Zenon
  <2> HIDE DEF profile
  <2> QED BY <1>3, <1>7, <2>1, <2>2
<1> HIDE DEF rsi, fasts, slows, cross, atr, profile, s
<1>9. /\ s.rsi = rsi /\ s.fast = fasts /\ s.slow = slows /\ s.cross = cross
      /\ s.atr = atr /\ s.profile = profile
  BY <1>1
<1>10. TechnicalDelivered(s)
  BY <1>4, <1>5, <1>6, <1>8, <1>9, TechnicalParts
<1> QED BY <1>10 DEF s

\* An engine that delivers nothing delivers nothing wrong.
LEMMA NoTechnicalDelivered == TechnicalDelivered(NoSignals.TECHNICAL)
<1> DEFINE s == NoSignals.TECHNICAL
<1>1. s.rsi = <<>> /\ s.fast = <<>> /\ s.slow = <<>> /\ s.cross = <<>> /\ s.atr = <<>> /\ s.profile = <<>>
  BY DEF NoSignals
<1> HIDE DEF s
<1>2. IsSequence(<<>>) /\ ToSet(<<>>) = {}
  BY OneIsSequence DEF ToSet
<1>3. TechnicalDelivered(s)
  BY <1>1, <1>2, TechnicalParts
<1> QED BY <1>3 DEF s

-----------------------------------------------------------------------------
(* What the options engine delivers. *)

\* What the options engine delivers can be counted.
OptionsDelivered(s) ==
  /\ IsSequence(s.changes) /\ IsSequence(s.summary) /\ IsSequence(s.pcr)
  /\ IsSequence(s.iv) /\ IsSequence(s.walls) /\ IsSequence(s.pain)

\* A sequence has a length, and what is made of it at the same places is one as long.
LEMMA MadeOfSequence ==
  ASSUME NEW t, IsSequence(t), NEW s, DOMAIN s = DOMAIN t, s = [k \in DOMAIN t |-> s[k]]
  PROVE  IsSequence(s) /\ Len(s) = Len(t) /\ Len(t) \in Nat
<1> DEFINE n == Len(t)
<1>1. DOMAIN t = 1 .. n /\ n \in Nat
  BY DEF IsSequence
<1> HIDE DEF n
<1>2. DOMAIN s = 1 .. n /\ s = [k \in 1 .. n |-> s[k]]
  BY <1>1
<1>3. IsSequence(s) /\ Len(s) = n
  BY <1>1, <1>2, MadeIsSequence
<1> QED BY <1>1, <1>3 DEF n

\* Sorting keeps a sequence one, and as long.
LEMMA ByKeyIsSequence ==
  ASSUME NEW t, IsSequence(t), NEW key
  PROVE  IsSequence(ByKey(t, key)) /\ Len(ByKey(t, key)) = Len(t)
<1> DEFINE s == ByKey(t, key)
<1>1. DOMAIN s = DOMAIN t /\ s = [k \in DOMAIN t |-> s[k]]
  BY DEF ByKey
<1> HIDE DEF s
<1>2. IsSequence(s) /\ Len(s) = Len(t)
  BY <1>1, MadeOfSequence
<1> QED BY <1>2 DEF s

\* What is kept of a sequence is one.
LEMMA KeptIsSequence ==
  ASSUME NEW t, IsSequence(t), NEW places
  PROVE  IsSequence(Kept(t, places))
<1> DEFINE T == ToSet(t)
<1>1. t \in Seq(T)
  BY DEF IsSequence
<1> HIDE DEF T
<1>2. Kept(t, places) \in Seq(T)
  BY <1>1, KeptMembers
<1> QED BY <1>2, SeqIsSequence

\* Interest by strike is a sequence.
LEMMA ByStrikeIsSequence ==
  ASSUME NEW quotes, IsSequence(quotes)
  PROVE  IsSequence(ByInterest(ByStrike(quotes))) /\ Len(ByInterest(ByStrike(quotes))) = Len(ByStrike(quotes))
         /\ IsSequence(ByStrike(quotes))
<1> DEFINE s == ByStrike(quotes)
           first == Kept(quotes, {k \in DOMAIN quotes : \A j \in 1 .. k - 1 : quotes[j].strike # quotes[k].strike})
<1>1. DOMAIN s = DOMAIN first /\ s = [k \in DOMAIN first |-> s[k]]
  BY Zenon DEF ByStrike
<1>2. IsSequence(first)
  BY KeptIsSequence
<1> HIDE DEF s, first
<1>3. IsSequence(s)
  BY <1>1, <1>2, MadeOfSequence
<1> DEFINE b == ByInterest(s)
<1>4. IsSequence(b) /\ Len(b) = Len(s)
  BY <1>3, ByKeyIsSequence DEF ByInterest
<1> QED BY <1>3, <1>4 DEF s

\* The walls of a side are a sequence, and so are those of both.
LEMMA WallsIsSequence ==
  ASSUME NEW chain, IsSequence(chain)
  PROVE  IsSequence(Walls(chain))
<1> DEFINE levels(kind) == ByInterest(ByStrike(OfOption(chain, kind)))
           top(kind) == First(levels(kind), Min({TopWalls, Len(ByStrike(OfOption(chain, kind)))}))
           wall(kind, type) == [k \in DOMAIN top(kind) |-> [type |-> type, strike |-> top(kind)[k].strike, oi |-> top(kind)[k].oi]]
<1>1. ASSUME NEW kind, NEW type PROVE IsSequence(wall(kind, type))
  <2> DEFINE by == ByStrike(OfOption(chain, kind)) s == ByInterest(by) m == Len(by)
             end == Min({TopWalls, m}) part == SubSeq(s, 1, end) w == wall(kind, type)
  <2>1. IsSequence(OfOption(chain, kind))
    BY KeptIsSequence DEF OfOption
  <2>2. IsSequence(s) /\ Len(s) = m /\ IsSequence(by)
    BY <2>1, ByStrikeIsSequence
  <2>3. top(kind) = part
    BY DEF First
  <2>4. DOMAIN w = DOMAIN part /\ w = [k \in DOMAIN part |-> w[k]]
    BY <2>3, Zenon
  <2> HIDE DEF s, by, w
  <2>5. m \in Nat
    BY <2>2 DEF IsSequence
  <2> HIDE DEF m
  <2>6. end = IF TopWalls <= m THEN TopWalls ELSE m
    <3>1. TopWalls \in Int /\ m \in Int
      BY <2>5, MetricsAssumption
    <3> QED BY <3>1, MaxOfTwo
  <2> HIDE DEF end
  <2>7. end \in Nat /\ end <= m
    BY <2>5, <2>6, MetricsAssumption
  <2> DEFINE T == ToSet(s)
  <2>8. s \in Seq(T)
    BY <2>2 DEF IsSequence
  <2> HIDE DEF T
  <2>9. part \in Seq(T)
    BY <2>2, <2>7, <2>8
  <2> HIDE DEF part
  <2>10. IsSequence(part)
    BY <2>9, SeqIsSequence
  <2>11. IsSequence(w)
    BY <2>4, <2>10, MadeOfSequence
  <2> QED BY <2>11 DEF w
<1> DEFINE calls == wall("CE", "CALL_WALL") puts == wall("PE", "PUT_WALL") both == calls \o puts
<1>2. Walls(chain) = ByInterest(both)
  BY Zenon DEF Walls
<1>3. IsSequence(calls) /\ IsSequence(puts)
  BY <1>1
<1> HIDE DEF calls, puts
<1>4. IsSequence(both)
  <2> DEFINE S == ToSet(calls) T == ToSet(puts) U == S \cup T
  <2>1. calls \in Seq(S) /\ puts \in Seq(T)
    BY <1>3 DEF IsSequence
  <2> HIDE DEF S, T
  <2>2. calls \in Seq(U) /\ puts \in Seq(U)
    BY <2>1
  <2> HIDE DEF U
  <2>3. both \in Seq(U)
    BY <2>2
  <2> HIDE DEF both
  <2> QED BY <2>3, SeqIsSequence
<1> HIDE DEF both
<1> QED BY <1>2, <1>4, ByKeyIsSequence DEF ByInterest

\* What the options engine finds in a chain can be counted.
LEMMA OptionsDeliver ==
  ASSUME NEW chain, IsSequence(chain)
  PROVE  OptionsDelivered(OptionsSignals(chain))
<1> DEFINE changes == OiChanges(chain) walls == Walls(chain)
           counted == OiSummary(changes) pcr == Pcr(chain) iv == Iv(chain) pain == MaxPain(chain)
           s == OptionsSignals(chain)
<1>1. IsSequence(<<>>) /\ \A x : IsSequence(<<x>>)
  BY OneIsSequence
<1>2. CASE chain = <<>>
  <2>1. s.changes = <<>> /\ s.summary = <<>> /\ s.pcr = <<>> /\ s.iv = <<>> /\ s.walls = <<>> /\ s.pain = <<>>
    BY <1>2 DEF OptionsSignals
  <2> HIDE DEF s
  <2>2. OptionsDelivered(s)
    BY <1>1, <2>1, Zenon DEF OptionsDelivered
  <2> QED BY <2>2 DEF s
<1>3. CASE chain # <<>>
  <2>1. s = [changes |-> changes, summary |-> <<counted>>, pcr |-> <<pcr>>, iv |-> <<iv>>,
             walls |-> walls, pain |-> <<pain>>]
    BY <1>3, Zenon DEF OptionsSignals
  <2>2. IsSequence(changes)
    <3> DEFINE quotes == Kept(chain, {k \in DOMAIN chain :
                    /\ chain[k].oi > 0 /\ chain[k].oi - chain[k].change > 0
                    /\ 100 * Absolute(chain[k].change) >= MinChange * (chain[k].oi - chain[k].change)})
               change(q) == [kind |-> q.kind, strike |-> q.strike, pct |-> ChangePct(q),
                             direction |-> IF q.change > 0 THEN "BUYING" ELSE "UNWINDING"]
               said == [k \in DOMAIN quotes |-> change(quotes[k])]
               key == [k \in DOMAIN quotes |-> ChangePct(quotes[k])]
    <3>1. changes = ByKey(said, key)
      BY Zenon DEF OiChanges
    <3>2. IsSequence(quotes)
      BY KeptIsSequence
    <3> HIDE DEF quotes, change, key
    <3>3. DOMAIN said = DOMAIN quotes /\ said = [k \in DOMAIN quotes |-> said[k]]
      OBVIOUS
    <3> HIDE DEF said
    <3>4. IsSequence(said)
      BY <3>2, <3>3, MadeOfSequence
    <3>5. IsSequence(ByKey(said, key))
      BY <3>4, ByKeyIsSequence
    <3> QED BY <3>1, <3>5
  <2>3. IsSequence(walls)
    BY WallsIsSequence
  <2> HIDE DEF s, changes, walls, counted, pcr, iv, pain
  <2>4. /\ s.changes = changes /\ s.summary = <<counted>> /\ s.pcr = <<pcr>> /\ s.iv = <<iv>>
        /\ s.walls = walls /\ s.pain = <<pain>>
    BY <2>1
  <2>5. OptionsDelivered(s)
    BY <1>1, <2>2, <2>3, <2>4, Zenon DEF OptionsDelivered
  <2> QED BY <2>5 DEF s
<1> QED BY <1>2, <1>3

\* So can nothing.
LEMMA NoOptionsDelivered == OptionsDelivered(NoSignals.OPTIONS)
<1> DEFINE s == NoSignals.OPTIONS
<1>1. s.changes = <<>> /\ s.summary = <<>> /\ s.pcr = <<>> /\ s.iv = <<>> /\ s.walls = <<>> /\ s.pain = <<>>
  BY DEF NoSignals
<1> HIDE DEF s
<1>2. OptionsDelivered(s)
  BY <1>1, OneIsSequence, Zenon DEF OptionsDelivered
<1> QED BY <1>2 DEF s

-----------------------------------------------------------------------------
(* What is passed on. *)

\* The domains a contract has signals of.
LEMMA FiveDomains == DOMAIN NoSignals = {"SMC", "ICT", "TECHNICAL", "OPTIONS", "PSYCHOLOGY"}
BY DEF NoSignals

\* What every engine delivers.
AllDelivered(signals) ==
  /\ SmcDelivered(signals.SMC) /\ IctDelivered(signals.ICT) /\ TechnicalDelivered(signals.TECHNICAL)
  /\ OptionsDelivered(signals.OPTIONS) /\ IsSequence(signals.PSYCHOLOGY)

\* A contract without signals delivers nothing wrong.
LEMMA NothingDelivered == AllDelivered(NoSignals)
<1>1. IsSequence(NoSignals.PSYCHOLOGY)
  <2>1. NoSignals.PSYCHOLOGY = <<>>
    BY DEF NoSignals
  <2> QED BY <2>1, OneIsSequence
<1> QED BY <1>1, NoSmcDelivered, NoIctDelivered, NoTechnicalDelivered, NoOptionsDelivered, Zenon DEF AllDelivered

\* What a cycle delivers is valid, whichever engines run and are late.
LEMMA CycleDelivers ==
  ASSUME NEW series \in Seq(Candles), NEW minute \in Int, NEW with \in Unusual \cup {Ordinary}
  PROVE  AllDelivered(CalculationCycle(series, minute, with).signals)
<1> DEFINE c == CalculationCycle(series, minute, with)
           active == ToSet(PhaseDomains(with.phase))
           signals == c.signals
           Run(d) == EngineSignals(d, series, minute, with)
<1>1. signals = [d \in DOMAIN NoSignals |-> IF d \in active THEN Sent(d, series, minute, with) ELSE NoSignals[d]]
  BY DEF CalculationCycle
<1>2. ASSUME NEW d \in DOMAIN NoSignals PROVE Sent(d, series, minute, with) \in {NoSignals[d], Run(d)}
  BY Zenon DEF Sent
<1> HIDE DEF signals, active, Run
<1>3. ASSUME NEW d \in {"SMC", "ICT", "TECHNICAL", "OPTIONS", "PSYCHOLOGY"}
      PROVE  signals[d] = NoSignals[d] \/ signals[d] = Run(d)
  <2>1. d \in DOMAIN NoSignals
    BY FiveDomains
  <2>2. signals[d] = IF d \in active THEN Sent(d, series, minute, with) ELSE NoSignals[d]
    BY <1>1, <2>1
  <2> QED BY <1>2, <2>1, <2>2
<1>4. /\ SmcDelivered(NoSignals.SMC) /\ IctDelivered(NoSignals.ICT) /\ TechnicalDelivered(NoSignals.TECHNICAL)
      /\ OptionsDelivered(NoSignals.OPTIONS) /\ IsSequence(NoSignals.PSYCHOLOGY)
  BY NothingDelivered, Zenon DEF AllDelivered
<1>5. SmcDelivered(signals.SMC)
  <2>1. Run("SMC") = NoSignals.SMC \/ (series # <<>> /\ Run("SMC") = SmcRun(series))
    BY DEF Run, EngineSignals
  <2>2. SmcDelivered(Run("SMC"))
    BY <1>4, <2>1, SmcRunDelivers
  <2> QED BY <1>3, <1>4, <2>2
<1>6. IctDelivered(signals.ICT)
  <2>1. Run("ICT") = NoSignals.ICT \/ (series # <<>> /\ Run("ICT") = IctRun(series, minute))
    BY DEF Run, EngineSignals
  <2>2. IctDelivered(Run("ICT"))
    BY <1>4, <2>1, IctRunDelivers
  <2> QED BY <1>3, <1>4, <2>2
<1>7. TechnicalDelivered(signals.TECHNICAL)
  <2>1. Run("TECHNICAL") = TechnicalSignals(Dated(series))
    BY DEF Run, EngineSignals
  <2>2. Dated(series) \in Seq(Candles)
    BY DEF Dated
  <2>3. TechnicalDelivered(Run("TECHNICAL"))
    BY <2>1, <2>2, TechnicalDelivers
  <2> QED BY <1>3, <1>4, <2>3
<1>8. OptionsDelivered(signals.OPTIONS)
  <2>1. Run("OPTIONS") = OptionsSignals(with.chain)
    BY DEF Run, EngineSignals
  <2>2. IsSequence(with.chain)
    BY AnalysisAssumption
  <2>3. OptionsDelivered(Run("OPTIONS"))
    BY <2>1, <2>2, OptionsDeliver
  <2> QED BY <1>3, <1>4, <2>3
<1>9. IsSequence(signals.PSYCHOLOGY)
  <2>1. Run("PSYCHOLOGY") = <<SupportSignals(with.day)>>
    BY DEF Run, EngineSignals
  <2>2. IsSequence(Run("PSYCHOLOGY"))
    BY <2>1, OneIsSequence
  <2> QED BY <1>3, <1>4, <2>2
<1> QED BY <1>5, <1>6, <1>7, <1>8, <1>9, Zenon DEF AllDelivered, signals

\* A sequence has a length.
LEMMA LengthIsNat == ASSUME NEW s, IsSequence(s) PROVE Len(s) \in Nat
<1> DEFINE T == ToSet(s)
<1>1. s \in Seq(T)
  BY DEF IsSequence
<1> HIDE DEF T
<1> QED BY <1>1

\* Every head can read what a cycle delivers.
LEMMA CycleCanBeRead ==
  ASSUME NEW c, AllDelivered(c.signals), NEW head \in Heads
  PROVE  CanBeRead(head, HeadInputs(c)[head])
<1> DEFINE smc == c.signals.SMC ict == c.signals.ICT tech == c.signals.TECHNICAL
           options == c.signals.OPTIONS psychology == c.signals.PSYCHOLOGY
           inputs == HeadInputs(c)
<1>1. /\ inputs.SMC = smc /\ inputs.ICT.delivery = <<>>
      /\ inputs.Macro.vix = <<>> /\ inputs.Macro.fii = <<>>
      /\ inputs.Macro.events = <<>> /\ inputs.Macro.environment = <<>>
      /\ inputs.Options.building["CE"] = 0 /\ inputs.Options.building["PE"] = 0
  BY DEF HeadInputs
<1>2. /\ inputs.ICT.count = Len(ict.array) + Len(ict.zones) + Len(ict.next) + Len(ict.levels) + Len(ict.context)
      /\ inputs.Technical.count = Len(tech.rsi) + Len(tech.fast) + Len(tech.slow) + Len(tech.cross) + Len(tech.atr)
                                  + Len(tech.profile)
      /\ inputs.Options.count = Len(options.changes) + Len(options.summary) + Len(options.pcr) + Len(options.iv)
                                + Len(options.walls) + Len(options.pain)
      /\ inputs.Psychology.count = 4 * Len(psychology)
  BY Zenon DEF HeadInputs
<1>3. SmcDelivered(smc) /\ IctDelivered(ict) /\ TechnicalDelivered(tech) /\ OptionsDelivered(options) /\ IsSequence(psychology)
  BY Zenon DEF AllDelivered
<1> HIDE DEF smc, ict, tech, options, psychology, inputs
<1>4. inputs.ICT.count \in Nat
  <2> DEFINE a == Len(ict.array) b == Len(ict.zones) d == Len(ict.next) e == Len(ict.levels) f == Len(ict.context)
             n == inputs.ICT.count
  <2>1. a \in Nat /\ b \in Nat /\ d \in Nat /\ e \in Nat /\ f \in Nat
    BY <1>3, LengthIsNat, Zenon DEF IctDelivered
  <2>2. n = a + b + d + e + f
    BY <1>2, Zenon
  <2> HIDE DEF a, b, d, e, f, n
  <2>3. n \in Nat
    BY <2>1, <2>2
  <2> QED BY <2>3 DEF n
<1>5. inputs.Technical.count \in Nat
  <2> DEFINE a == Len(tech.rsi) b == Len(tech.fast) d == Len(tech.slow) e == Len(tech.cross) f == Len(tech.atr)
             g == Len(tech.profile) n == inputs.Technical.count
  <2>1. a \in Nat /\ b \in Nat /\ d \in Nat /\ e \in Nat /\ f \in Nat /\ g \in Nat
    BY <1>3, LengthIsNat, Zenon DEF TechnicalDelivered
  <2>2. n = a + b + d + e + f + g
    BY <1>2, Zenon
  <2> HIDE DEF a, b, d, e, f, g, n
  <2>3. n \in Nat
    BY <2>1, <2>2
  <2> QED BY <2>3 DEF n
<1>6. inputs.Options.count \in Nat
  <2> DEFINE a == Len(options.changes) b == Len(options.summary) d == Len(options.pcr) e == Len(options.iv)
             f == Len(options.walls) g == Len(options.pain) n == inputs.Options.count
  <2>1. a \in Nat /\ b \in Nat /\ d \in Nat /\ e \in Nat /\ f \in Nat /\ g \in Nat
    BY <1>3, LengthIsNat, Zenon DEF OptionsDelivered
  <2>2. n = a + b + d + e + f + g
    BY <1>2, Zenon
  <2> HIDE DEF a, b, d, e, f, g, n
  <2>3. n \in Nat
    BY <2>1, <2>2
  <2> QED BY <2>3 DEF n
<1>7. inputs.Psychology.count \in Nat
  <2> DEFINE a == Len(psychology) n == inputs.Psychology.count
  <2>1. a \in Nat
    BY <1>3, LengthIsNat
  <2>2. n = 4 * a
    BY <1>2, Zenon
  <2> HIDE DEF a, n
  <2>3. n \in Nat
    BY <2>1, <2>2
  <2> QED BY <2>3 DEF n
<1>8. IsSequence(<<>>) /\ <<>> \in Seq(Int) /\ 0 \in Nat
  BY OneIsSequence
<1>9. CanBeRead(head, inputs[head])
  <2>1. CASE head = "SMC"
    BY <1>1, <1>3, <2>1, Zenon DEF CanBeRead, SmcDelivered
  <2>2. CASE head = "ICT"
    BY <1>1, <1>4, <1>8, <2>2, Zenon DEF CanBeRead
  <2>3. CASE head = "Technical"
    BY <1>5, <2>3, Zenon DEF CanBeRead
  <2>4. CASE head = "Options"
    BY <1>1, <1>6, <1>8, <2>4, Zenon DEF CanBeRead
  <2>5. CASE head = "Macro"
    BY <1>1, <1>8, <2>5, Zenon DEF CanBeRead
  <2>6. CASE head = "Psychology"
    BY <1>7, <2>6, Zenon DEF CanBeRead
  <2> QED BY <2>1, <2>2, <2>3, <2>4, <2>5, <2>6, SixHeads
<1> QED BY <1>9 DEF inputs

\* Heads that can read their input give reports the validator takes, whichever of them fail.
LEMMA RefreshAccepted ==
  ASSUME NEW inputs, \A h \in Heads : CanBeRead(h, inputs[h]), NEW minutes, NEW failed,
         Refresh(inputs, minutes, failed)
  PROVE  \A h \in DOMAIN reports' : ReportValid(h, reports'[h])
<1> DEFINE older == [h \in Heads |-> Older(ages[h], minutes)]
<1>1. reports' = [h \in Heads \ failed |-> RefreshHead(h, inputs[h], older[h], mind')]
  BY Zenon DEF Refresh
<1> HIDE DEF older
<1>2. TAKE h \in DOMAIN reports'
<1>3. h \in Heads /\ reports'[h] = RefreshHead(h, inputs[h], older[h], mind')
  BY <1>1
<1>4. ReportValid(h, RefreshHead(h, inputs[h], older[h], mind'))
  BY <1>3, HeadAccepted
<1> QED BY <1>3, <1>4

\* Candles and minutes are what they are, and what is passed on is accepted.
Accepted == candles \in Seq(Candles) /\ clock \in Nat /\ EverythingAccepted

\* Every report and every signal that is passed on is accepted.
THEOREM AcceptedTheorem == Spec => []EverythingAccepted
<1>0. ASSUME AllDelivered(contract.signals), \A h \in DOMAIN reports : ReportValid(h, reports[h])
      PROVE  EverythingAccepted
  BY <1>0, Zenon DEF EverythingAccepted, AllDelivered, Delivered, SmcDelivered, IctDelivered, TechnicalDelivered
<1>1. Init => Accepted
  <2> SUFFICES ASSUME Init PROVE Accepted
    OBVIOUS
  <2>1. contract.signals = NoSignals /\ DOMAIN reports = {} /\ candles = <<>> /\ clock = 0
    BY DEF Init, NoContract
  <2> QED BY <1>0, <2>1, NothingDelivered DEF Accepted
<1>2. Accepted /\ [Next]_vars => Accepted'
  <2> SUFFICES ASSUME Accepted, [Next]_vars PROVE Accepted'
    OBVIOUS
  <2>0. ASSUME AllDelivered(contract'.signals), \A h \in DOMAIN reports' : ReportValid(h, reports'[h])
        PROVE  EverythingAccepted'
    BY <2>0, Zenon DEF EverythingAccepted, AllDelivered, Delivered, SmcDelivered, IctDelivered, TechnicalDelivered
  <2>1. CASE UNCHANGED vars
    BY <2>1 DEF vars, Accepted, EverythingAccepted, Delivered
  <2>2. ASSUME candles' \in Seq(Candles), clock' \in Nat,
               NEW with \in Unusual \cup {Ordinary}, Analyse(candles', with)
        PROVE  Accepted'
    <3>1. Open + clock' \in Int
      BY <2>2, AnalysisAssumption
    <3>2. contract' = CalculationCycle(candles', Open + clock', with)
      BY <2>2, Zenon DEF Analyse
    <3>3. AllDelivered(contract'.signals)
      BY <2>2, <3>1, <3>2, CycleDelivers
    <3>4. \A h \in Heads : CanBeRead(h, HeadInputs(contract')[h])
      BY <3>3, CycleCanBeRead
    <3>5. \A h \in DOMAIN reports' : ReportValid(h, reports'[h])
      BY <2>2, <3>4, RefreshAccepted DEF Analyse
    <3> QED BY <2>0, <2>2, <3>3, <3>5 DEF Accepted
  <2>3. ASSUME NEW c \in Candles, CandleClosed(c) PROVE Accepted'
    <3>1. candles' \in Seq(Candles) /\ Analyse(candles', Ordinary)
      <4>1. candles' = LastN(Append(candles, c), BufferMax) /\ Analyse(candles', Ordinary)
        BY <2>3 DEF CandleClosed
      <4>2. Append(candles, c) \in Seq(Candles)
        BY DEF Accepted
      <4> QED BY <4>1, <4>2, LastFacts, AnalysisAssumption
    <3>2. clock' \in Nat
      BY <2>3, AnalysisAssumption DEF CandleClosed, Accepted
    <3> QED BY <2>2, <3>1, <3>2
  <2>4. ASSUME NEW with \in Unusual, QuietMinute(with) PROVE Accepted'
    <3>1. candles' = candles /\ candles' \in Seq(Candles) /\ Analyse(candles', with)
      BY <2>4 DEF QuietMinute, Accepted
    <3>2. clock' \in Nat
      BY <2>4, AnalysisAssumption DEF QuietMinute, Accepted
    <3> QED BY <2>2, <3>1, <3>2
  <2>5. ASSUME NEW c \in Contracts, HandedOver(c) PROVE Accepted'
    <3>1. candles' \in Seq(Candles) /\ Refresh(c.inputs, c.minutes, {})
      BY <2>5 DEF HandedOver, Accepted
    <3>2. clock' \in Nat
      BY <2>5, AnalysisAssumption DEF HandedOver, Accepted
    <3>3. AllDelivered(contract'.signals)
      BY <2>5, NothingDelivered DEF HandedOver, NoContract
    <3>4. \A h \in Heads : CanBeRead(h, c.inputs[h])
      BY HandMadeCanBeRead
    <3>5. \A h \in DOMAIN reports' : ReportValid(h, reports'[h])
      BY <3>1, <3>4, RefreshAccepted
    <3> QED BY <2>0, <3>1, <3>2, <3>3, <3>5 DEF Accepted
  <2> QED BY <2>1, <2>3, <2>4, <2>5 DEF Next
<1>3. Accepted => EverythingAccepted
  BY DEF Accepted
<1> QED BY <1>1, <1>2, <1>3, PTL DEF Spec

=============================================================================
