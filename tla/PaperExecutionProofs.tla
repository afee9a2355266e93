------------------------ MODULE PaperExecutionProofs ------------------------
(***************************************************************************)
(* Theorems about PaperExecution, for any plans, candles, requests and     *)
(* numbers of GET requests.                                                *)
(*                                                                         *)
(* The invariants of a run are about its three rows and the ledger they    *)
(* come from.  Steady: the types, and what the ledger of a run that goes on *)
(* looks like, an entry and partial exits.  Reflects: what the ledger      *)
(* rebuilds.  The rest of the module is about the two functions that walk  *)
(* over candles and exits: what they give on a tape that was cut at a      *)
(* watermark is compared by induction over sets of natural numbers.        *)
(***************************************************************************)
EXTENDS PaperExecution, FiniteSetTheorems, SequenceTheorems, WellFoundedInduction,
        TLAPS

-----------------------------------------------------------------------------
\* Induction over sets of natural numbers.

LEMMA NatLess == \A x, y \in Nat : <<x, y>> \in OpToRel(<, Nat) <=> x < y
BY DEF OpToRel

\* A nonempty set of natural numbers has a least element.
LEMMA LeastElement ==
  ASSUME NEW T \in SUBSET Nat, T # {}
  PROVE  \E m \in T : \A y \in T : m <= y
<1> DEFINE R == OpToRel(<, Nat)
<1>1. IsWellFoundedOn(R, Nat)
  BY NatLessThanWellFounded
<1>2. \A x, y \in Nat : <<x, y>> \in R <=> x < y
  BY NatLess
<1> HIDE DEF R
<1>3. PICK m \in T : \A y \in T : ~(<<y, m>> \in R)
  BY <1>1, WFMin
<1>4. \A y \in T : ~(y < m)
  BY <1>2, <1>3
<1> QED BY <1>3, <1>4

LEMMA SetInduction ==
  ASSUME NEW S, 0 \in S, \A n \in Nat : n \in S => n + 1 \in S
  PROVE  Nat \subseteq S
<1> SUFFICES ASSUME Nat \ S # {} PROVE FALSE
  OBVIOUS
<1>1. PICK m \in Nat \ S : \A y \in Nat \ S : m <= y
  BY LeastElement
<1>2. m # 0 /\ m - 1 \in Nat /\ m - 1 < m
  BY <1>1
<1>3. m - 1 \in S
  BY <1>1, <1>2
<1> QED BY <1>1, <1>2, <1>3

\* Least: the least element, or 0 when there is none.
LEMMA LeastIsLeast ==
  ASSUME NEW S \in SUBSET (Nat \ {0})
  PROVE  /\ S = {} => Least(S) = 0
         /\ S # {} => Least(S) \in S /\ \A y \in S : Least(S) <= y
<1>1. CASE S = {}
  BY <1>1 DEF Least
<1>2. CASE S # {}
  <2>1. \E m \in S : \A y \in S : m <= y
    BY <1>2, LeastElement
  <2>2. Least(S) = CHOOSE m \in S : \A y \in S : m <= y
    BY <1>2 DEF Least, Min
  <2> QED BY <1>2, <2>1, <2>2
<1> QED BY <1>1, <1>2

\* The greatest index of a set of indexes that holds the last one.
LEMMA LastIsMax ==
  ASSUME NEW n \in Nat, NEW S \in SUBSET (1..(n + 1)), n + 1 \in S
  PROVE  Max(S) = n + 1
<1>1. \A x \in S : n + 1 >= x
  OBVIOUS
<1>2. \A y \in S : (\A x \in S : y >= x) => y = n + 1
  OBVIOUS
<1> QED BY <1>1, <1>2 DEF Max

-----------------------------------------------------------------------------
(***************************************************************************)
(* Folds.  The three folds of the specification go over a sequence from    *)
(* left to right; Step(kind, ...) is the step of each, so that what they   *)
(* have in common is proved once.                                          *)
(***************************************************************************)
Step(kind, p, a, e) ==
  CASE kind = "rebuild" -> RebuildStep(p, a, e)
    [] kind = "apply"   -> Apply(p, a, e)
    [] kind = "sold"    -> SoldStep(a, e)

\* The function that FoldLeft defines over the sets of indexes up to n.
Iterates(kind, p, base, s, n, iter) ==
  iter = [x \in SUBSET (1..n) |->
            IF x = {} THEN base
            ELSE LET i == Max(x) IN Step(kind, p, iter[x \ {i}], s[i])]

\* h[i] is what the first i elements give.
Steps(kind, p, base, s, n, h) ==
  /\ h[0] = base
  /\ \A i \in 1..n : h[i] = Step(kind, p, h[i - 1], s[i])

LEMMA IteratesExist ==
  ASSUME NEW kind, NEW p, NEW base, NEW s
  PROVE  \A n \in Nat : \E iter : Iterates(kind, p, base, s, n, iter)
<1> DEFINE S == {n \in Nat : \E iter : Iterates(kind, p, base, s, n, iter)}
<1>1. 0 \in S
  <2> DEFINE iter == [x \in SUBSET (1..0) |-> base]
  <2>1. Iterates(kind, p, base, s, 0, iter)
    BY DEF Iterates
  <2> QED BY <2>1
<1>2. ASSUME NEW n \in Nat, n \in S PROVE n + 1 \in S
  <2>1. PICK f : Iterates(kind, p, base, s, n, f)
    BY <1>2
  <2> DEFINE g == [x \in SUBSET (1..(n + 1)) |->
                     IF n + 1 \in x THEN Step(kind, p, f[x \ {n + 1}], s[n + 1])
                     ELSE f[x]]
  <2>2. ASSUME NEW x \in SUBSET (1..(n + 1))
        PROVE  g[x] = IF x = {} THEN base
                      ELSE LET i == Max(x) IN Step(kind, p, g[x \ {i}], s[i])
    <3>1. CASE n + 1 \in x
      <4>1. Max(x) = n + 1 /\ x # {}
        BY <3>1, LastIsMax
      <4>2. x \ {n + 1} \in SUBSET (1..(n + 1)) /\ n + 1 \notin x \ {n + 1}
        OBVIOUS
      <4>3. g[x \ {n + 1}] = f[x \ {n + 1}]
        BY <4>2
      <4>4. g[x] = Step(kind, p, f[x \ {n + 1}], s[n + 1])
        BY <3>1
      <4> HIDE DEF g
      <4> QED BY <4>1, <4>3, <4>4
    <3>2. CASE n + 1 \notin x
      <4>1. x \in SUBSET (1..n)
        BY <3>2
      <4> DEFINE i == Max(x)
      <4>2. g[x] = IF x = {} THEN base ELSE Step(kind, p, f[x \ {i}], s[i])
        BY <2>1, <3>2, <4>1 DEF Iterates
      <4>3. x \ {i} \in SUBSET (1..(n + 1)) /\ n + 1 \notin x \ {i}
        BY <3>2
      <4>4. g[x \ {i}] = f[x \ {i}]
        BY <4>3
      <4> HIDE DEF g
      <4> QED BY <4>2, <4>4
    <3> QED BY <3>1, <3>2
  <2>3. Iterates(kind, p, base, s, n + 1, g)
    <3> DEFINE r == [x \in SUBSET (1..(n + 1)) |->
                       IF x = {} THEN base
                       ELSE LET i == Max(x) IN Step(kind, p, g[x \ {i}], s[i])]
    <3>1. g = [x \in SUBSET (1..(n + 1)) |-> g[x]]
      OBVIOUS
    <3> HIDE DEF g
    <3>2. g = r
      BY <2>2, <3>1
    <3> QED BY <3>2 DEF Iterates
  <2> QED BY <2>3
<1> HIDE DEF S
<1>3. Nat \subseteq S
  BY <1>1, <1>2, SetInduction
<1> QED BY <1>3 DEF S

LEMMA IteratesStep ==
  ASSUME NEW kind, NEW p, NEW base, NEW s, NEW n \in Nat, NEW iter,
         Iterates(kind, p, base, s, n, iter)
  PROVE  \E h : Steps(kind, p, base, s, n, h) /\ h[n] = iter[1..n]
<1> DEFINE h == [i \in 0..n |-> iter[1..i]]
<1>1. h[0] = base
  <2>1. 1..0 = {} /\ {} \in SUBSET (1..n)
    OBVIOUS
  <2>2. iter[{}] = base
    BY <2>1 DEF Iterates
  <2> QED BY <2>1, <2>2
<1>2. ASSUME NEW i \in 1..n PROVE h[i] = Step(kind, p, h[i - 1], s[i])
  <2>1. 1..i \in SUBSET (1..n) /\ i \in 1..i /\ (1..i) \ {i} = 1..(i - 1)
    OBVIOUS
  <2>2. Max(1..i) = i
    <3>1. i - 1 \in Nat /\ (i - 1) + 1 = i
      OBVIOUS
    <3> QED BY <2>1, <3>1, LastIsMax
  <2>3. \A x \in SUBSET (1..n) : x # {} =>
          iter[x] = Step(kind, p, iter[x \ {Max(x)}], s[Max(x)])
    BY DEF Iterates
  <2>4. iter[1..i] = Step(kind, p, iter[1..(i - 1)], s[i])
    <3>1. iter[1..i] = Step(kind, p, iter[(1..i) \ {Max(1..i)}], s[Max(1..i)])
      BY <2>1, <2>3
    <3> QED BY <2>1, <2>2, <3>1
  <2>5. i \in 0..n /\ i - 1 \in 0..n
    OBVIOUS
  <2>6. h[i] = iter[1..i] /\ h[i - 1] = iter[1..(i - 1)]
    BY <2>5
  <2> HIDE DEF h
  <2> QED BY <2>4, <2>6
<1>3. h[n] = iter[1..n]
  OBVIOUS
<1> HIDE DEF h
<1> QED BY <1>1, <1>2, <1>3 DEF Steps

\* What the first elements give does not depend on the ones after them.
LEMMA StepsAgree ==
  ASSUME NEW kind, NEW p, NEW base, NEW s, NEW t, NEW n \in Nat, NEW m \in Nat,
         n <= m, NEW h, NEW g,
         Steps(kind, p, base, s, n, h), Steps(kind, p, base, t, m, g),
         \A i \in 1..n : s[i] = t[i]
  PROVE  \A i \in 0..n : h[i] = g[i]
<1> DEFINE S == {i \in Nat : i <= n => h[i] = g[i]}
<1>1. 0 \in S
  BY DEF Steps
<1>2. ASSUME NEW i \in Nat, i \in S PROVE i + 1 \in S
  <2> SUFFICES ASSUME i + 1 <= n PROVE h[i + 1] = g[i + 1]
    OBVIOUS
  <2>1. i + 1 \in 1..n /\ i + 1 \in 1..m /\ (i + 1) - 1 = i /\ h[i] = g[i]
    BY <1>2
  <2>2. h[i + 1] = Step(kind, p, h[i], s[i + 1])
    BY <2>1 DEF Steps
  <2>3. g[i + 1] = Step(kind, p, g[i], t[i + 1])
    BY <2>1 DEF Steps
  <2> QED BY <2>1, <2>2, <2>3
<1> HIDE DEF S
<1>3. Nat \subseteq S
  BY <1>1, <1>2, SetInduction
<1> QED BY <1>3 DEF S

\* The three folds, as the last of their steps.
LEMMA RebuildSteps ==
  ASSUME NEW p, NEW s, Len(s) \in Nat, DOMAIN s = 1..Len(s)
  PROVE  \E h : /\ Steps("rebuild", p, NoPosition, s, Len(s), h)
                /\ Rebuild(p, s) = h[Len(s)]
<1> DEFINE n == Len(s)
           It(iter) == iter = [x \in SUBSET (1..n) |->
                         IF x = {} THEN NoPosition
                         ELSE LET i == Max(x)
                              IN RebuildStep(p, iter[x \ {i}], s[i])]
           f == CHOOSE iter : It(iter)
<1>1. Rebuild(p, s) = f[1..n]
  BY DEF Rebuild, FoldLeft, MapThenFoldSet
<1>2. \A iter : It(iter) <=> Iterates("rebuild", p, NoPosition, s, n, iter)
  BY DEF Iterates, Step
<1>3. \E iter : It(iter)
  BY <1>2, IteratesExist
<1> HIDE DEF It
<1>4. Iterates("rebuild", p, NoPosition, s, n, f)
  BY <1>2, <1>3
<1>5. n \in Nat
  OBVIOUS
<1> HIDE DEF f, n
<1> QED BY <1>1, <1>4, <1>5, IteratesStep DEF n

LEMMA AppliedSteps ==
  ASSUME NEW p, NEW pos, NEW s, Len(s) \in Nat, DOMAIN s = 1..Len(s)
  PROVE  \E h : /\ Steps("apply", p, [pos |-> pos, events |-> <<>>], s, Len(s), h)
                /\ Applied(p, pos, s) = h[Len(s)]
<1> DEFINE n == Len(s)
           base == [pos |-> pos, events |-> <<>>]
           It(iter) == iter = [x \in SUBSET (1..n) |->
                         IF x = {} THEN base
                         ELSE LET i == Max(x) IN Apply(p, iter[x \ {i}], s[i])]
           f == CHOOSE iter : It(iter)
<1>1. Applied(p, pos, s) = f[1..n]
  BY DEF Applied, FoldLeft, MapThenFoldSet
<1> HIDE DEF base
<1>2. \A iter : It(iter) <=> Iterates("apply", p, base, s, n, iter)
  BY DEF Iterates, Step
<1>3. \E iter : It(iter)
  BY <1>2, IteratesExist
<1> HIDE DEF It
<1>4. Iterates("apply", p, base, s, n, f)
  BY <1>2, <1>3
<1>5. n \in Nat
  OBVIOUS
<1> HIDE DEF f, n
<1> QED BY <1>1, <1>4, <1>5, IteratesStep DEF n, base

LEMMA SoldSteps ==
  ASSUME NEW s, Len(s) \in Nat, DOMAIN s = 1..Len(s)
  PROVE  \E h : Steps("sold", 0, 0, s, Len(s), h) /\ Sold(s) = h[Len(s)]
<1> DEFINE n == Len(s)
           It(iter) == iter = [x \in SUBSET (1..n) |->
                         IF x = {} THEN 0
                         ELSE LET i == Max(x) IN SoldStep(iter[x \ {i}], s[i])]
           f == CHOOSE iter : It(iter)
<1>1. Sold(s) = f[1..n]
  BY DEF Sold, FoldLeft, MapThenFoldSet
<1>2. \A iter : It(iter) <=> Iterates("sold", 0, 0, s, n, iter)
  BY DEF Iterates, Step
<1>3. \E iter : It(iter)
  BY <1>2, IteratesExist
<1> HIDE DEF It
<1>4. Iterates("sold", 0, 0, s, n, f)
  BY <1>2, <1>3
<1>5. n \in Nat
  OBVIOUS
<1> HIDE DEF f, n
<1> QED BY <1>1, <1>4, <1>5, IteratesStep DEF n

LEMMA ShortSequences ==
  ASSUME NEW a, NEW b
  PROVE  <<a>> \o <<>> = <<a>> /\ <<a>> \o <<b>> = <<a, b>>
<1>1. <<a>> \in Seq({a, b}) /\ <<b>> \in Seq({a, b})
  OBVIOUS
<1>2. <<a>> \o <<>> = <<a>>
  BY <1>1, ConcatEmptySeq
<1>3. <<a>> \o <<b>> = <<a, b>>
  <2> DEFINE S == {a, b}
             s == <<a>>
             t == <<b>>
             u == <<a, b>>
  <2>1. s \in Seq(S) /\ t \in Seq(S) /\ u \in Seq(S) /\ Len(s) = 1 /\ Len(t) = 1
    OBVIOUS
  <2>2. Len(u) = 2 /\ u[1] = a /\ u[2] = b /\ s[1] = a /\ t[1] = b
    OBVIOUS
  <2> HIDE DEF s, t, u, S
  <2>3. /\ s \o t \in Seq(S) /\ Len(s \o t) = 2
        /\ \A i \in 1..2 : (s \o t)[i] = IF i <= 1 THEN s[i] ELSE t[i - 1]
    BY <2>1, ConcatProperties
  <2>4. \A i \in 1..2 : (s \o t)[i] = u[i]
    BY <2>2, <2>3
  <2>5. s \o t = u
    BY <2>1, <2>2, <2>3, <2>4, SeqEqual
  <2> QED BY <2>5 DEF s, t, u
<1> QED BY <1>2, <1>3

LEMMA AppendTwice ==
  ASSUME NEW S, NEW s \in Seq(S), NEW a \in S, NEW b \in S
  PROVE  s \o <<a, b>> = Append(Append(s, a), b)
<1>1. <<a>> \in Seq(S) /\ <<b>> \in Seq(S) /\ Append(s, a) \in Seq(S)
  OBVIOUS
<1>2. s \o <<a, b>> = s \o (<<a>> \o <<b>>)
  BY ShortSequences
<1>3. s \o (<<a>> \o <<b>>) = (s \o <<a>>) \o <<b>>
  BY <1>1, ConcatAssociative
<1> QED BY <1>1, <1>2, <1>3, AppendIsConcat

\* A ledger with one entry more.
LEMMA RebuildEmpty == ASSUME NEW p PROVE Rebuild(p, <<>>) = NoPosition
<1>1. Len(<<>>) = 0 /\ DOMAIN <<>> = 1..0
  OBVIOUS
<1>2. PICK h : /\ Steps("rebuild", p, NoPosition, <<>>, Len(<<>>), h)
               /\ Rebuild(p, <<>>) = h[Len(<<>>)]
  BY <1>1, RebuildSteps
<1> QED BY <1>1, <1>2 DEF Steps

LEMMA RebuildAppend ==
  ASSUME NEW p, NEW E, NEW s \in Seq(E), NEW e \in E
  PROVE  Rebuild(p, Append(s, e)) = RebuildStep(p, Rebuild(p, s), e)
<1> DEFINE n == Len(s)
           t == Append(s, e)
<1>1. n \in Nat /\ DOMAIN s = 1..n /\ Len(t) = n + 1 /\ DOMAIN t = 1..(n + 1)
  OBVIOUS
<1>2. t[n + 1] = e /\ \A i \in 1..n : s[i] = t[i]
  OBVIOUS
<1> HIDE DEF t
<1>3. PICK h : Steps("rebuild", p, NoPosition, s, n, h) /\ Rebuild(p, s) = h[n]
  BY <1>1, RebuildSteps
<1>4. PICK g : /\ Steps("rebuild", p, NoPosition, t, n + 1, g)
               /\ Rebuild(p, t) = g[n + 1]
  BY <1>1, RebuildSteps
<1>5. g[n] = h[n]
  <2>1. n <= n + 1 /\ n + 1 \in Nat /\ n \in 0..n
    BY <1>1
  <2> DEFINE m == n + 1
  <2>2. m \in Nat /\ n <= m /\ Steps("rebuild", p, NoPosition, t, m, g)
    BY <1>4, <2>1
  <2> HIDE DEF n, m
  <2>3. \A i \in 0..n : h[i] = g[i]
    BY <1>1, <1>2, <1>3, <2>2, StepsAgree
  <2> QED BY <2>1, <2>3
<1>6. n + 1 \in 1..(n + 1) /\ (n + 1) - 1 = n
  BY <1>1
<1>7. g[n + 1] = Step("rebuild", p, g[n], e)
  BY <1>2, <1>4, <1>6 DEF Steps
<1> QED BY <1>3, <1>4, <1>5, <1>7 DEF t, Step

LEMMA SoldEmpty == Sold(<<>>) = 0
<1>1. Len(<<>>) = 0 /\ DOMAIN <<>> = 1..0
  OBVIOUS
<1>2. PICK h : Steps("sold", 0, 0, <<>>, Len(<<>>), h) /\ Sold(<<>>) = h[Len(<<>>)]
  BY <1>1, SoldSteps
<1> QED BY <1>1, <1>2 DEF Steps

LEMMA SoldAppend ==
  ASSUME NEW E, NEW s \in Seq(E), NEW e \in E
  PROVE  Sold(Append(s, e)) = SoldStep(Sold(s), e)
<1> DEFINE n == Len(s)
           t == Append(s, e)
<1>1. n \in Nat /\ DOMAIN s = 1..n /\ Len(t) = n + 1 /\ DOMAIN t = 1..(n + 1)
  OBVIOUS
<1>2. t[n + 1] = e /\ \A i \in 1..n : s[i] = t[i]
  OBVIOUS
<1> HIDE DEF t
<1>3. PICK h : Steps("sold", 0, 0, s, n, h) /\ Sold(s) = h[n]
  BY <1>1, SoldSteps
<1>4. PICK g : Steps("sold", 0, 0, t, n + 1, g) /\ Sold(t) = g[n + 1]
  BY <1>1, SoldSteps
<1>5. g[n] = h[n]
  <2>1. n <= n + 1 /\ n + 1 \in Nat /\ n \in 0..n
    BY <1>1
  <2> DEFINE m == n + 1
  <2>2. m \in Nat /\ n <= m /\ Steps("sold", 0, 0, t, m, g)
    BY <1>4, <2>1
  <2> HIDE DEF n, m
  <2>3. \A i \in 0..n : h[i] = g[i]
    BY <1>1, <1>2, <1>3, <2>2, StepsAgree
  <2> QED BY <2>1, <2>3
<1>6. n + 1 \in 1..(n + 1) /\ (n + 1) - 1 = n
  BY <1>1
<1>7. g[n + 1] = Step("sold", 0, g[n], e)
  BY <1>2, <1>4, <1>6 DEF Steps
<1> QED BY <1>3, <1>4, <1>5, <1>7 DEF t, Step

-----------------------------------------------------------------------------
(***************************************************************************)
(* Exits.  What findPositionTransitions returns, by induction over the     *)
(* candles that it walks.                                                  *)
(***************************************************************************)
Reasons == {"stop", "target", "position_timeout", "data_end"}
ExitT == [at : Nat, price : Int, reason : Reasons, ambiguous : BOOLEAN,
          share : 1..All]

\* Only the stop is ambiguous, only a target is partial.
ExitOK(x) ==
  /\ x \in ExitT
  /\ x.ambiguous => x.reason = "stop" /\ x.share = All
  /\ x.share # All => x.reason = "target"

\* An exit that a candle gives.
WalkExit(x) == ExitOK(x) /\ x.reason # "data_end"

PartialsOK(partials) ==
  /\ partials \in [DOMAIN partials -> 1..(All - 1)]
  /\ DOMAIN partials \subseteq Nat \ {0}

\* What a candle that hits target t, or none, may give.
OneLook(p, c, i, partials, t, here) ==
  \/ here = <<>> /\ ~HitsStop(p, c)
  \/ \E x : here = <<x>> /\ x.share = All /\ x.at = i /\ WalkExit(x)
  \/ /\ t \in DOMAIN partials /\ ~HitsStop(p, c)
     /\ \E x : here = <<x>> /\ x.share # All /\ x.at = i /\ WalkExit(x)
  \/ /\ t \in DOMAIN partials
     /\ \E x, y : /\ here = <<x, y>> /\ x.share # All /\ y.share = All
                  /\ x.at = i /\ y.at = i /\ WalkExit(x) /\ WalkExit(y)

LEMMA ExitsAtOne ==
  ASSUME NEW p, PlanOK(p), NEW c \in Candle, NEW i \in Nat, NEW since \in Nat,
         NEW partials, PartialsOK(partials), NEW t \in (DOMAIN p.targets) \cup {0},
         NEW here, here = ExitsAt(p, c, i, since, t, partials)
  PROVE  OneLook(p, c, i, partials, t, here)
<1>1. t # 0 => p.targets[t] \in Int
  BY DEF PlanOK
<1>2. p.stop \in Int /\ c.close \in Int
  BY DEF PlanOK, Candle
<1>3. t \in DOMAIN partials => t # 0 /\ partials[t] \in 1..(All - 1)
  BY DEF PartialsOK
<1> DEFINE out == Exit(i, c.close, "position_timeout", FALSE, All)
           part == Exit(i, p.targets[t], "target", FALSE, partials[t])
           full == Exit(i, p.targets[t], "target", FALSE, All)
           stop == Exit(i, p.stop, "stop",
                        t # 0 /\ p.intrabar = "ambiguous_warning", All)
<1>4. WalkExit(out) /\ out.at = i /\ out.share = All
  BY <1>2 DEF WalkExit, ExitOK, ExitT, Exit, Reasons, All
<1>5. t # 0 => WalkExit(full) /\ full.at = i /\ full.share = All
  BY <1>1 DEF WalkExit, ExitOK, ExitT, Exit, Reasons, All
<1>6. t \in DOMAIN partials => WalkExit(part) /\ part.at = i /\ part.share # All
  BY <1>1, <1>3 DEF WalkExit, ExitOK, ExitT, Exit, Reasons, All
<1>7. WalkExit(stop) /\ stop.at = i /\ stop.share = All
  BY <1>2 DEF WalkExit, ExitOK, ExitT, Exit, Reasons, All
<1>8. \/ here = <<>> /\ ~HitsStop(p, c)
      \/ here = <<out>>
      \/ here = <<full>> /\ t # 0
      \/ here = <<stop>>
      \/ here = <<part>> \o <<>> /\ t \in DOMAIN partials /\ ~HitsStop(p, c)
      \/ here = <<part>> \o <<out>> /\ t \in DOMAIN partials
  BY DEF ExitsAt
<1> HIDE DEF out, part, full, stop
<1>9. <<part>> \o <<>> = <<part>> /\ <<part>> \o <<out>> = <<part, out>>
  BY ShortSequences
<1>a. CASE here = <<>> /\ ~HitsStop(p, c)
  BY <1>a DEF OneLook
<1>b. CASE here = <<out>>
  BY <1>4, <1>b DEF OneLook
<1>c. CASE here = <<full>> /\ t # 0
  BY <1>5, <1>c DEF OneLook
<1>d. CASE here = <<stop>>
  BY <1>7, <1>d DEF OneLook
<1>e. CASE here = <<part>> \o <<>> /\ t \in DOMAIN partials /\ ~HitsStop(p, c)
  BY <1>6, <1>9, <1>e DEF OneLook
<1>f. CASE here = <<part>> \o <<out>> /\ t \in DOMAIN partials
  BY <1>4, <1>6, <1>9, <1>f DEF OneLook
<1> QED BY <1>8, <1>a, <1>b, <1>c, <1>d, <1>e, <1>f

\* The exits at candles after mark and up to i: only the last one is final.
Formed(p, mark, i, partials, exits) ==
  /\ exits \in Seq(ExitT)
  /\ \A k \in 1..Len(exits) : /\ ExitOK(exits[k]) /\ exits[k].at \in (mark + 1)..i
                              /\ k < Len(exits) => exits[k].share # All
                              /\ DOMAIN partials = {} => exits[k].share = All
                              /\ exits[k].reason = "data_end" => p.force

\* When no exit is final, no candle traded at the stop.
Shape(p, cs, mark, i, partials, exits) ==
  /\ Formed(p, mark, i, partials, exits)
  /\ IsFinal(exits) \/ \A j \in (mark + 1)..i : ~HitsStop(p, cs[j])

LEMMA FormedAppend ==
  ASSUME NEW p, NEW mark \in Nat, NEW i \in Nat, NEW partials,
         NEW exits, Formed(p, mark, i, partials, exits), ~IsFinal(exits),
         NEW x, ExitOK(x), x.at \in (mark + 1)..i,
         DOMAIN partials = {} => x.share = All, x.reason = "data_end" => p.force
  PROVE  /\ Formed(p, mark, i, partials, Append(exits, x))
         /\ IsFinal(Append(exits, x)) <=> x.share = All
<1> DEFINE n == Len(exits)
           more == Append(exits, x)
<1>1. exits \in Seq(ExitT) /\ n \in Nat /\ x \in ExitT
  BY DEF Formed, ExitOK
<1>2. /\ more \in Seq(ExitT) /\ Len(more) = n + 1 /\ more[n + 1] = x
      /\ \A k \in 1..n : more[k] = exits[k]
      /\ more # <<>>
  BY <1>1
<1>3. n # 0 => exits # <<>> /\ exits[n].share # All
  BY <1>1 DEF IsFinal
<1>4. IsFinal(more) <=> x.share = All
  BY <1>2 DEF IsFinal
<1>5. ASSUME NEW k \in 1..(n + 1)
      PROVE  /\ ExitOK(more[k]) /\ more[k].at \in (mark + 1)..i
             /\ k < n + 1 => more[k].share # All
             /\ DOMAIN partials = {} => more[k].share = All
             /\ more[k].reason = "data_end" => p.force
  <2>1. CASE k = n + 1
    BY <1>2, <2>1
  <2>2. CASE k # n + 1
    <3>1. k \in 1..n /\ more[k] = exits[k] /\ (k < n \/ k = n)
      BY <1>1, <1>2, <2>2
    <3> HIDE DEF more
    <3>2. CASE k < n
      BY <3>1, <3>2 DEF Formed
    <3>3. CASE k = n
      BY <1>1, <1>3, <3>1, <3>3 DEF Formed
    <3> QED BY <3>1, <3>2, <3>3
  <2> QED BY <2>1, <2>2
<1> HIDE DEF more
<1> QED BY <1>2, <1>4, <1>5 DEF Formed, more

\* With a candle more, that adds no exit.
LEMMA FormedLater ==
  ASSUME NEW p, NEW mark \in Nat, NEW i \in Nat, NEW partials,
         NEW exits, Formed(p, mark, i - 1, partials, exits)
  PROVE  Formed(p, mark, i, partials, exits)
<1>1. \A k \in 1..Len(exits) : exits[k].at \in (mark + 1)..i
  BY DEF Formed
<1> QED BY <1>1 DEF Formed

LEMMA HitIsTarget ==
  ASSUME NEW p, PlanOK(p), NEW c, NEW partials, NEW used, NEW t,
         t = Least({x \in (IF DOMAIN partials = {} THEN {1} ELSE DOMAIN p.targets)
                          \ used : HitsTarget(p, c, x)})
  PROVE  t \in (DOMAIN p.targets) \cup {0}
<1> DEFINE S == {x \in (IF DOMAIN partials = {} THEN {1} ELSE DOMAIN p.targets)
                       \ used : HitsTarget(p, c, x)}
<1>1. 1 \in DOMAIN p.targets /\ DOMAIN p.targets \subseteq Nat \ {0}
  BY DEF PlanOK
<1>2. S \subseteq DOMAIN p.targets
  BY <1>1
<1>3. t = Least(S)
  OBVIOUS
<1> HIDE DEF S
<1> QED BY <1>1, <1>2, <1>3, LeastIsLeast

LEMMA LookAtShape ==
  ASSUME NEW p, PlanOK(p), NEW cs \in Seq(Candle), NEW mark \in Nat,
         NEW i \in (mark + 1)..Len(cs), NEW since \in Nat,
         NEW partials, PartialsOK(partials), NEW seen,
         Shape(p, cs, mark, i - 1, partials, seen.exits)
  PROVE  Shape(p, cs, mark, i, partials,
               LookAt(p, cs[i], i, since, partials, seen).exits)
<1> DEFINE t == Least({x \in (IF DOMAIN partials = {} THEN {1}
                              ELSE DOMAIN p.targets)
                             \ seen.used : HitsTarget(p, cs[i], x)})
           here == ExitsAt(p, cs[i], i, since, t, partials)
           exits == seen.exits
           after == LookAt(p, cs[i], i, since, partials, seen).exits
<1>1. i \in Nat /\ i \in 1..Len(cs) /\ mark < i /\ cs[i] \in Candle
      /\ i \in (mark + 1)..i
  OBVIOUS
<1>2. after = IF IsFinal(exits) THEN exits ELSE exits \o here
  BY DEF LookAt
<1>3. t \in (DOMAIN p.targets) \cup {0}
  BY HitIsTarget
<1>4. exits \in Seq(ExitT)
  BY DEF Shape, Formed
<1> HIDE DEF t, exits, after
<1> SUFFICES Shape(p, cs, mark, i, partials, after)
  BY DEF after
<1>5. CASE IsFinal(exits)
  <2>1. after = exits
    BY <1>2, <1>5
  <2>2. Formed(p, mark, i, partials, exits)
    BY <1>1, FormedLater DEF Shape, exits
  <2> QED BY <1>5, <2>1, <2>2 DEF Shape
<1>6. CASE ~IsFinal(exits)
  <2> HIDE DEF here
  <2>1. after = exits \o here
    BY <1>2, <1>6
  <2>2. \/ here = <<>> /\ ~HitsStop(p, cs[i])
        \/ \E x : here = <<x>> /\ x.share = All /\ x.at = i /\ WalkExit(x)
        \/ /\ t \in DOMAIN partials /\ ~HitsStop(p, cs[i])
           /\ \E x : here = <<x>> /\ x.share # All /\ x.at = i /\ WalkExit(x)
        \/ /\ t \in DOMAIN partials
           /\ \E x, y : /\ here = <<x, y>> /\ x.share # All /\ y.share = All
                        /\ x.at = i /\ y.at = i /\ WalkExit(x) /\ WalkExit(y)
    <3>1. OneLook(p, cs[i], i, partials, t, here)
      <4>1. here = ExitsAt(p, cs[i], i, since, t, partials)
        BY DEF here
      <4> QED BY <1>1, <1>3, <4>1, ExitsAtOne
    <3> QED BY <3>1 DEF OneLook
  <2>3. Formed(p, mark, i, partials, exits)
    BY <1>1, FormedLater DEF Shape, exits
  <2>4. \A j \in (mark + 1)..i : j = i \/ j \in (mark + 1)..(i - 1)
    BY <1>1
  <2>5. ~HitsStop(p, cs[i]) => \A j \in (mark + 1)..i : ~HitsStop(p, cs[j])
    BY <1>6, <2>4 DEF Shape, exits
  <2>6. t \in DOMAIN partials => DOMAIN partials # {}
    OBVIOUS
  <2>7. CASE here = <<>> /\ ~HitsStop(p, cs[i])
    <3>1. after = exits
      BY <1>4, <2>1, <2>7, ConcatEmptySeq
    <3> QED BY <2>3, <2>5, <2>7, <3>1 DEF Shape
  <2>8. CASE \E x : here = <<x>> /\ x.share = All /\ x.at = i /\ WalkExit(x)
    <3>1. PICK x : here = <<x>> /\ x.share = All /\ x.at = i /\ WalkExit(x)
      BY <2>8
    <3>2. after = Append(exits, x)
      BY <1>4, <2>1, <3>1, AppendIsConcat DEF WalkExit, ExitOK
    <3> QED BY <1>1, <1>6, <2>3, <3>1, <3>2, FormedAppend DEF WalkExit, Shape
  <2>9. CASE /\ t \in DOMAIN partials /\ ~HitsStop(p, cs[i])
             /\ \E x : here = <<x>> /\ x.share # All /\ x.at = i /\ WalkExit(x)
    <3>1. PICK x : here = <<x>> /\ x.share # All /\ x.at = i /\ WalkExit(x)
      BY <2>9
    <3>2. after = Append(exits, x)
      BY <1>4, <2>1, <3>1, AppendIsConcat DEF WalkExit, ExitOK
    <3> QED BY <1>1, <1>6, <2>3, <2>5, <2>6, <2>9, <3>1, <3>2, FormedAppend DEF WalkExit, Shape
  <2>a. CASE /\ t \in DOMAIN partials
             /\ \E x, y : /\ here = <<x, y>> /\ x.share # All /\ y.share = All
                          /\ x.at = i /\ y.at = i /\ WalkExit(x) /\ WalkExit(y)
    <3>1. PICK x, y : /\ here = <<x, y>> /\ x.share # All /\ y.share = All
                      /\ x.at = i /\ y.at = i /\ WalkExit(x) /\ WalkExit(y)
      BY <2>a
    <3>2. after = Append(Append(exits, x), y)
      <4>1. x \in ExitT /\ y \in ExitT
        BY <3>1 DEF WalkExit, ExitOK
      <4> QED BY <1>4, <2>1, <3>1, <4>1, AppendTwice
    <3>3. Formed(p, mark, i, partials, Append(exits, x)) /\ ~IsFinal(Append(exits, x))
      BY <1>1, <1>6, <2>3, <2>6, <2>a, <3>1, FormedAppend DEF WalkExit
    <3> DEFINE more == Append(exits, x)
    <3> HIDE DEF after, more
    <3>4. Formed(p, mark, i, partials, Append(more, y)) /\ IsFinal(Append(more, y))
      <4>1. /\ ExitOK(y) /\ y.at \in (mark + 1)..i /\ y.share = All
            /\ y.reason # "data_end"
        BY <1>1, <3>1 DEF WalkExit
      <4>2. Formed(p, mark, i, partials, more) /\ ~IsFinal(more)
        BY <3>3 DEF more
      <4> QED BY <1>1, <4>1, <4>2, FormedAppend
    <3> QED BY <3>2, <3>4 DEF Shape, more
  <2> QED BY <2>2, <2>7, <2>8, <2>9, <2>a
<1> QED BY <1>5, <1>6

NothingSeen == [exits |-> <<>>, used |-> {}]
Walks(p, cs, mark, last, since, partials, walk) ==
  walk = [i \in mark..last |->
            IF i = mark THEN NothingSeen
            ELSE LookAt(p, cs[i], i, since, partials, walk[i - 1])]

LEMMA WalksExist ==
  ASSUME NEW p, NEW cs, NEW mark \in Nat, NEW since, NEW partials
  PROVE  \A n \in Nat : \E walk : Walks(p, cs, mark, mark + n, since, partials, walk)
<1> DEFINE S == {n \in Nat : \E walk : Walks(p, cs, mark, mark + n, since, partials, walk)}
<1>1. 0 \in S
  <2> DEFINE w == [i \in mark..(mark + 0) |-> NothingSeen]
  <2>1. Walks(p, cs, mark, mark + 0, since, partials, w)
    BY DEF Walks
  <2> QED BY <2>1
<1>2. ASSUME NEW n \in Nat, n \in S PROVE n + 1 \in S
  <2>1. PICK f : Walks(p, cs, mark, mark + n, since, partials, f)
    BY <1>2
  <2> DEFINE last == mark + (n + 1)
             g == [i \in mark..last |->
                     IF i = last THEN LookAt(p, cs[i], i, since, partials, f[i - 1])
                     ELSE f[i]]
  <2>2. ASSUME NEW i \in mark..last
        PROVE  g[i] = IF i = mark THEN NothingSeen
                      ELSE LookAt(p, cs[i], i, since, partials, g[i - 1])
    <3>1. CASE i = last
      <4>1. i - 1 \in mark..last /\ i - 1 # last /\ i # mark
        BY <3>1
      <4>2. g[i - 1] = f[i - 1]
        BY <4>1
      <4>3. g[i] = LookAt(p, cs[i], i, since, partials, f[i - 1])
        BY <3>1
      <4> HIDE DEF g
      <4> QED BY <4>1, <4>2, <4>3
    <3>2. CASE i # last
      <4>1. i \in mark..(mark + n) /\ g[i] = f[i]
        BY <3>2
      <4>2. f[i] = IF i = mark THEN NothingSeen
                   ELSE LookAt(p, cs[i], i, since, partials, f[i - 1])
        BY <2>1, <4>1 DEF Walks
      <4>3. i # mark => i - 1 \in mark..last /\ i - 1 # last
        BY <3>2
      <4>4. i # mark => g[i - 1] = f[i - 1]
        BY <4>3
      <4> HIDE DEF g
      <4> QED BY <4>1, <4>2, <4>4
    <3> QED BY <3>1, <3>2
  <2>3. Walks(p, cs, mark, last, since, partials, g)
    <3> DEFINE r == [i \in mark..last |->
                       IF i = mark THEN NothingSeen
                       ELSE LookAt(p, cs[i], i, since, partials, g[i - 1])]
    <3>1. g = [i \in mark..last |-> g[i]]
      OBVIOUS
    <3> HIDE DEF g
    <3>2. g = r
      BY <2>2, <3>1
    <3> QED BY <3>2 DEF Walks
  <2> QED BY <2>3
<1> HIDE DEF S
<1>3. Nat \subseteq S
  BY <1>1, <1>2, SetInduction
<1> QED BY <1>3 DEF S

\* The exits of a walk that a forced close may end.
Closed(p, cs, exits) ==
  IF p.force /\ ~IsFinal(exits)
  THEN Append(exits, Exit(Len(cs), cs[Len(cs)].close, "data_end", FALSE, All))
  ELSE exits

\* The walk that makes these transitions.
WalkOf(p, cs, mark, since, partials, walk) ==
  /\ walk[mark] = NothingSeen
  /\ \A i \in (mark + 1)..Len(cs) :
       walk[i] = LookAt(p, cs[i], i, since, partials, walk[i - 1])
  /\ Transitions(p, cs, mark, since, partials)
       = Closed(p, cs, walk[Len(cs)].exits)

LEMMA TransitionsWalk ==
  ASSUME NEW p, NEW cs, Len(cs) \in Nat, NEW mark \in Nat, mark < Len(cs),
         NEW since, NEW partials
  PROVE  \E walk : WalkOf(p, cs, mark, since, partials, walk)
<1> DEFINE It(walk) == walk = [i \in mark..Len(cs) |->
                         IF i = mark THEN [exits |-> <<>>, used |-> {}]
                         ELSE LookAt(p, cs[i], i, since, partials, walk[i - 1])]
           w == CHOOSE walk : It(walk)
<1>1. Transitions(p, cs, mark, since, partials) = Closed(p, cs, w[Len(cs)].exits)
  <2>1. ~(Len(cs) <= mark)
    OBVIOUS
  <2> QED BY <2>1 DEF Transitions, Closed
<1>2. \E walk : It(walk)
  <2>1. Len(cs) - mark \in Nat /\ mark + (Len(cs) - mark) = Len(cs)
    OBVIOUS
  <2>2. \E walk : Walks(p, cs, mark, Len(cs), since, partials, walk)
    BY <2>1, WalksExist
  <2> QED BY <2>2 DEF Walks, NothingSeen
<1> HIDE DEF It
<1>3. It(w)
  BY <1>2
<1> HIDE DEF w
<1>4. mark \in mark..Len(cs) /\ \A i \in (mark + 1)..Len(cs) : i \in mark..Len(cs) /\ i # mark
  OBVIOUS
<1>5. w[mark] = NothingSeen
  BY <1>3, <1>4 DEF It, NothingSeen
<1>6. \A i \in (mark + 1)..Len(cs) :
        w[i] = LookAt(p, cs[i], i, since, partials, w[i - 1])
  BY <1>3, <1>4 DEF It
<1> QED BY <1>1, <1>5, <1>6 DEF WalkOf

LEMMA TransitionsShape ==
  ASSUME NEW p, PlanOK(p), NEW cs \in Seq(Candle), NEW mark \in Nat,
         NEW since \in Nat, NEW partials, PartialsOK(partials)
  PROVE  Shape(p, cs, mark, Len(cs), partials,
               Transitions(p, cs, mark, since, partials))
<1> DEFINE n == Len(cs)
           exits == Transitions(p, cs, mark, since, partials)
<1>1. n \in Nat
  OBVIOUS
<1>2. Formed(p, mark, mark, partials, <<>>)
  BY DEF Formed
<1>3. CASE n <= mark
  <2>1. exits = <<>>
    BY <1>3 DEF Transitions
  <2>2. (mark + 1)..n = {}
    BY <1>1, <1>3
  <2> QED BY <2>1, <2>2 DEF Shape, Formed
<1>4. CASE mark < n
  <2>0. Len(cs) \in Nat /\ mark < Len(cs)
    BY <1>1, <1>4
  <2>1. PICK w : /\ w[mark] = NothingSeen
                 /\ \A i \in (mark + 1)..n :
                      w[i] = LookAt(p, cs[i], i, since, partials, w[i - 1])
                 /\ exits = Closed(p, cs, w[n].exits)
    <3>1. PICK w : WalkOf(p, cs, mark, since, partials, w)
      BY <2>0, TransitionsWalk
    <3> QED BY <3>1 DEF WalkOf
  <2> DEFINE S == {k \in Nat : mark + k <= n =>
                     Shape(p, cs, mark, mark + k, partials, w[mark + k].exits)}
  <2>2. 0 \in S
    <3>1. w[mark].exits = <<>> /\ mark + 0 = mark
      BY <2>1 DEF NothingSeen
    <3>2. (mark + 1)..mark = {}
      OBVIOUS
    <3>3. Shape(p, cs, mark, mark, partials, <<>>)
      BY <1>2, <3>2 DEF Shape
    <3> QED BY <3>1, <3>3
  <2>3. ASSUME NEW k \in Nat, k \in S PROVE k + 1 \in S
    <3> DEFINE i == mark + (k + 1)
    <3> SUFFICES ASSUME i <= n PROVE Shape(p, cs, mark, i, partials, w[i].exits)
      OBVIOUS
    <3>1. i \in (mark + 1)..n /\ i - 1 = mark + k /\ mark + k <= n
      BY <1>1
    <3>2. Shape(p, cs, mark, i - 1, partials, w[i - 1].exits)
      BY <2>3, <3>1
    <3>3. w[i] = LookAt(p, cs[i], i, since, partials, w[i - 1])
      BY <2>1, <3>1
    <3> HIDE DEF i
    <3> QED BY <3>1, <3>2, <3>3, LookAtShape
  <2> HIDE DEF S
  <2>4. Nat \subseteq S
    BY <2>2, <2>3, SetInduction
  <2>5. n - mark \in Nat /\ mark + (n - mark) = n
    BY <1>1, <1>4
  <2>6. Shape(p, cs, mark, n, partials, w[n].exits)
    <3> DEFINE k == n - mark
    <3>1. k \in Nat /\ mark + k = n /\ mark + k <= n
      BY <1>1, <2>5
    <3> HIDE DEF k
    <3>2. k \in S
      BY <2>4, <3>1
    <3> HIDE DEF n
    <3> QED BY <3>1, <3>2 DEF S
  <2>7. CASE p.force /\ ~IsFinal(w[n].exits)
    <3> DEFINE x == Exit(n, cs[n].close, "data_end", FALSE, All)
    <3>1. cs[n].close \in Int
      <4>1. n \in 1..Len(cs)
        BY <1>1, <1>4
      <4>2. cs[n] \in Candle
        BY <4>1
      <4> QED BY <4>2 DEF Candle
    <3>2. ExitOK(x) /\ x.at = n /\ x.share = All
      BY <1>1, <3>1 DEF ExitOK, ExitT, Exit, Reasons, All
    <3>3. exits = Append(w[n].exits, x)
      BY <2>1, <2>7 DEF Closed
    <3>4. n \in (mark + 1)..n
      BY <1>1, <1>4
    <3> HIDE DEF x, exits, n
    <3> QED BY <1>1, <2>6, <2>7, <3>2, <3>3, <3>4, FormedAppend DEF Shape, exits, n
  <2>8. CASE ~(p.force /\ ~IsFinal(w[n].exits))
    BY <2>1, <2>6, <2>8 DEF Closed
  <2> QED BY <2>7, <2>8
<1> QED BY <1>1, <1>3, <1>4

-----------------------------------------------------------------------------
(***************************************************************************)
(* Positions and ledgers.                                                  *)
(***************************************************************************)
CloseReasons == Reasons \cup {"manual_close"}

\* A position that entered at one of the first n candles.
Held(pos, n) ==
  /\ pos \in [status : {"open", "partially_closed", "closed"}, opened : Nat \ {0},
              remaining : Nat, price : Int, since : 1..n, pnl : Int,
              closed : CloseReasons \cup {"none"}]
  /\ pos.remaining <= pos.opened
  /\ pos.status = "closed" <=> pos.remaining = 0
  /\ pos.status = "closed" <=> pos.closed # "none"
PositionOK(pos, n) == pos = NoPosition \/ Held(pos, n)

Types == {"position_opened", "exit_hit", "data_end_reached", "position_closed",
          "position_partially_closed", "simulation_completed", "simulation_failed",
          "setup_expired", "simulation_cancelled"}
Codes == CloseReasons \cup {"entry_filled", "ambiguous_intrabar", "missing_ohlcv",
          "engine_failure", "entry_missed", "setup_expiry", "data_end_reached",
          "manual_cancel", "manual_abandon"}
EventT == [type : Types, at : Nat, price : Int, quantity : Nat, reason : Codes]

EventOK(e, n) ==
  /\ e \in EventT
  /\ e.type = "position_opened" => e.at \in 1..n /\ e.quantity # 0
  /\ Sells(e) => e.reason \in CloseReasons \cup {"ambiguous_intrabar"}
LedgerOK(events, n) ==
  events \in Seq(EventT) /\ \A i \in 1..Len(events) : EventOK(events[i], n)

LEMMA HeldIsPosition == ASSUME NEW pos, NEW n, Held(pos, n) PROVE pos # NoPosition
<1>1. pos.status \in {"open", "partially_closed", "closed"}
  BY DEF Held
<1>2. NoPosition.status = "none"
  BY DEF NoPosition
<1> QED BY <1>1, <1>2

LEMMA OpenIsHeld ==
  ASSUME NEW price \in Int, NEW quantity \in Nat \ {0}, NEW n \in Nat, NEW at \in 1..n
  PROVE  Held(OpenPosition(price, quantity, at), n)
BY DEF Held, OpenPosition, CloseReasons

LEMMA PnlIsInt ==
  ASSUME NEW p, NEW n, NEW pos, Held(pos, n), NEW price \in Int, NEW quantity \in Nat
  PROVE  RealizedPnl(p, pos, price, quantity) \in Int
<1>1. pos.price \in Int
  BY DEF Held
<1>2. \A x, y \in Int : x * y \in Int
  OBVIOUS
<1>3. (IF Short(p) THEN pos.price - price ELSE price - pos.price) \in Int
  BY <1>1
<1> QED BY <1>2, <1>3 DEF RealizedPnl

LEMMA SellableInRange ==
  ASSUME NEW n, NEW pos, Held(pos, n), NEW quantity \in Nat
  PROVE  Sellable(pos, quantity) \in 0..pos.remaining
BY DEF Held, Sellable

LEMMA SoldIsNat == ASSUME NEW events \in Seq(EventT) PROVE Sold(events) \in Nat
<1> DEFINE m == Len(events)
<1>1. m \in Nat /\ DOMAIN events = 1..m
  OBVIOUS
<1>2. PICK h : Steps("sold", 0, 0, events, m, h) /\ Sold(events) = h[m]
  BY <1>1, SoldSteps
<1> DEFINE S == {k \in Nat : k <= m => h[k] \in Nat}
<1>3. 0 \in S
  BY <1>2 DEF Steps
<1>4. ASSUME NEW k \in Nat, k \in S PROVE k + 1 \in S
  <2> SUFFICES ASSUME k + 1 <= m PROVE h[k + 1] \in Nat
    OBVIOUS
  <2>1. k + 1 \in 1..m /\ (k + 1) - 1 = k /\ h[k] \in Nat
    BY <1>1, <1>4
  <2>2. h[k + 1] = SoldStep(h[k], events[k + 1])
    BY <1>2, <2>1 DEF Steps, Step
  <2>3. events[k + 1].quantity \in Nat
    <3>1. events[k + 1] \in EventT
      BY <2>1
    <3> QED BY <3>1 DEF EventT
  <2> QED BY <2>1, <2>2, <2>3 DEF SoldStep
<1> HIDE DEF S
<1>5. Nat \subseteq S
  BY <1>3, <1>4, SetInduction
<1>6. m \in S
  BY <1>1, <1>5
<1> QED BY <1>1, <1>2, <1>6 DEF S

\* What closing makes of a position, and what selling q of it does.
Shut(pos, new, n, reason) ==
  /\ Held(new, n)
  /\ new.status = "closed" /\ new.closed = reason /\ new.remaining = 0
  /\ new.since = pos.since /\ new.opened = pos.opened
Reduced(pos, new, n, q) ==
  /\ Held(new, n)
  /\ new.status \in {"partially_closed", "closed"}
  /\ new.remaining = pos.remaining - q
  /\ new.since = pos.since /\ new.opened = pos.opened

LEMMA CloseIsHeld ==
  ASSUME NEW p, NEW n, NEW pos, Held(pos, n), NEW price \in Int,
         NEW quantity \in Nat, NEW reason \in CloseReasons,
         NEW new, new = ClosePosition(p, pos, price, quantity, reason)
  PROVE  Shut(pos, new, n, reason)
<1> DEFINE gain == RealizedPnl(p, pos, price, Sellable(pos, quantity))
<1>1. gain \in Int
  <2>1. Sellable(pos, quantity) \in Nat
    BY SellableInRange
  <2> QED BY <2>1, PnlIsInt
<1> HIDE DEF gain
<1>2. ClosePosition(p, pos, price, quantity, reason)
        = [pos EXCEPT !.status = "closed", !.remaining = 0, !.pnl = @ + gain,
                      !.closed = reason]
  BY DEF ClosePosition, gain
<1>3. reason # "none"
  BY DEF CloseReasons, Reasons
<1> DEFINE after == [pos EXCEPT !.status = "closed", !.remaining = 0,
                                !.pnl = @ + gain, !.closed = reason]
<1>4. pos \in [status : {"open", "partially_closed", "closed"}, opened : Nat \ {0},
               remaining : Nat, price : Int, since : 1..n, pnl : Int,
               closed : CloseReasons \cup {"none"}]
  BY DEF Held
<1>5. pos.pnl + gain \in Int
  BY <1>1, <1>4
<1>6. /\ after \in [status : {"open", "partially_closed", "closed"},
                    opened : Nat \ {0}, remaining : Nat, price : Int, since : 1..n,
                    pnl : Int, closed : CloseReasons \cup {"none"}]
      /\ after.status = "closed" /\ after.remaining = 0 /\ after.closed = reason
      /\ after.since = pos.since /\ after.opened = pos.opened
  BY <1>4, <1>5
<1> HIDE DEF after
<1>7. Held(after, n)
  BY <1>3, <1>6 DEF Held
<1> QED BY <1>2, <1>6, <1>7 DEF after, Shut

LEMMA ReduceIsHeld ==
  ASSUME NEW p, NEW n, NEW pos, Held(pos, n), NEW price \in Int,
         NEW quantity \in Nat, NEW reason \in CloseReasons,
         NEW new, new = ReducePosition(p, pos, price, quantity, reason)
  PROVE  Reduced(pos, new, n, Sellable(pos, quantity))
<1> DEFINE sold == Sellable(pos, quantity)
           gain == RealizedPnl(p, pos, price, sold)
           left == pos.remaining - sold
<1>1. sold \in 0..pos.remaining /\ pos.remaining \in Nat
  BY SellableInRange DEF Held
<1>2. gain \in Int
  BY <1>1, PnlIsInt
<1>3. ReducePosition(p, pos, price, quantity, reason)
        = [pos EXCEPT !.status = IF left > 0 THEN "partially_closed" ELSE "closed",
                      !.remaining = left, !.pnl = @ + gain,
                      !.closed = IF left > 0 THEN "none" ELSE reason]
  BY DEF ReducePosition
<1>4. left \in 0..pos.remaining
  BY <1>1
<1>5. reason # "none"
  BY DEF CloseReasons, Reasons
<1> HIDE DEF gain, left
<1> DEFINE after == [pos EXCEPT
             !.status = IF left > 0 THEN "partially_closed" ELSE "closed",
             !.remaining = left, !.pnl = @ + gain,
             !.closed = IF left > 0 THEN "none" ELSE reason]
<1>6. pos \in [status : {"open", "partially_closed", "closed"}, opened : Nat \ {0},
               remaining : Nat, price : Int, since : 1..n, pnl : Int,
               closed : CloseReasons \cup {"none"}]
  BY DEF Held
<1>7. pos.pnl + gain \in Int /\ left \in Nat /\ left <= pos.opened
  BY <1>2, <1>4, <1>6 DEF Held
<1>8. /\ after \in [status : {"open", "partially_closed", "closed"},
                    opened : Nat \ {0}, remaining : Nat, price : Int, since : 1..n,
                    pnl : Int, closed : CloseReasons \cup {"none"}]
      /\ after.status = IF left > 0 THEN "partially_closed" ELSE "closed"
      /\ after.remaining = left /\ after.closed = IF left > 0 THEN "none" ELSE reason
      /\ after.since = pos.since /\ after.opened = pos.opened
  BY <1>6, <1>7
<1> HIDE DEF after
<1>9. Held(after, n)
  BY <1>5, <1>7, <1>8 DEF Held
<1> QED BY <1>3, <1>8, <1>9 DEF after, left, Reduced

LEMMA RebuildStepOK ==
  ASSUME NEW p, NEW n \in Nat, NEW pos, PositionOK(pos, n), NEW e, EventOK(e, n)
  PROVE  PositionOK(RebuildStep(p, pos, e), n)
<1>1. CASE e.type = "position_opened"
  BY <1>1, OpenIsHeld DEF RebuildStep, EventOK, EventT, PositionOK
<1>2. CASE Sells(e) /\ pos # NoPosition
  <2>1. e.price \in Int /\ e.quantity \in Nat
    BY DEF EventOK, EventT
  <2>2. CloseReason(e) \in CloseReasons
    BY <1>2 DEF EventOK, CloseReason, CloseReasons, Reasons
  <2>3. Held(pos, n)
    BY <1>2 DEF PositionOK
  <2>4. CASE e.type = "position_closed"
    <3>1. RebuildStep(p, pos, e)
            = ClosePosition(p, pos, e.price, e.quantity, CloseReason(e))
      BY <1>2, <2>4 DEF RebuildStep
    <3> QED BY <2>1, <2>2, <2>3, <3>1, CloseIsHeld DEF PositionOK, Shut
  <2>5. CASE e.type = "position_partially_closed"
    <3>1. RebuildStep(p, pos, e)
            = ReducePosition(p, pos, e.price, e.quantity, CloseReason(e))
      BY <1>2, <2>5 DEF RebuildStep
    <3> QED BY <2>1, <2>2, <2>3, <3>1, ReduceIsHeld DEF PositionOK, Reduced
  <2> QED BY <1>2, <2>4, <2>5 DEF Sells
<1>3. CASE e.type # "position_opened" /\ ~(Sells(e) /\ pos # NoPosition)
  BY <1>3 DEF RebuildStep, Sells
<1> QED BY <1>1, <1>2, <1>3

\* A ledger of sound entries rebuilds a sound position.
LEMMA RebuildOK ==
  ASSUME NEW p, NEW n \in Nat, NEW events, LedgerOK(events, n)
  PROVE  PositionOK(Rebuild(p, events), n)
<1> DEFINE m == Len(events)
<1>1. m \in Nat /\ DOMAIN events = 1..m
  BY DEF LedgerOK
<1>2. PICK h : Steps("rebuild", p, NoPosition, events, m, h) /\ Rebuild(p, events) = h[m]
  BY <1>1, RebuildSteps
<1> DEFINE S == {k \in Nat : k <= m => PositionOK(h[k], n)}
<1>3. 0 \in S
  BY <1>2 DEF Steps, PositionOK
<1>4. ASSUME NEW k \in Nat, k \in S PROVE k + 1 \in S
  <2> SUFFICES ASSUME k + 1 <= m PROVE PositionOK(h[k + 1], n)
    OBVIOUS
  <2>1. k + 1 \in 1..m /\ (k + 1) - 1 = k /\ k <= m
    BY <1>1
  <2>2. h[k + 1] = RebuildStep(p, h[k], events[k + 1])
    BY <1>2, <2>1 DEF Steps, Step
  <2>3. PositionOK(h[k], n) /\ EventOK(events[k + 1], n)
    BY <1>4, <2>1 DEF LedgerOK
  <2> QED BY <2>2, <2>3, RebuildStepOK
<1> HIDE DEF S
<1>5. Nat \subseteq S
  BY <1>3, <1>4, SetInduction
<1>6. m \in S
  BY <1>1, <1>5
<1> QED BY <1>1, <1>2, <1>6 DEF S

LEMMA ExitQuantityInRange ==
  ASSUME NEW n, NEW pos, Held(pos, n), NEW x, x.share \in 1..All
  PROVE  /\ ExitQuantity(pos, x) \in 0..pos.remaining
         /\ x.share = All => ExitQuantity(pos, x) = pos.remaining
         /\ Sellable(pos, ExitQuantity(pos, x)) = ExitQuantity(pos, x)
<1> DEFINE r == pos.remaining
<1>1. r \in Nat
  BY DEF Held
<1>2. x.share \in 1..10
  BY DEF All
<1> DEFINE q == IF x.share = 10 THEN r ELSE (r * x.share * 2 + 10) \div 20
<1>3. ExitQuantity(pos, x) = q
  BY DEF ExitQuantity, All
<1>4. q \in 0..r
  <2> HIDE DEF r
  <2>1. \/ x.share = 1 \/ x.share = 2 \/ x.share = 3 \/ x.share = 4 \/ x.share = 5
        \/ x.share = 6 \/ x.share = 7 \/ x.share = 8 \/ x.share = 9 \/ x.share = 10
    BY <1>2
  <2> QED BY <1>1, <2>1
<1> HIDE DEF r
<1> QED BY <1>1, <1>3, <1>4 DEF r, Sellable, All

-----------------------------------------------------------------------------
(***************************************************************************)
(* Exits applied to a position, and the same exits found in the ledger.    *)
(***************************************************************************)
\* The entries of a partial exit.
Partly(e) == e.type \in {"exit_hit", "position_partially_closed"} /\ e.reason = "target"

\* s is what some exits made of the position pos, which the ledger L holds.
Matches(p, L, pos, n, s) ==
  /\ Held(s.pos, n) /\ s.pos.since = pos.since /\ s.pos.opened = pos.opened
  /\ LedgerOK(s.events, n)
  /\ Rebuild(p, L) = pos => Rebuild(p, L \o s.events) = s.pos
  /\ Sold(L \o s.events) + s.pos.remaining = Sold(L) + pos.remaining

\* The two entries of an exit.
Hit(x, q) == Event(IF x.reason = "data_end" THEN "data_end_reached" ELSE "exit_hit",
                   x.at, x.price, q, Code(x))
Trade(x, q) == Event(IF x.share = All THEN "position_closed"
                     ELSE "position_partially_closed", x.at, x.price, q, Code(x))

LEMMA EntriesOK ==
  ASSUME NEW x, ExitOK(x), NEW q \in Nat, NEW n
  PROVE  /\ EventOK(Hit(x, q), n) /\ EventOK(Trade(x, q), n)
         /\ CloseReason(Trade(x, q)) = x.reason
         /\ x.share # All => Partly(Hit(x, q)) /\ Partly(Trade(x, q))
<1>1. /\ x.at \in Nat /\ x.price \in Int /\ x.reason \in Reasons
      /\ x.ambiguous \in BOOLEAN
      /\ x.ambiguous => x.reason = "stop"
      /\ x.share # All => x.reason = "target" /\ ~x.ambiguous
  BY DEF ExitOK, ExitT
<1>2. Code(x) \in Codes /\ Code(x) \in CloseReasons \cup {"ambiguous_intrabar"}
  BY <1>1 DEF Code, Codes, CloseReasons
<1>3. Hit(x, q) \in EventT /\ Hit(x, q).type \in {"data_end_reached", "exit_hit"}
  BY <1>1, <1>2 DEF Hit, Event, EventT, Types
<1>4. /\ Trade(x, q) \in EventT /\ Trade(x, q).reason = Code(x)
      /\ Trade(x, q).type \in {"position_closed", "position_partially_closed"}
  BY <1>1, <1>2 DEF Trade, Event, EventT, Types
<1>5. CloseReason(Trade(x, q)) = x.reason
  BY <1>1, <1>4 DEF CloseReason, Code, Reasons
<1>6. x.share # All => Partly(Hit(x, q)) /\ Partly(Trade(x, q))
  BY <1>1 DEF Partly, Hit, Trade, Event, Code
<1> QED BY <1>2, <1>3, <1>4, <1>5, <1>6 DEF EventOK, Sells

Left(pos, new, n, x, q) ==
  /\ Held(new, n) /\ new.since = pos.since /\ new.opened = pos.opened
  /\ new.remaining = pos.remaining - q
  /\ IF x.share = All
     THEN new.status = "closed" /\ new.closed = x.reason
     ELSE new.status \in {"partially_closed", "closed"}

LEMMA ExitIsHeld ==
  ASSUME NEW p, NEW n, NEW pos, Held(pos, n), NEW x, ExitOK(x), NEW q,
         q = ExitQuantity(pos, x), NEW new,
         new = IF x.share = All THEN ClosePosition(p, pos, x.price, q, x.reason)
               ELSE ReducePosition(p, pos, x.price, q, x.reason)
  PROVE  Left(pos, new, n, x, q)
<1> DEFINE price == x.price
           reason == x.reason
<1>1. x.share \in 1..All /\ price \in Int /\ reason \in CloseReasons
  BY DEF ExitOK, ExitT, CloseReasons
<1>2. /\ q \in 0..pos.remaining /\ pos.remaining \in Nat
      /\ x.share = All => q = pos.remaining
      /\ Sellable(pos, q) = q
  BY <1>1, ExitQuantityInRange DEF Held
<1>3. q \in Nat
  BY <1>2
<1> HIDE DEF price, reason
<1>4. CASE x.share = All
  <2>1. new = ClosePosition(p, pos, price, q, reason)
    BY <1>4 DEF price, reason
  <2>2. Shut(pos, new, n, reason)
    BY <1>1, <1>3, <2>1, CloseIsHeld
  <2> QED BY <1>2, <1>4, <2>2 DEF reason, Shut, Left
<1>5. CASE x.share # All
  <2>1. new = ReducePosition(p, pos, price, q, reason)
    BY <1>5 DEF price, reason
  <2>2. Reduced(pos, new, n, Sellable(pos, q))
    BY <1>1, <1>3, <2>1, ReduceIsHeld
  <2> QED BY <1>2, <1>5, <2>2 DEF reason, Reduced, Left
<1> QED BY <1>4, <1>5

\* after is what one exit makes of s.
AppliedOne(p, L, pos, n, s, x, after) ==
  /\ Matches(p, L, pos, n, after)
  /\ ExitQuantity(s.pos, x) \in Nat
  /\ after.events = Append(Append(s.events, Hit(x, ExitQuantity(s.pos, x))),
                           Trade(x, ExitQuantity(s.pos, x)))
  /\ IF x.share = All
     THEN after.pos.status = "closed" /\ after.pos.closed = x.reason
     ELSE after.pos.status \in {"partially_closed", "closed"}

LEMMA ApplyMatches ==
  ASSUME NEW p, NEW n \in Nat, NEW L \in Seq(EventT), NEW pos, Held(pos, n), NEW s,
         Matches(p, L, pos, n, s), NEW x, ExitOK(x)
  PROVE  AppliedOne(p, L, pos, n, s, x, Apply(p, s, x))
<1> DEFINE after == Apply(p, s, x)
           q == ExitQuantity(s.pos, x)
           hit == Hit(x, q)
           trade == Trade(x, q)
           E == s.events
<1>1. Held(s.pos, n) /\ E \in Seq(EventT) /\ LedgerOK(E, n)
  BY DEF Matches, LedgerOK
<1>2. /\ x.share \in 1..All /\ x.price \in Int /\ x.reason \in CloseReasons
  BY DEF ExitOK, ExitT, CloseReasons
<1>3. /\ q \in 0..s.pos.remaining /\ s.pos.remaining \in Nat
      /\ x.share = All => q = s.pos.remaining
      /\ Sellable(s.pos, q) = q
  BY <1>1, <1>2, ExitQuantityInRange DEF Held
<1>4. q \in Nat
  BY <1>3
<1> HIDE DEF q
<1>5. /\ EventOK(hit, n) /\ EventOK(trade, n) /\ hit \in EventT /\ trade \in EventT
      /\ CloseReason(trade) = x.reason
  BY <1>4, EntriesOK DEF EventOK
<1>6. after = [pos |-> IF x.share = All
                       THEN ClosePosition(p, s.pos, x.price, q, x.reason)
                       ELSE ReducePosition(p, s.pos, x.price, q, x.reason),
               events |-> E \o <<hit, trade>>]
  BY DEF Apply, Hit, Trade, q
<1>7. /\ hit.type \in {"data_end_reached", "exit_hit"}
      /\ trade.type = IF x.share = All THEN "position_closed"
                      ELSE "position_partially_closed"
      /\ trade.price = x.price /\ trade.quantity = q
  BY DEF Hit, Trade, Event
<1> HIDE DEF after, hit, trade, E
<1>8. after.events = Append(Append(E, hit), trade)
  BY <1>1, <1>5, <1>6, AppendTwice
<1>9. L \o after.events = Append(Append(L \o E, hit), trade)
  <2>1. <<hit, trade>> \in Seq(EventT) /\ L \o E \in Seq(EventT)
    BY <1>1, <1>5
  <2>2. L \o (E \o <<hit, trade>>) = (L \o E) \o <<hit, trade>>
    BY <1>1, <2>1, ConcatAssociative
  <2>3. after.events = E \o <<hit, trade>>
    BY <1>6
  <2>4. (L \o E) \o <<hit, trade>> = Append(Append(L \o E, hit), trade)
    <3>1. PICK K \in Seq(EventT) : K = L \o E
      BY <2>1
    <3>2. K \o <<hit, trade>> = Append(Append(K, hit), trade)
      BY <1>5, AppendTwice
    <3> QED BY <3>1, <3>2
  <2> QED BY <2>2, <2>3, <2>4
<1>10. L \o E \in Seq(EventT) /\ Append(L \o E, hit) \in Seq(EventT)
  BY <1>1, <1>5
<1>11. /\ s.pos # NoPosition
       /\ Rebuild(p, L) = pos => Rebuild(p, L \o E) = s.pos
  BY <1>1, HeldIsPosition DEF Matches, E
<1>12. ASSUME Rebuild(p, L) = pos PROVE Rebuild(p, L \o after.events) = after.pos
  <2>1. Rebuild(p, Append(L \o E, hit)) = s.pos
    <3>1. Rebuild(p, Append(L \o E, hit)) = RebuildStep(p, Rebuild(p, L \o E), hit)
      BY <1>5, <1>10, RebuildAppend
    <3> QED BY <1>7, <1>11, <1>12, <3>1 DEF RebuildStep
  <2>2. Rebuild(p, L \o after.events) = RebuildStep(p, s.pos, trade)
    <3>1. Rebuild(p, Append(Append(L \o E, hit), trade))
            = RebuildStep(p, Rebuild(p, Append(L \o E, hit)), trade)
      BY <1>5, <1>10, RebuildAppend
    <3> QED BY <1>9, <2>1, <3>1
  <2>3. RebuildStep(p, s.pos, trade) = after.pos
    BY <1>5, <1>6, <1>7, <1>11 DEF RebuildStep
  <2> QED BY <2>2, <2>3
<1>13. Sold(L \o after.events) = Sold(L \o E) + q
  <2>1. Sold(Append(L \o E, hit)) = Sold(L \o E)
    BY <1>5, <1>7, <1>10, SoldAppend DEF SoldStep, Sells
  <2>2. Sold(L \o after.events) = SoldStep(Sold(L \o E), trade)
    BY <1>5, <1>9, <1>10, <2>1, SoldAppend
  <2> QED BY <1>7, <2>2 DEF SoldStep, Sells
<1>14. /\ Held(after.pos, n)
       /\ after.pos.since = s.pos.since /\ after.pos.opened = s.pos.opened
       /\ after.pos.remaining = s.pos.remaining - q
       /\ IF x.share = All
          THEN after.pos.status = "closed" /\ after.pos.closed = x.reason
          ELSE after.pos.status \in {"partially_closed", "closed"}
  <2>1. after.pos = IF x.share = All
                    THEN ClosePosition(p, s.pos, x.price, q, x.reason)
                    ELSE ReducePosition(p, s.pos, x.price, q, x.reason)
    BY <1>6
  <2>2. Left(s.pos, after.pos, n, x, q)
    BY <1>1, <2>1, ExitIsHeld DEF q
  <2> QED BY <2>2 DEF Left
<1>15. LedgerOK(after.events, n)
  <2>1. Append(E, hit) \in Seq(EventT) /\ after.events \in Seq(EventT)
    BY <1>1, <1>5, <1>8
  <2>2. Len(after.events) = Len(E) + 2 /\ Len(E) \in Nat
    BY <1>1, <1>5, <1>8
  <2>3. ASSUME NEW i \in 1..Len(after.events) PROVE EventOK(after.events[i], n)
    <3>1. CASE i = Len(E) + 2
      <4>1. after.events[i] = trade
        BY <1>1, <1>5, <1>8, <2>1, <2>2, <3>1
      <4> QED BY <1>5, <4>1
    <3>2. CASE i = Len(E) + 1
      <4>1. after.events[i] = hit
        BY <1>1, <1>5, <1>8, <2>1, <2>2, <3>2
      <4> QED BY <1>5, <4>1
    <3>3. CASE i \in 1..Len(E)
      <4>1. after.events[i] = E[i]
        BY <1>1, <1>5, <1>8, <2>1, <2>2, <3>3
      <4> QED BY <1>1, <3>3, <4>1 DEF LedgerOK
    <3> QED BY <2>2, <3>1, <3>2, <3>3
  <2> QED BY <2>1, <2>3 DEF LedgerOK
<1>16. Matches(p, L, pos, n, after)
  <2>1. /\ s.pos.since = pos.since /\ s.pos.opened = pos.opened
        /\ Sold(L \o E) + s.pos.remaining = Sold(L) + pos.remaining
    BY DEF Matches, E
  <2>0. Sold(L \o E) \in Nat
    BY <1>10, SoldIsNat
  <2>2. Sold(L \o E) + q + (s.pos.remaining - q) = Sold(L \o E) + s.pos.remaining
    BY <1>3, <1>4, <2>0
  <2> QED BY <1>4, <1>12, <1>13, <1>14, <1>15, <2>1, <2>2 DEF Matches
<1> QED BY <1>4, <1>8, <1>14, <1>16 DEF after, q, hit, trade, E, AppliedOne

AllPartly(E) == E \in Seq(EventT) /\ \A i \in 1..Len(E) : Partly(E[i])
Finished(s, x) ==
  /\ s.pos.status = "closed" /\ s.pos.closed = x.reason
  /\ \E E, q : /\ AllPartly(E) /\ q \in Nat
               /\ s.events = Append(Append(E, Hit(x, q)), Trade(x, q))

\* s is what the exits made of a position.
AppliedTo(p, L, pos, n, exits, s) ==
  /\ Matches(p, L, pos, n, s)
  /\ exits = <<>> => s = [pos |-> pos, events |-> <<>>]
  /\ exits # <<>> => s.pos.status \in {"partially_closed", "closed"}
  /\ IF IsFinal(exits) THEN Finished(s, exits[Len(exits)]) ELSE AllPartly(s.events)

LEMMA PartlyAppend ==
  ASSUME NEW E, AllPartly(E), NEW a \in EventT, Partly(a)
  PROVE  AllPartly(Append(E, a))
<1>1. /\ Append(E, a) \in Seq(EventT) /\ Len(Append(E, a)) = Len(E) + 1
      /\ Len(E) \in Nat
  BY DEF AllPartly
<1>2. ASSUME NEW i \in 1..(Len(E) + 1) PROVE Partly(Append(E, a)[i])
  <2>1. CASE i = Len(E) + 1
    <3>1. Append(E, a)[i] = a
      BY <1>1, <2>1 DEF AllPartly
    <3> QED BY <3>1
  <2>2. CASE i # Len(E) + 1
    <3>1. i \in 1..Len(E) /\ Append(E, a)[i] = E[i]
      BY <1>1, <2>2 DEF AllPartly
    <3> QED BY <3>1 DEF AllPartly
  <2> QED BY <2>1, <2>2
<1> QED BY <1>1, <1>2 DEF AllPartly

LEMMA AppliedMatches ==
  ASSUME NEW p, NEW n \in Nat, NEW L \in Seq(EventT), NEW pos, Held(pos, n),
         NEW exits, NEW mark, NEW last, NEW partials,
         Formed(p, mark, last, partials, exits)
  PROVE  AppliedTo(p, L, pos, n, exits, Applied(p, pos, exits))
<1> DEFINE m == Len(exits)
           base == [pos |-> pos, events |-> <<>>]
<1>1. m \in Nat /\ DOMAIN exits = 1..m
  BY DEF Formed
<1>2. PICK h : Steps("apply", p, base, exits, m, h) /\ Applied(p, pos, exits) = h[m]
  BY <1>1, AppliedSteps
<1> DEFINE Midway(k) ==
             /\ Matches(p, L, pos, n, h[k])
             /\ k = 0 => h[k] = base
             /\ k # 0 => h[k].pos.status \in {"partially_closed", "closed"}
             /\ IF k # 0 /\ exits[k].share = All THEN Finished(h[k], exits[k])
                ELSE AllPartly(h[k].events)
           S == {k \in Nat : k <= m => Midway(k)}
<1>3. 0 \in S
  <2>1. h[0] = base
    BY <1>2 DEF Steps
  <2>2. L \o <<>> = L
    BY ConcatEmptySeq
  <2>3. Matches(p, L, pos, n, base)
    BY <2>2 DEF Matches, LedgerOK
  <2>4. AllPartly(base.events)
    BY DEF AllPartly
  <2> HIDE DEF base
  <2> QED BY <2>1, <2>3, <2>4
<1>4. ASSUME NEW k \in Nat, k \in S PROVE k + 1 \in S
  <2> DEFINE j == k + 1
  <2> SUFFICES ASSUME j <= m PROVE Midway(j)
    OBVIOUS
  <2> DEFINE x == exits[j]
             q == ExitQuantity(h[k].pos, x)
             E == h[k].events
  <2>1. j \in 1..m /\ j - 1 = k /\ k <= m /\ k < m /\ j # 0 /\ (k # 0 => k \in 1..m)
    BY <1>1
  <2>2. h[j] = Apply(p, h[k], x)
    BY <1>2, <2>1 DEF Steps, Step
  <2>3. ExitOK(x)
    BY <2>1 DEF Formed
  <2>4. Matches(p, L, pos, n, h[k]) /\ AllPartly(E)
    <3>1. k # 0 => exits[k].share # All
      BY <2>1 DEF Formed
    <3> QED BY <1>4, <2>1, <3>1
  <2> HIDE DEF x, j
  <2>5. AppliedOne(p, L, pos, n, h[k], x, h[j])
    BY <2>2, <2>3, <2>4, ApplyMatches
  <2>6. /\ EventOK(Hit(x, q), n) /\ EventOK(Trade(x, q), n)
        /\ x.share # All => Partly(Hit(x, q)) /\ Partly(Trade(x, q))
    BY <2>3, <2>5, EntriesOK DEF AppliedOne
  <2>7. CASE x.share = All
    <3>1. Finished(h[j], x)
      BY <2>4, <2>5, <2>7 DEF AppliedOne, Finished
    <3> QED BY <2>1, <2>5, <2>7, <3>1 DEF AppliedOne, x
  <2>8. CASE x.share # All
    <3> HIDE DEF q, E
    <3>1. AllPartly(Append(E, Hit(x, q)))
      BY <2>4, <2>6, <2>8, PartlyAppend DEF EventOK
    <3>2. AllPartly(Append(Append(E, Hit(x, q)), Trade(x, q)))
      BY <2>6, <2>8, <3>1, PartlyAppend DEF EventOK
    <3>3. AllPartly(h[j].events)
      BY <2>5, <3>2 DEF AppliedOne, q, E
    <3> QED BY <2>1, <2>5, <2>8, <3>3 DEF AppliedOne, x
  <2> QED BY <2>7, <2>8
<1> HIDE DEF S
<1>5. Nat \subseteq S
  BY <1>3, <1>4, SetInduction
<1>6. Midway(m)
  BY <1>1, <1>5 DEF S
<1>7. /\ exits = <<>> <=> m = 0
      /\ IsFinal(exits) <=> m # 0 /\ exits[m].share = All
  BY <1>1 DEF IsFinal, Formed
<1> HIDE DEF m
<1> QED BY <1>2, <1>6, <1>7 DEF AppliedTo, m

-----------------------------------------------------------------------------
(***************************************************************************)
(* Entries.                                                                *)
(***************************************************************************)
EntryAt(e, n) == e = NoEntry \/ (e.at \in 1..n /\ e.price \in Int)

LEMMA FindEntryOK ==
  ASSUME NEW p, PlanOK(p), NEW cs \in Seq(Candle)
  PROVE  EntryAt(FindEntry(p, cs), Len(cs))
<1> DEFINE n == Len(cs)
<1>1. n \in Nat /\ DOMAIN cs = 1..n /\ \A i \in 1..n : cs[i] \in Candle
  OBVIOUS
<1>2. p.low \in Int /\ p.high \in Int
  BY DEF PlanOK
<1>3. CASE p.fill = "touch"
  <2> DEFINE S == {j \in DOMAIN cs : FillsAtTouch(p, cs[j])}
             i == Least(S)
  <2>1. S \in SUBSET (Nat \ {0})
    BY <1>1
  <2>2. i = 0 \/ i \in S
    <3> HIDE DEF S
    <3> QED BY <2>1, LeastIsLeast
  <2>3. FindEntry(p, cs) = IF i = 0 THEN NoEntry
                           ELSE [at |-> i, price |-> TouchPrice(p, cs[i])]
    BY <1>3 DEF FindEntry
  <2>4. i \in S => i \in 1..n /\ cs[i].open \in Int
    BY <1>1 DEF Candle
  <2> HIDE DEF i, S
  <2>5. i \in S => TouchPrice(p, cs[i]) \in Int
    BY <1>2, <2>4 DEF TouchPrice, Boundary
  <2> QED BY <2>2, <2>3, <2>4, <2>5 DEF EntryAt
<1>4. CASE p.fill # "touch"
  <2> DEFINE S == {j \in DOMAIN cs : ClosesThrough(p, cs[j])}
             i == Least(S)
  <2>1. S \in SUBSET (Nat \ {0})
    BY <1>1
  <2>2. i = 0 \/ i \in S
    <3> HIDE DEF S
    <3> QED BY <2>1, LeastIsLeast
  <2>3. FindEntry(p, cs) = IF i = 0 \/ i = Len(cs) THEN NoEntry
                           ELSE [at |-> i + 1, price |-> cs[i + 1].open]
    BY <1>4 DEF FindEntry
  <2>4. i \in S /\ i # n => i + 1 \in 1..n
    BY <1>1
  <2>5. i \in S /\ i # n => cs[i + 1].open \in Int
    BY <1>1, <2>4 DEF Candle
  <2> HIDE DEF i, S
  <2> QED BY <2>2, <2>3, <2>4, <2>5 DEF EntryAt
<1> QED BY <1>3, <1>4

LEMMA EligibleIsPrefix ==
  ASSUME NEW p, PlanOK(p), NEW cs \in Seq(Candle)
  PROVE  /\ Eligible(p, cs) \in Seq(Candle)
         /\ Len(Eligible(p, cs)) = IF Expired(p, cs) THEN p.expiry ELSE Len(cs)
         /\ Len(Eligible(p, cs)) <= Len(cs)
         /\ \A i \in 1..Len(Eligible(p, cs)) : Eligible(p, cs)[i] = cs[i]
<1>1. p.expiry \in Nat
  BY DEF PlanOK
<1>2. CASE Expired(p, cs)
  <2>1. Len(cs) \in Nat /\ p.expiry <= Len(cs)
    BY <1>1, <1>2 DEF Expired
  <2>2. Eligible(p, cs) = SubSeq(cs, 1, p.expiry)
    BY <1>2 DEF Eligible
  <2>3. \A i \in 1..p.expiry : cs[i] \in Candle
    BY <1>1, <2>1
  <2>4. SubSeq(cs, 1, p.expiry) \in Seq(Candle) /\ Len(SubSeq(cs, 1, p.expiry)) = p.expiry
        /\ \A i \in 1..p.expiry : SubSeq(cs, 1, p.expiry)[i] = cs[i]
    BY <1>1, <2>1, <2>3
  <2> QED BY <1>2, <2>1, <2>2, <2>4
<1>3. CASE ~Expired(p, cs)
  BY <1>3 DEF Eligible
<1> QED BY <1>2, <1>3

LEMMA EntryOK ==
  ASSUME NEW p, PlanOK(p), NEW cs \in Seq(Candle)
  PROVE  EntryAt(FindEntry(p, Eligible(p, cs)), Len(cs))
<1> DEFINE el == Eligible(p, cs)
<1>1. el \in Seq(Candle) /\ Len(el) <= Len(cs) /\ Len(el) \in Nat /\ Len(cs) \in Nat
  BY EligibleIsPrefix
<1> HIDE DEF el
<1>2. EntryAt(FindEntry(p, el), Len(el))
  BY <1>1, FindEntryOK
<1>3. EntryAt(FindEntry(p, el), Len(cs))
  BY <1>1, <1>2 DEF EntryAt
<1> QED BY <1>3 DEF el

-----------------------------------------------------------------------------
(***************************************************************************)
(* The inductive invariants.                                               *)
(***************************************************************************)
RunReasons == Reasons \cup {"waiting_for_entry_trigger", "missing_ohlcv",
  "setup_expiry", "data_end_reached", "entry_filled", "partial_target_filled",
  "engine_failure", "manual_cancel", "manual_close", "manual_abandon"}
RunT(n) == [status : Statuses, reason : RunReasons, mark : 0..n]
OutcomeT == [result : {"none", "win", "loss", "breakeven", "missed", "inconclusive"},
             close : CloseReasons \cup {"none", "setup_expiry"}, eligible : BOOLEAN]

Reading(at, read, pos, out, events) ==
  [at |-> at, read |-> read, position |-> pos, outcome |-> out, ledger |-> events]
Idles(r) == r = Idle \/ r = Done
ReadingOK(r, n) ==
  /\ r = Reading(r.at, r.read, r.position, r.outcome, r.ledger)
  /\ r.at \in {"reading", "saving"}
  /\ PositionOK(r.position, n) /\ r.outcome \in OutcomeT /\ LedgerOK(r.ledger, n)

Typed ==
  /\ tape \in Seq(Candle) /\ Len(tape) <= MaxCandles /\ plan \in Plans
  /\ run \in RunT(Len(tape))
  /\ LedgerOK(ledger, Len(tape)) /\ PositionOK(position, Len(tape))
  /\ outcome \in OutcomeT /\ fresh \in BOOLEAN
  /\ gets = [g \in Readers |-> gets[g]]
  /\ \A g \in Readers : Idles(gets[g]) \/ ReadingOK(gets[g], Len(tape))

\* The ledger of a run that has not ended: an entry, and partial exits.
Quiet(L) ==
  \A i \in 1..Len(L) : IF i = 1 THEN L[1].type = "position_opened"
                                     /\ L[1].reason = "entry_filled"
                       ELSE Partly(L[i])
Earlier(L, M) == Len(L) <= Len(M) /\ \A i \in 1..Len(L) : L[i] = M[i]

Lifecycle ==
  /\ run.status \in Active =>
       /\ Quiet(ledger) /\ (position = NoPosition <=> ledger = <<>>)
       /\ position # NoPosition => position.since = ledger[1].at
       /\ plan.partials = NoPartials => Len(ledger) <= 1
  /\ \A g \in Readers : Idles(gets[g]) \/ Earlier(gets[g].ledger, ledger)

\* A run is concluded once.
Concluding(e) == e.type \in {"simulation_completed", "simulation_failed"}
Concluded ==
  /\ \A i, j \in 1..Len(ledger) : Concluding(ledger[i]) /\ Concluding(ledger[j]) => i = j
  /\ run.status \in {"completed", "failed"} =>
       \E i \in 1..Len(ledger) : Concluding(ledger[i])

\* The projections are those of the ledger.
Ruled(out, L) ==
  \/ out = RebuildOutcome(plan, L)
  \/ /\ plan.force /\ out = Inconclusive("data_end")
     /\ RebuildOutcome(plan, L) = Inconclusive("none")
Reflects ==
  /\ run.status \in Active \/ ~Polled => position = Rebuild(plan, ledger)
  /\ \E n \in 0..Len(ledger) : Replayed(n)
  /\ Ruled(outcome, ledger)
  /\ \A g \in Readers : \/ Idles(gets[g])
                        \/ RebuildOutcome(plan, gets[g].ledger)
                             \in {NoOutcome, RebuildOutcome(plan, ledger)}
Projected == Reflects \/ (Polled /\ plan.partials # NoPartials)

\* What was bought was sold, or is left.
Balanced == ~Polled => ExitsAddUp

\* Before the watermark no candle traded at the stop.
Watched ==
  run.status \in Active /\ position # NoPosition =>
    \A i \in (position.since + 1)..run.mark : Clears(tape[i])

\* A refresh has nothing to do.
Settled ==
  fresh /\ run.status \in Active =>
    /\ position = NoPosition => /\ tape # <<>> /\ Entry(tape) = NoEntry
                                /\ ~Expired(plan, tape) /\ plan.mode = "forward"
    /\ position.status = "open" =>
         Transitions(plan, tape, run.mark, position.since, plan.partials) = <<>>

\* What candle i does to a plan without partial targets that entered at since.
Here(p, c, i, since) ==
  ExitsAt(p, c, i, since, Least({x \in {1} : HitsTarget(p, c, x)}), NoPartials)
Seen(m) == SubSeq(tape, 1, m)
EntrySeen(m) == FindEntry(plan, Eligible(plan, Seen(m)))
Entered(e) == OpenPosition(e.price, plan.quantity, e.at)
\* No candle after the entry and up to m exits.
StaysIn(e, m) == \A i \in (e.at + 1)..m : Here(plan, tape[i], i, e.at) = <<>>
InMarket(e, m) == e # NoEntry /\ e.at <= m /\ StaysIn(e, m)

\* The position is what one refresh over the candles up to the watermark makes of
\* the run; one that is still open has entered, and nothing after it exited.
ReplaysAt(r, pos) ==
  plan.partials = NoPartials /\ ~plan.force =>
    /\ r.status \in Active \/ r.reason \in Decided => pos = OneShot(Seen(r.mark))
    /\ r.status \in Active /\ pos # NoPosition =>
         LET e == EntrySeen(r.mark) IN InMarket(e, r.mark) /\ pos = Entered(e)
Replays == ReplaysAt(run, position)

-----------------------------------------------------------------------------
(***************************************************************************)
(* Ledgers with one entry more.                                            *)
(***************************************************************************)
LEMMA ConcatAppend ==
  ASSUME NEW S, NEW L \in Seq(S), NEW M \in Seq(S), NEW e \in S
  PROVE  L \o Append(M, e) = Append(L \o M, e)
<1>1. Append(M, e) = M \o <<e>> /\ <<e>> \in Seq(S) /\ L \o M \in Seq(S)
  OBVIOUS
<1>2. L \o (M \o <<e>>) = (L \o M) \o <<e>>
  BY <1>1, ConcatAssociative
<1> QED BY <1>1, <1>2, AppendIsConcat

LEMMA EmptyAppend ==
  ASSUME NEW S, NEW e \in S
  PROVE  <<e>> = Append(<<>>, e) /\ <<>> \in Seq(S)
OBVIOUS

LEMMA LedgerAppend ==
  ASSUME NEW n, NEW L, LedgerOK(L, n), NEW e, EventOK(e, n)
  PROVE  LedgerOK(Append(L, e), n)
<1>1. L \in Seq(EventT) /\ e \in EventT
  BY DEF LedgerOK, EventOK
<1>2. /\ Append(L, e) \in Seq(EventT) /\ Len(Append(L, e)) = Len(L) + 1 /\ Len(L) \in Nat
      /\ Append(L, e)[Len(L) + 1] = e
      /\ \A i \in 1..Len(L) : Append(L, e)[i] = L[i]
  BY <1>1
<1> QED BY <1>2 DEF LedgerOK

LEMMA LedgerConcat ==
  ASSUME NEW n, NEW L, LedgerOK(L, n), NEW M, LedgerOK(M, n)
  PROVE  LedgerOK(L \o M, n)
<1>1. L \in Seq(EventT) /\ M \in Seq(EventT)
  BY DEF LedgerOK
<1>2. /\ L \o M \in Seq(EventT) /\ Len(L \o M) = Len(L) + Len(M)
      /\ Len(L) \in Nat /\ Len(M) \in Nat
      /\ \A i \in 1..(Len(L) + Len(M)) :
           (L \o M)[i] = IF i <= Len(L) THEN L[i] ELSE M[i - Len(L)]
  BY <1>1, ConcatProperties
<1>3. ASSUME NEW i \in 1..Len(L \o M) PROVE EventOK((L \o M)[i], n)
  <2>1. CASE i <= Len(L)
    BY <1>2, <2>1 DEF LedgerOK
  <2>2. CASE ~(i <= Len(L))
    <3>1. i - Len(L) \in 1..Len(M)
      BY <1>2, <2>2
    <3> QED BY <1>2, <2>2, <3>1 DEF LedgerOK
  <2> QED BY <2>1, <2>2
<1> QED BY <1>2, <1>3 DEF LedgerOK

\* An entry that is neither an entry into the market nor an exit.
Remark(e) ==
  /\ e \in EventT
  /\ e.type \notin {"position_opened", "position_closed", "position_partially_closed"}

LEMMA RemarkAppend ==
  ASSUME NEW p, NEW L \in Seq(EventT), NEW e, Remark(e)
  PROVE  Rebuild(p, Append(L, e)) = Rebuild(p, L) /\ Sold(Append(L, e)) = Sold(L)
<1>1. Rebuild(p, Append(L, e)) = RebuildStep(p, Rebuild(p, L), e)
  BY RebuildAppend DEF Remark
<1>2. Sold(Append(L, e)) = SoldStep(Sold(L), e)
  BY SoldAppend DEF Remark
<1> QED BY <1>1, <1>2 DEF Remark, RebuildStep, SoldStep, Sells

LEMMA RemarkIsOK == ASSUME NEW n, NEW e, Remark(e) PROVE EventOK(e, n)
BY DEF Remark, EventOK, Sells

LEMMA NoteIsRemark ==
  ASSUME NEW at \in Nat, NEW reason \in Codes,
         NEW type \in {"simulation_completed", "simulation_failed", "setup_expired",
                       "simulation_cancelled", "data_end_reached"}
  PROVE  /\ Remark(Note(type, at, reason))
         /\ Note(type, at, reason).type = type /\ Note(type, at, reason).reason = reason
BY DEF Remark, Note, Event, EventT, Types

Abandoned(L) == \E i \in DOMAIN L : L[i].reason = "manual_abandon"

LEMMA LoggedAppend ==
  ASSUME NEW L \in Seq(EventT), NEW e \in EventT
  PROVE  /\ \A t : Logged(Append(L, e), t) <=> Logged(L, t) \/ e.type = t
         /\ Abandoned(Append(L, e)) <=> Abandoned(L) \/ e.reason = "manual_abandon"
         /\ Ambiguous(Append(L, e)) <=>
              \/ Ambiguous(L)
              \/ e.type = "position_closed" /\ e.reason = "ambiguous_intrabar"
<1> DEFINE n == Len(L)
           M == Append(L, e)
<1>1. /\ n \in Nat /\ DOMAIN L = 1..n /\ DOMAIN M = 1..(n + 1)
      /\ M[n + 1] = e /\ \A i \in 1..n : M[i] = L[i]
  OBVIOUS
<1>2. \A i \in 1..(n + 1) : i = n + 1 \/ i \in 1..n
  BY <1>1
<1>3. \A i \in 1..n : i \in 1..(n + 1)
  BY <1>1
<1>4. n + 1 \in 1..(n + 1)
  BY <1>1
<1> HIDE DEF M, n
<1> QED BY <1>1, <1>2, <1>3, <1>4 DEF Logged, Abandoned, Ambiguous, M

\* rebuildOutcomeFromLedger, by what it asks of the ledger.
LEMMA OutcomeByFacts ==
  ASSUME NEW p, NEW L, NEW pos, pos = Rebuild(p, L)
  PROVE  RebuildOutcome(p, L) =
           IF Logged(L, "simulation_failed") THEN Inconclusive("none")
           ELSE IF Logged(L, "setup_expired") THEN Missed
           ELSE IF Abandoned(L) \/ Logged(L, "data_end_reached")
                THEN Inconclusive("none")
           ELSE IF pos = NoPosition \/ pos.status # "closed" THEN NoOutcome
           ELSE IF pos.closed = "manual_close" THEN ManualOutcome(pos)
           ELSE RuledOutcome(pos, Ambiguous(L))
BY DEF RebuildOutcome, Abandoned

Unconcluded(L) == \A i \in 1..Len(L) : ~Concluding(L[i])

\* Nothing in the ledger decides the outcome but its position.
Plain(L) ==
  /\ Unconcluded(L)
  /\ ~Logged(L, "simulation_failed") /\ ~Logged(L, "setup_expired")
  /\ ~Logged(L, "data_end_reached") /\ ~Abandoned(L) /\ ~Ambiguous(L)

LEMMA QuietIsPlain ==
  ASSUME NEW L \in Seq(EventT), Quiet(L)
  PROVE  Plain(L)
<1>1. DOMAIN L = 1..Len(L)
  OBVIOUS
<1>2. \A i \in 1..Len(L) :
        /\ L[i].type \in {"position_opened", "exit_hit", "position_partially_closed"}
        /\ L[i].reason \in {"entry_filled", "target"}
  BY DEF Quiet, Partly
<1> QED BY <1>1, <1>2 DEF Plain, Unconcluded, Logged, Abandoned, Ambiguous, Concluding

LEMMA PlainAppend ==
  ASSUME NEW L \in Seq(EventT), Plain(L), NEW e \in EventT
  PROVE  /\ ~Concluding(e) => Unconcluded(Append(L, e))
         /\ \A t \in {"simulation_failed", "setup_expired", "data_end_reached"} :
              Logged(Append(L, e), t) <=> e.type = t
         /\ Abandoned(Append(L, e)) <=> e.reason = "manual_abandon"
         /\ Ambiguous(Append(L, e)) <=>
              e.type = "position_closed" /\ e.reason = "ambiguous_intrabar"
<1>1. /\ Len(Append(L, e)) = Len(L) + 1 /\ Len(L) \in Nat
      /\ Append(L, e)[Len(L) + 1] = e
      /\ \A i \in 1..Len(L) : Append(L, e)[i] = L[i]
  OBVIOUS
<1>2. ~Concluding(e) => Unconcluded(Append(L, e))
  <2>1. \A i \in 1..(Len(L) + 1) : i = Len(L) + 1 \/ i \in 1..Len(L)
    BY <1>1
  <2> QED BY <1>1, <2>1 DEF Plain, Unconcluded
<1> QED BY <1>2, LoggedAppend DEF Plain

LEMMA QuietOutcome ==
  ASSUME NEW p, NEW L \in Seq(EventT), Quiet(L), NEW pos, pos = Rebuild(p, L),
         pos = NoPosition \/ pos.status # "closed"
  PROVE  RebuildOutcome(p, L) = NoOutcome
BY QuietIsPlain, OutcomeByFacts DEF Plain

LEMMA QuietConcat ==
  ASSUME NEW L \in Seq(EventT), Quiet(L), L # <<>>, NEW E, AllPartly(E)
  PROVE  Quiet(L \o E) /\ L \o E # <<>> /\ (L \o E)[1] = L[1]
<1>1. E \in Seq(EventT)
  BY DEF AllPartly
<1>2. /\ L \o E \in Seq(EventT) /\ Len(L \o E) = Len(L) + Len(E)
      /\ Len(L) \in Nat /\ Len(E) \in Nat
      /\ \A i \in 1..(Len(L) + Len(E)) :
           (L \o E)[i] = IF i <= Len(L) THEN L[i] ELSE E[i - Len(L)]
  BY <1>1, ConcatProperties
<1>3. Len(L) # 0
  OBVIOUS
<1>4. 1 \in 1..(Len(L) + Len(E)) /\ 1 <= Len(L) /\ 1 \in 1..Len(L)
  BY <1>2, <1>3
<1>5. (L \o E)[1] = L[1]
  BY <1>2, <1>4
<1>6. ASSUME NEW i \in 1..Len(L \o E), i # 1 PROVE Partly((L \o E)[i])
  <2>1. CASE i <= Len(L)
    BY <1>2, <1>6, <2>1 DEF Quiet
  <2>2. CASE ~(i <= Len(L))
    <3>1. i - Len(L) \in 1..Len(E)
      BY <1>2, <2>2
    <3> QED BY <1>2, <2>2, <3>1 DEF AllPartly
  <2> QED BY <2>1, <2>2
<1>7. L \o E # <<>>
  BY <1>2, <1>4
<1> QED BY <1>4, <1>5, <1>6, <1>7 DEF Quiet

\* The position of a quiet ledger entered where its first entry says.
LEMMA RebuildStepSince ==
  ASSUME NEW p, NEW n \in Nat, NEW pos, Held(pos, n), NEW e, EventOK(e, n),
         e.type # "position_opened", NEW new, new = RebuildStep(p, pos, e)
  PROVE  Held(new, n) /\ new.since = pos.since
<1>0. pos # NoPosition
  BY HeldIsPosition
<1>1. e.price \in Int /\ e.quantity \in Nat
  BY DEF EventOK, EventT
<1>2. Sells(e) => CloseReason(e) \in CloseReasons
  BY DEF EventOK, CloseReason, CloseReasons, Reasons
<1>3. CASE e.type = "position_closed"
  <2>1. new = ClosePosition(p, pos, e.price, e.quantity, CloseReason(e))
    BY <1>0, <1>3 DEF RebuildStep
  <2>2. Shut(pos, new, n, CloseReason(e))
    BY <1>1, <1>2, <1>3, <2>1, CloseIsHeld DEF Sells
  <2> QED BY <2>2 DEF Shut
<1>4. CASE e.type = "position_partially_closed"
  <2>1. new = ReducePosition(p, pos, e.price, e.quantity, CloseReason(e))
    BY <1>0, <1>4 DEF RebuildStep
  <2>2. Reduced(pos, new, n, Sellable(pos, e.quantity))
    BY <1>1, <1>2, <1>4, <2>1, ReduceIsHeld DEF Sells
  <2> QED BY <2>2 DEF Reduced
<1>5. CASE ~Sells(e)
  BY <1>5 DEF Sells, RebuildStep
<1> QED BY <1>3, <1>4, <1>5 DEF Sells

Since(pos, L) == pos # NoPosition /\ pos.since = L[1].at

LEMMA QuietSince ==
  ASSUME NEW p, NEW n \in Nat, NEW L, LedgerOK(L, n), Quiet(L)
  PROVE  IF L = <<>> THEN Rebuild(p, L) = NoPosition ELSE Since(Rebuild(p, L), L)
<1> DEFINE m == Len(L)
<1>1. m \in Nat /\ DOMAIN L = 1..m
  BY DEF LedgerOK
<1>2. PICK h : Steps("rebuild", p, NoPosition, L, m, h) /\ Rebuild(p, L) = h[m]
  BY <1>1, RebuildSteps
<1> DEFINE Good(k) == Held(h[k], n) /\ h[k].since = L[1].at
           S == {k \in Nat : k <= m => k = 0 \/ Good(k)}
<1>3. 0 \in S
  OBVIOUS
<1>4. ASSUME NEW k \in Nat, k \in S PROVE k + 1 \in S
  <2> DEFINE j == k + 1
  <2> SUFFICES ASSUME j <= m PROVE Good(j)
    OBVIOUS
  <2>1. j \in 1..m /\ j - 1 = k /\ k <= m /\ (j = 1 <=> k = 0)
    BY <1>1
  <2>2. h[j] = RebuildStep(p, h[k], L[j])
    BY <1>2, <2>1 DEF Steps, Step
  <2>3. EventOK(L[j], n)
    BY <2>1 DEF LedgerOK
  <2>4. CASE j = 1
    <3>1. L[1].type = "position_opened" /\ EventOK(L[1], n)
      BY <2>1, <2>3, <2>4 DEF Quiet
    <3>2. h[1] = OpenPosition(L[1].price, L[1].quantity, L[1].at)
      BY <2>2, <2>4, <3>1 DEF RebuildStep
    <3>3. L[1].price \in Int /\ L[1].quantity \in Nat \ {0} /\ L[1].at \in 1..n
      BY <3>1 DEF EventOK, EventT
    <3>4. Held(h[1], n)
      BY <3>2, <3>3, OpenIsHeld
    <3>5. h[1].since = L[1].at
      BY <3>2 DEF OpenPosition
    <3> QED BY <2>4, <3>4, <3>5
  <2>5. CASE j # 1
    <3>1. Good(k)
      BY <1>4, <2>1, <2>5
    <3>2. L[j].type # "position_opened"
      BY <2>1, <2>5 DEF Quiet, Partly
    <3> HIDE DEF j
    <3>3. Held(h[j], n) /\ h[j].since = h[k].since
      BY <2>2, <2>3, <3>1, <3>2, RebuildStepSince
    <3> QED BY <3>1, <3>3
  <2> QED BY <2>4, <2>5
<1> HIDE DEF S
<1>5. Nat \subseteq S
  BY <1>3, <1>4, SetInduction
<1>6. CASE L = <<>>
  BY <1>6, RebuildEmpty
<1>7. CASE L # <<>>
  <2>1. m # 0
    BY <1>1, <1>7 DEF LedgerOK
  <2>2. Good(m)
    BY <1>1, <1>5, <2>1 DEF S
  <2> QED BY <1>2, <1>7, <2>2, HeldIsPosition DEF Since
<1> QED BY <1>6, <1>7

-----------------------------------------------------------------------------
(***************************************************************************)
(* What the requests that find the run active leave behind.                *)
(***************************************************************************)
Steady == Typed /\ Lifecycle

\* A run that goes on.
Keeps(pos, L) ==
  /\ Quiet(L) /\ (pos = NoPosition <=> L = <<>>)
  /\ pos # NoPosition => pos.since = L[1].at
  /\ plan.partials = NoPartials => Len(L) <= 1
Ended(L) ==
  \E M \in Seq(EventT), e \in EventT : L = Append(M, e) /\ Concluding(e) /\ Unconcluded(M)

\* The rows that a request saves with the ledger L.
Move(next, pos, out, L) ==
  /\ next \in RunT(Len(tape)) /\ LedgerOK(L, Len(tape))
  /\ PositionOK(pos, Len(tape)) /\ out \in OutcomeT
  /\ position = Rebuild(plan, ledger) => /\ pos = Rebuild(plan, L)
                                         /\ out = outcome \/ Ruled(out, L)
  /\ pos # NoPosition /\ ExitsAddUp => Sold(L) + pos.remaining = pos.opened
  /\ \/ next.status \in Active /\ Keeps(pos, L)
     \/ next.status \in {"completed", "failed"} /\ Ended(L)
Moves ==
  \E next, pos, out, events :
    /\ run.status \in Active /\ (position = NoPosition \/ position.status # "closed")
    /\ events \in Seq(EventT)
    /\ Commits(next, pos, out, events) /\ Move(next, pos, out, ledger \o events)

\* plan.partials is a function; it is empty only when it is NoPartials.
LEMMA EmptyPartials ==
  ASSUME NEW p, PlanOK(p)
  PROVE  /\ PartialsOK(p.partials) /\ PartialsOK(NoPartials) /\ DOMAIN NoPartials = {}
         /\ p.partials = NoPartials <=> DOMAIN p.partials = {}
<1>1. p.partials = [t \in DOMAIN p.partials |-> p.partials[t]]
  BY DEF PlanOK
<1>2. DOMAIN p.partials = {} => p.partials = NoPartials
  BY <1>1 DEF NoPartials
<1>3. PartialsOK(p.partials) /\ PartialsOK(NoPartials) /\ DOMAIN NoPartials = {}
  BY DEF PlanOK, PartialsOK, NoPartials
<1> QED BY <1>2, <1>3

LEMMA PlanIsOK == ASSUME Typed PROVE PlanOK(plan)
BY PaperAssumption DEF Typed

LEMMA SeekFacts ==
  ASSUME Steady, Seeks
  PROVE  /\ run.status \in Active /\ position = NoPosition /\ ledger = <<>>
         /\ Quiet(ledger) /\ Len(tape) \in Nat /\ ledger \in Seq(EventT)
BY DEF Steady, Typed, Lifecycle, Seeks, LedgerOK

LEMMA HoldFacts ==
  ASSUME Steady, Holds
  PROVE  /\ run.status \in Active /\ position # NoPosition /\ Held(position, Len(tape))
         /\ position.status # "closed" /\ position.since = ledger[1].at
         /\ Quiet(ledger) /\ ledger # <<>> /\ Len(tape) \in Nat
         /\ ledger \in Seq(EventT) /\ LedgerOK(ledger, Len(tape))
<1>1. position # NoPosition
  BY DEF Holds, NoPosition
<1> QED BY <1>1 DEF Steady, Typed, Lifecycle, Holds, PositionOK, LedgerOK

\* The run ends with remarks only.
LEMMA RemarksMove ==
  ASSUME Steady, Quiet(ledger), NEW next \in RunT(Len(tape)),
         next.status \in {"completed", "failed"}, NEW out \in OutcomeT,
         NEW M, NEW e, Remark(e), Concluding(e),
         M = ledger \/ \E r : Remark(r) /\ ~Concluding(r) /\ M = Append(ledger, r),
         Ruled(out, Append(M, e))
  PROVE  Move(next, position, out, Append(M, e))
<1> DEFINE n == Len(tape)
<1>1. ledger \in Seq(EventT) /\ LedgerOK(ledger, n) /\ PositionOK(position, n)
  BY DEF Steady, Typed, LedgerOK
<1>2. /\ M \in Seq(EventT) /\ LedgerOK(M, n) /\ Unconcluded(M)
      /\ Rebuild(plan, M) = Rebuild(plan, ledger) /\ Sold(M) = Sold(ledger)
  <2>1. Plain(ledger)
    BY <1>1, QuietIsPlain
  <2>2. CASE M = ledger
    BY <1>1, <2>1, <2>2 DEF Plain
  <2>3. CASE \E r : Remark(r) /\ ~Concluding(r) /\ M = Append(ledger, r)
    <3>1. PICK r : Remark(r) /\ ~Concluding(r) /\ M = Append(ledger, r)
      BY <2>3
    <3>2. r \in EventT /\ M \in Seq(EventT)
      BY <1>1, <3>1 DEF Remark
    <3>3. LedgerOK(M, n)
      BY <1>1, <3>1, RemarkIsOK, LedgerAppend
    <3>4. Unconcluded(M)
      BY <1>1, <2>1, <3>1, <3>2, PlainAppend
    <3>5. Rebuild(plan, M) = Rebuild(plan, ledger) /\ Sold(M) = Sold(ledger)
      BY <1>1, <3>1, RemarkAppend
    <3> QED BY <3>2, <3>3, <3>4, <3>5
  <2> QED BY <2>2, <2>3
<1>3. /\ Rebuild(plan, Append(M, e)) = Rebuild(plan, ledger)
      /\ Sold(Append(M, e)) = Sold(ledger)
  BY <1>2, RemarkAppend
<1>4. LedgerOK(Append(M, e), n)
  BY <1>2, RemarkIsOK, LedgerAppend
<1>5. Ended(Append(M, e))
  BY <1>2 DEF Ended, Remark
<1> QED BY <1>1, <1>3, <1>4, <1>5 DEF Move, ExitsAddUp

LEMMA OneRemark ==
  ASSUME NEW L \in Seq(EventT), NEW e \in EventT
  PROVE  /\ <<e>> \in Seq(EventT) /\ L \o <<e>> = Append(L, e)
         /\ Append(<<>>, e) \in Seq(EventT) /\ L \o Append(<<>>, e) = Append(L, e)
<1>1. <<e>> \in Seq(EventT) /\ <<e>> = Append(<<>>, e)
  BY EmptyAppend
<1> QED BY <1>1, AppendIsConcat

LEMMA TwoRemarks ==
  ASSUME NEW L \in Seq(EventT), NEW e \in EventT, NEW f \in EventT
  PROVE  /\ Append(<<e>>, f) \in Seq(EventT)
         /\ L \o Append(<<e>>, f) = Append(Append(L, e), f)
<1>1. <<e>> \in Seq(EventT) /\ L \o <<e>> = Append(L, e)
  BY OneRemark
<1>2. L \o Append(<<e>>, f) = Append(L \o <<e>>, f)
  BY <1>1, ConcatAppend
<1> QED BY <1>1, <1>2

\* The run fails: no candles, or an error while they are loaded.
LEMMA FailMoves ==
  ASSUME Steady, Seeks \/ Holds, NEW reason \in {"missing_ohlcv", "engine_failure"},
         Commits(Row("failed", reason, run.mark), position, Inconclusive("none"),
                 <<Note("simulation_failed", 0, reason)>>)
  PROVE  Moves
<1> DEFINE e == Note("simulation_failed", 0, reason)
           next == Row("failed", reason, run.mark)
           out == Inconclusive("none")
<1>1. /\ run.status \in Active /\ (position = NoPosition \/ position.status # "closed")
      /\ Quiet(ledger) /\ ledger \in Seq(EventT)
  BY SeekFacts, HoldFacts
<1>2. /\ Remark(e) /\ e.type = "simulation_failed" /\ e.reason = reason /\ Concluding(e)
      /\ e \in EventT
  BY NoteIsRemark DEF Codes, Concluding, Remark
<1>3. next \in RunT(Len(tape)) /\ next.status = "failed" /\ out \in OutcomeT
  BY DEF Steady, Typed, RunT, Row, RunReasons, Statuses, OutcomeT, Inconclusive
<1> HIDE DEF e, next, out
<1>4. <<e>> \in Seq(EventT) /\ ledger \o <<e>> = Append(ledger, e)
  BY <1>1, <1>2, OneRemark
<1>5. Ruled(out, Append(ledger, e))
  <2>1. Logged(Append(ledger, e), "simulation_failed")
    BY <1>1, <1>2, LoggedAppend
  <2> QED BY <2>1, OutcomeByFacts DEF Ruled, out
<1>6. Move(next, position, out, Append(ledger, e))
  BY <1>1, <1>2, <1>3, <1>5, RemarksMove
<1>7. Commits(next, position, out, <<e>>)
  BY DEF next, out, e
<1> QED BY <1>1, <1>4, <1>6, <1>7 DEF Moves

\* The run ends with what `first` reports, if anything.
LEMMA EndMoves ==
  ASSUME Steady, Seeks \/ Holds, NEW mark \in 0..Len(tape),
         NEW reason \in {"setup_expiry", "data_end_reached", "manual_abandon"},
         NEW out \in OutcomeT, NEW first,
         \/ first = <<>> /\ reason = "manual_abandon" /\ out = Inconclusive("none")
         \/ /\ first = <<Note("setup_expired", mark, "entry_missed")>>
            /\ out = Missed
         \/ /\ first = <<Note("data_end_reached", mark, "data_end_reached")>>
            /\ reason = "data_end_reached" /\ out = Inconclusive("none"),
         Ends("completed", mark, reason, out, first)
  PROVE  Moves
<1> DEFINE e == Note("simulation_completed", mark, reason)
           next == Row("completed", reason, mark)
           events == Append(first, e)
           L == ledger \o events
<1>1. /\ run.status \in Active /\ (position = NoPosition \/ position.status # "closed")
      /\ Quiet(ledger) /\ ledger \in Seq(EventT) /\ mark \in Nat /\ Plain(ledger)
  BY SeekFacts, HoldFacts, QuietIsPlain
<1>2. /\ Remark(e) /\ e.type = "simulation_completed" /\ e.reason = reason
      /\ Concluding(e) /\ e \in EventT
  BY <1>1, NoteIsRemark DEF Codes, Concluding, Remark
<1>3. next \in RunT(Len(tape)) /\ next.status = "completed"
  BY DEF RunT, Row, RunReasons, Statuses
<1>4. Commits(next, position, out, events)
  BY DEF Ends
<1> HIDE DEF e, next
<1>5. CASE first = <<>> /\ reason = "manual_abandon" /\ out = Inconclusive("none")
  <2>1. events \in Seq(EventT) /\ L = Append(ledger, e)
    BY <1>1, <1>2, <1>5, OneRemark
  <2>2. Ruled(out, Append(ledger, e))
    <3>1. /\ Abandoned(Append(ledger, e))
          /\ ~Logged(Append(ledger, e), "simulation_failed")
          /\ ~Logged(Append(ledger, e), "setup_expired")
      BY <1>1, <1>2, <1>5, PlainAppend
    <3> QED BY <1>5, <3>1, OutcomeByFacts DEF Ruled
  <2>3. Move(next, position, out, Append(ledger, e))
    BY <1>1, <1>2, <1>3, <2>2, RemarksMove
  <2> QED BY <1>1, <1>4, <2>1, <2>3 DEF Moves
<1>6. ASSUME NEW f, first = <<f>>, Remark(f), ~Concluding(f),
             Ruled(out, Append(Append(ledger, f), e))
      PROVE  Moves
  <2>1. f \in EventT
    BY <1>6 DEF Remark
  <2>2. events \in Seq(EventT) /\ L = Append(Append(ledger, f), e)
    BY <1>1, <1>2, <1>6, <2>1, TwoRemarks
  <2> DEFINE M == Append(ledger, f)
  <2>3. Move(next, position, out, Append(M, e))
    <3>1. \E r : Remark(r) /\ ~Concluding(r) /\ M = Append(ledger, r)
      BY <1>6
    <3> HIDE DEF M
    <3>2. Ruled(out, Append(M, e))
      BY <1>6 DEF M
    <3> QED BY <1>1, <1>2, <1>3, <3>1, <3>2, RemarksMove
  <2> QED BY <1>1, <1>4, <2>2, <2>3 DEF Moves
<1>7. CASE first = <<Note("setup_expired", mark, "entry_missed")>> /\ out = Missed
  <2> DEFINE f == Note("setup_expired", mark, "entry_missed")
  <2>1. Remark(f) /\ f.type = "setup_expired" /\ ~Concluding(f) /\ f \in EventT
    BY <1>1, NoteIsRemark DEF Codes, Concluding, Remark
  <2> HIDE DEF f
  <2> DEFINE M == Append(ledger, f)
  <2>2. /\ M \in Seq(EventT)
        /\ Logged(M, "setup_expired") /\ ~Logged(M, "simulation_failed")
    BY <1>1, <2>1, PlainAppend
  <2> HIDE DEF M
  <2>3. /\ Logged(Append(M, e), "setup_expired")
        /\ ~Logged(Append(M, e), "simulation_failed")
    BY <1>2, <2>2, LoggedAppend
  <2>4. Ruled(out, Append(M, e))
    BY <1>7, <2>3, OutcomeByFacts DEF Ruled
  <2> QED BY <1>6, <1>7, <2>1, <2>4 DEF f, M
<1>8. CASE /\ first = <<Note("data_end_reached", mark, "data_end_reached")>>
           /\ reason = "data_end_reached" /\ out = Inconclusive("none")
  <2> DEFINE f == Note("data_end_reached", mark, "data_end_reached")
  <2>1. Remark(f) /\ f.type = "data_end_reached" /\ ~Concluding(f) /\ f \in EventT
    BY <1>1, NoteIsRemark DEF Codes, Concluding, Remark
  <2> HIDE DEF f
  <2> DEFINE M == Append(ledger, f)
  <2>2. /\ M \in Seq(EventT)
        /\ Logged(M, "data_end_reached") /\ ~Logged(M, "simulation_failed")
        /\ ~Logged(M, "setup_expired")
    BY <1>1, <2>1, PlainAppend
  <2> HIDE DEF M
  <2>3. /\ Logged(Append(M, e), "data_end_reached")
        /\ ~Logged(Append(M, e), "simulation_failed")
        /\ ~Logged(Append(M, e), "setup_expired")
    BY <1>2, <2>2, LoggedAppend
  <2>4. Ruled(out, Append(M, e))
    BY <1>8, <2>3, OutcomeByFacts DEF Ruled
  <2> QED BY <1>6, <1>8, <2>1, <2>4 DEF f, M
<1> QED BY <1>5, <1>7, <1>8

LEMMA WaitMoves ==
  ASSUME Steady, Seeks,
         Commits(Row("waiting_for_trigger", "waiting_for_entry_trigger", Len(tape)),
                 position, outcome, <<>>)
  PROVE  Moves
<1> DEFINE next == Row("waiting_for_trigger", "waiting_for_entry_trigger", Len(tape))
<1>1. /\ run.status \in Active /\ position = NoPosition /\ ledger = <<>>
      /\ Quiet(ledger) /\ Len(tape) \in Nat
  BY SeekFacts
<1>2. next \in RunT(Len(tape)) /\ next.status \in Active
  BY <1>1 DEF RunT, Row, RunReasons, Statuses, Active
<1>3. Rebuild(plan, ledger) = NoPosition
  BY <1>1, RebuildEmpty
<1>4. Keeps(position, ledger)
  <2>1. Len(ledger) = 0
    BY <1>1
  <2> QED BY <1>1, <2>1 DEF Keeps
<1>5. Move(next, position, outcome, ledger)
  BY <1>1, <1>2, <1>3, <1>4 DEF Move, Steady, Typed, PositionOK
<1>6. ledger \o <<>> = ledger /\ <<>> \in Seq(EventT)
  BY <1>1
<1> HIDE DEF next
<1> QED BY <1>1, <1>5, <1>6 DEF Moves, next

LEMMA CloseMoves ==
  ASSUME Steady, CloseManually
  PROVE  Moves
<1> DEFINE n == Len(tape)
<1>1. PICK at \in {run.mark, n} :
      \E price \in IF at = n THEN ClosePrices \cup {tape[at].close} ELSE ClosePrices :
        LET pos == ClosePosition(plan, position, price, position.remaining,
                                 "manual_close")
        IN Commits(Row("completed", "manual_close", at), pos, ManualOutcome(pos),
                   <<Event("position_closed", at, price, position.remaining,
                           "manual_close"),
                     Note("simulation_completed", at, "manual_close")>>)
  BY DEF CloseManually
<1>2. PICK price \in IF at = n THEN ClosePrices \cup {tape[at].close} ELSE ClosePrices :
        LET pos == ClosePosition(plan, position, price, position.remaining,
                                 "manual_close")
        IN Commits(Row("completed", "manual_close", at), pos, ManualOutcome(pos),
                   <<Event("position_closed", at, price, position.remaining,
                           "manual_close"),
                     Note("simulation_completed", at, "manual_close")>>)
  BY <1>1
<1> DEFINE pos == ClosePosition(plan, position, price, position.remaining,
                                "manual_close")
           next == Row("completed", "manual_close", at)
           c == Event("position_closed", at, price, position.remaining, "manual_close")
           e == Note("simulation_completed", at, "manual_close")
           M == Append(ledger, c)
           L == Append(M, e)
<1>3. /\ run.status \in Active /\ position # NoPosition /\ Held(position, n)
      /\ position.status # "closed" /\ Quiet(ledger) /\ n \in Nat
      /\ ledger \in Seq(EventT) /\ LedgerOK(ledger, n)
  BY HoldFacts DEF CloseManually
<1>4. at \in 0..n /\ price \in Int /\ position.remaining \in Nat
  <2>1. at \in 0..n
    BY <1>3 DEF Steady, Typed, RunT
  <2>2. n \in 1..n
    BY <1>3 DEF Held
  <2>3. tape[n] \in Candle
    BY <2>2 DEF Steady, Typed
  <2>4. tape[n].close \in Int /\ ClosePrices \subseteq Int
    BY <2>3, PaperAssumption DEF Candle
  <2>5. price \in Int
    BY <2>4
  <2> QED BY <1>3, <2>1, <2>5 DEF Held
<1>5. Commits(next, pos, ManualOutcome(pos), <<c, e>>)
  BY <1>2
<1>6. Shut(position, pos, n, "manual_close")
  BY <1>3, <1>4, CloseIsHeld DEF CloseReasons
<1>7. /\ EventOK(c, n) /\ c \in EventT /\ c.type = "position_closed"
      /\ c.reason = "manual_close" /\ CloseReason(c) = "manual_close"
      /\ c.price = price /\ c.quantity = position.remaining /\ ~Concluding(c)
  BY <1>4 DEF EventOK, Event, EventT, Types, Codes, CloseReasons, CloseReason, Concluding
<1>8. /\ Remark(e) /\ e.type = "simulation_completed" /\ e.reason = "manual_close"
      /\ Concluding(e) /\ e \in EventT
  BY <1>4, NoteIsRemark DEF Codes, CloseReasons, Concluding, Remark
<1>9. next \in RunT(n) /\ next.status = "completed"
  BY <1>4 DEF RunT, Row, RunReasons, Statuses
<1>10. ManualOutcome(pos) \in OutcomeT
  BY DEF ManualOutcome, OutcomeT, ByPnl, CloseReasons
<1>11. RebuildStep(plan, position, c) = pos
  BY <1>3, <1>7 DEF RebuildStep
<1> HIDE DEF pos, next, c, e
<1>12. ledger \o <<c, e>> = L /\ <<c, e>> \in Seq(EventT)
  BY <1>3, <1>7, <1>8, AppendTwice
<1>13. /\ M \in Seq(EventT) /\ Unconcluded(M)
       /\ ~Logged(M, "simulation_failed") /\ ~Logged(M, "setup_expired")
       /\ ~Logged(M, "data_end_reached") /\ ~Abandoned(M)
  BY <1>3, <1>7, QuietIsPlain, PlainAppend
<1>14. Sold(M) = Sold(ledger) + position.remaining
  BY <1>3, <1>7, SoldAppend DEF SoldStep, Sells
<1>15. position = Rebuild(plan, ledger) => Rebuild(plan, M) = pos
  BY <1>3, <1>7, <1>11, RebuildAppend
<1>16. LedgerOK(M, n)
  BY <1>3, <1>7, LedgerAppend
<1> HIDE DEF M
<1>17. /\ Rebuild(plan, L) = Rebuild(plan, M) /\ Sold(L) = Sold(M) /\ LedgerOK(L, n)
  BY <1>8, <1>13, <1>16, RemarkAppend, RemarkIsOK, LedgerAppend
<1>18. /\ ~Logged(L, "simulation_failed") /\ ~Logged(L, "setup_expired")
       /\ ~Logged(L, "data_end_reached") /\ ~Abandoned(L)
  BY <1>8, <1>13, LoggedAppend
<1>19. Ended(L)
  BY <1>8, <1>13 DEF Ended
<1> HIDE DEF L
<1>20. position = Rebuild(plan, ledger) => Ruled(ManualOutcome(pos), L)
  <2> SUFFICES ASSUME position = Rebuild(plan, ledger)
               PROVE  Ruled(ManualOutcome(pos), L)
    OBVIOUS
  <2>1. pos = Rebuild(plan, L) /\ pos # NoPosition /\ pos.status = "closed"
        /\ pos.closed = "manual_close"
    BY <1>6, <1>15, <1>17, HeldIsPosition DEF Shut
  <2>2. RebuildOutcome(plan, L) = ManualOutcome(pos)
    BY <1>18, <2>1, OutcomeByFacts
  <2> QED BY <2>2 DEF Ruled
<1>21. pos # NoPosition /\ ExitsAddUp => Sold(L) + pos.remaining = pos.opened
  <2>1. Sold(ledger) \in Nat
    BY <1>3, SoldIsNat
  <2>2. Sold(L) = Sold(ledger) + position.remaining
    BY <1>14, <1>17
  <2>3. pos.remaining = 0 /\ pos.opened = position.opened
    BY <1>6 DEF Shut
  <2> QED BY <1>3, <1>4, <2>1, <2>2, <2>3 DEF ExitsAddUp
<1>22. Move(next, pos, ManualOutcome(pos), L)
  BY <1>6, <1>9, <1>10, <1>15, <1>17, <1>19, <1>20, <1>21 DEF Move, Shut, PositionOK
<1> QED BY <1>3, <1>5, <1>12, <1>22 DEF Moves

\* Exits of the position that the ledger L holds: what they make of both.
Exited(L, pos, exits, after, M) ==
  /\ Held(after.pos, Len(tape)) /\ after.pos.since = pos.since
  /\ after.events \in Seq(EventT)
  /\ LedgerOK(M, Len(tape))
  /\ Rebuild(plan, L) = pos => Rebuild(plan, M) = after.pos
  /\ Sold(L) + pos.remaining = pos.opened =>
       Sold(M) + after.pos.remaining = after.pos.opened

LEMMA ExitedByApplied ==
  ASSUME NEW L, LedgerOK(L, Len(tape)), NEW pos, Held(pos, Len(tape)),
         NEW exits, NEW mark, NEW last, NEW partials,
         Formed(plan, mark, last, partials, exits), Len(tape) \in Nat,
         NEW after, after = Applied(plan, pos, exits)
  PROVE  /\ Exited(L, pos, exits, after, L \o after.events)
         /\ AppliedTo(plan, L, pos, Len(tape), exits, after)
<1> DEFINE n == Len(tape)
<1>1. L \in Seq(EventT)
  BY DEF LedgerOK
<1> HIDE DEF n
<1>2. AppliedTo(plan, L, pos, n, exits, after)
  BY <1>1, AppliedMatches DEF n
<1>3. Matches(plan, L, pos, n, after)
  BY <1>2 DEF AppliedTo
<1>4. LedgerOK(L \o after.events, n)
  BY <1>3, LedgerConcat DEF Matches, n
<1> QED BY <1>2, <1>3, <1>4 DEF Exited, Matches, LedgerOK, n

\* The rows that Completes saves: x is the last exit, e the note of the end.
FinalRows(L, pos, exits, after, x, e, M) ==
  /\ Exited(L, pos, exits, after, M) /\ Ended(M)
  /\ after.pos.status = "closed"
  /\ Rebuild(plan, L) = pos => Ruled(RuledOutcome(after.pos, x.ambiguous), M)
  /\ RuledOutcome(after.pos, x.ambiguous) \in OutcomeT
  /\ Row("completed", x.reason, x.at) \in RunT(Len(tape))
  /\ Append(after.events, e) \in Seq(EventT)
  /\ L \o Append(after.events, e) = M

\* The last exit is final.
LEMMA FinalExit ==
  ASSUME Typed, NEW L, LedgerOK(L, Len(tape)), Quiet(L), L # <<>>,
         NEW pos, Held(pos, Len(tape)),
         NEW exits, NEW mark \in Nat, NEW partials,
         Formed(plan, mark, Len(tape), partials, exits), IsFinal(exits),
         NEW after, after = Applied(plan, pos, exits),
         NEW x, x = exits[Len(exits)],
         NEW e, e = Note("simulation_completed", x.at, x.reason),
         NEW M, M = Append(L \o after.events, e)
  PROVE  FinalRows(L, pos, exits, after, x, e, M)
<1> DEFINE n == Len(tape)
           N == L \o after.events
<1>1. n \in Nat /\ L \in Seq(EventT)
  BY DEF Typed, LedgerOK
<1>2. Exited(L, pos, exits, after, N) /\ AppliedTo(plan, L, pos, n, exits, after)
  BY <1>1, ExitedByApplied
<1>3. Finished(after, x)
  BY <1>2 DEF AppliedTo
<1>4. PICK E, q : /\ AllPartly(E) /\ q \in Nat
                  /\ after.events = Append(Append(E, Hit(x, q)), Trade(x, q))
  BY <1>3 DEF Finished
<1>5. /\ ExitOK(x) /\ x.at \in (mark + 1)..n /\ x.share = All
      /\ x.reason = "data_end" => plan.force
  <2>1. Len(exits) \in 1..Len(exits)
    BY DEF IsFinal, Formed
  <2> QED BY <2>1 DEF Formed, IsFinal
<1>6. /\ x.at \in Nat /\ x.reason \in Reasons /\ x.ambiguous \in BOOLEAN
      /\ x.ambiguous => x.reason = "stop"
  BY <1>5 DEF ExitOK, ExitT
<1>7. /\ Remark(e) /\ Concluding(e) /\ e \in EventT /\ e.type = "simulation_completed"
      /\ e.reason = x.reason
  BY <1>6, NoteIsRemark DEF Codes, CloseReasons, Concluding, Remark
<1> DEFINE hit == Hit(x, q)
           trade == Trade(x, q)
           Q == L \o E
<1>8. /\ hit \in EventT /\ trade \in EventT
      /\ hit.type = IF x.reason = "data_end" THEN "data_end_reached" ELSE "exit_hit"
      /\ trade.type = "position_closed"
      /\ hit.reason = Code(x) /\ trade.reason = Code(x)
      /\ ~Concluding(hit) /\ ~Concluding(trade)
  BY <1>4, <1>5, EntriesOK DEF EventOK, Hit, Trade, Event, Concluding
<1>9. /\ Code(x) # "manual_abandon" /\ x.reason # "manual_abandon"
      /\ x.reason # "manual_close" /\ x.reason # "ambiguous_intrabar"
      /\ Code(x) = "ambiguous_intrabar" <=> x.ambiguous
  BY <1>6 DEF Code, Reasons
<1> HIDE DEF hit, trade
<1>10. Q \in Seq(EventT) /\ Quiet(Q) /\ Plain(Q)
  <2>1. E \in Seq(EventT)
    BY <1>4 DEF AllPartly
  <2>2. Q \in Seq(EventT)
    BY <1>1, <2>1
  <2>3. Quiet(Q)
    BY <1>1, <1>4, QuietConcat
  <2> HIDE DEF Q
  <2> QED BY <2>2, <2>3, QuietIsPlain
<1>11. N = Append(Append(Q, hit), trade)
  <2>1. E \in Seq(EventT) /\ Append(E, hit) \in Seq(EventT)
    BY <1>4, <1>8 DEF AllPartly
  <2>2. L \o Append(E, hit) = Append(L \o E, hit)
    BY <1>1, <1>8, <2>1, ConcatAppend
  <2> DEFINE F == Append(E, hit)
  <2>3. after.events = Append(F, trade)
    BY <1>4 DEF hit, trade
  <2> HIDE DEF F
  <2>4. L \o Append(F, trade) = Append(L \o F, trade)
    BY <1>1, <1>8, <2>1, ConcatAppend DEF F
  <2> QED BY <2>2, <2>3, <2>4 DEF F
<1> DEFINE O == Append(Q, hit)
<1>12. /\ O \in Seq(EventT) /\ Unconcluded(O)
       /\ ~Logged(O, "simulation_failed") /\ ~Logged(O, "setup_expired")
       /\ Logged(O, "data_end_reached") <=> x.reason = "data_end"
       /\ ~Abandoned(O) /\ ~Ambiguous(O)
  <2> HIDE DEF Q
  <2> QED BY <1>8, <1>9, <1>10, PlainAppend
<1>13. Unconcluded(Append(O, trade)) /\ Append(O, trade) \in Seq(EventT)
  <2> HIDE DEF O
  <2>1. /\ Len(Append(O, trade)) = Len(O) + 1 /\ Len(O) \in Nat
        /\ Append(O, trade)[Len(O) + 1] = trade
        /\ \A i \in 1..Len(O) : Append(O, trade)[i] = O[i]
        /\ Append(O, trade) \in Seq(EventT)
    BY <1>8, <1>12
  <2>2. \A i \in 1..(Len(O) + 1) : i = Len(O) + 1 \/ i \in 1..Len(O)
    BY <2>1
  <2> QED BY <1>8, <1>12, <2>1, <2>2 DEF Unconcluded
<1>14. /\ N \in Seq(EventT) /\ Unconcluded(N)
       /\ ~Logged(N, "simulation_failed") /\ ~Logged(N, "setup_expired")
       /\ Logged(N, "data_end_reached") <=> x.reason = "data_end"
       /\ ~Abandoned(N) /\ (Ambiguous(N) <=> x.ambiguous)
  <2> HIDE DEF O
  <2>1. N = Append(O, trade)
    BY <1>11 DEF O
  <2> HIDE DEF N
  <2> QED BY <1>8, <1>9, <1>12, <1>13, <2>1, LoggedAppend
<1> HIDE DEF N
<1>15. /\ ~Logged(M, "simulation_failed") /\ ~Logged(M, "setup_expired")
       /\ Logged(M, "data_end_reached") <=> x.reason = "data_end"
       /\ ~Abandoned(M) /\ (Ambiguous(M) <=> x.ambiguous)
  <2>1. M = Append(N, e)
    BY DEF N
  <2>2. /\ ~Logged(Append(N, e), "simulation_failed")
        /\ ~Logged(Append(N, e), "setup_expired")
        /\ Logged(Append(N, e), "data_end_reached") <=> x.reason = "data_end"
        /\ ~Abandoned(Append(N, e)) /\ (Ambiguous(Append(N, e)) <=> x.ambiguous)
    BY <1>7, <1>9, <1>14, LoggedAppend
  <2> QED BY <2>1, <2>2
<1>16. /\ Rebuild(plan, M) = Rebuild(plan, N) /\ Sold(M) = Sold(N) /\ LedgerOK(M, n)
       /\ M = Append(N, e) /\ Ended(M)
  <2>1. M = Append(N, e)
    BY DEF N
  <2>2. Rebuild(plan, M) = Rebuild(plan, N) /\ Sold(M) = Sold(N)
    <3>1. /\ Rebuild(plan, Append(N, e)) = Rebuild(plan, N)
          /\ Sold(Append(N, e)) = Sold(N)
      BY <1>7, <1>14, RemarkAppend
    <3> QED BY <2>1, <3>1
  <2>3. LedgerOK(M, n)
    BY <1>2, <1>7, <2>1, RemarkIsOK, LedgerAppend DEF Exited
  <2>4. Ended(M)
    BY <1>7, <1>14, <2>1 DEF Ended
  <2> QED BY <2>1, <2>2, <2>3, <2>4
<1>17. Exited(L, pos, exits, after, M)
  BY <1>2, <1>16 DEF Exited
<1>18. after.pos.status = "closed" /\ after.pos.closed = x.reason
  BY <1>3 DEF Finished
<1>19. Rebuild(plan, L) = pos => Ruled(RuledOutcome(after.pos, x.ambiguous), M)
  <2> SUFFICES ASSUME Rebuild(plan, L) = pos
               PROVE  Ruled(RuledOutcome(after.pos, x.ambiguous), M)
    OBVIOUS
  <2>1. after.pos = Rebuild(plan, M) /\ after.pos # NoPosition
    BY <1>17, HeldIsPosition DEF Exited
  <2>2. CASE x.reason = "data_end"
    <3>1. RebuildOutcome(plan, M) = Inconclusive("none")
      BY <1>15, <2>2, OutcomeByFacts
    <3>2. RuledOutcome(after.pos, x.ambiguous) = Inconclusive("data_end")
      BY <1>18, <2>2 DEF RuledOutcome
    <3> QED BY <1>5, <2>2, <3>1, <3>2 DEF Ruled
  <2>3. CASE x.reason # "data_end"
    <3>1. RebuildOutcome(plan, M) = RuledOutcome(after.pos, Ambiguous(M))
      BY <1>9, <1>15, <1>18, <2>1, <2>3, OutcomeByFacts
    <3>2. RuledOutcome(after.pos, Ambiguous(M)) = RuledOutcome(after.pos, x.ambiguous)
      BY <1>15 DEF RuledOutcome
    <3> QED BY <3>1, <3>2 DEF Ruled
  <2> QED BY <2>2, <2>3
<1>20. RuledOutcome(after.pos, x.ambiguous) \in OutcomeT
  BY <1>6, <1>18 DEF RuledOutcome, Inconclusive, ByPnl, OutcomeT, CloseReasons
<1>21. Row("completed", x.reason, x.at) \in RunT(n)
  BY <1>1, <1>5, <1>6 DEF RunT, Row, RunReasons, Statuses
<1>22. Append(after.events, e) \in Seq(EventT) /\ L \o Append(after.events, e) = M
  <2>1. after.events \in Seq(EventT)
    BY <1>2 DEF Exited
  <2>2. L \o Append(after.events, e) = Append(L \o after.events, e)
    <3>1. PICK K \in Seq(EventT) : K = after.events
      BY <2>1
    <3>2. L \o Append(K, e) = Append(L \o K, e)
      BY <1>1, <1>7, ConcatAppend
    <3> QED BY <3>1, <3>2
  <2>3. Append(after.events, e) \in Seq(EventT)
    <3>1. e \in EventT
      BY <1>7
    <3> QED BY <2>1, <3>1
  <2> QED BY <1>7, <2>2, <2>3
<1> QED BY <1>16, <1>17, <1>18, <1>19, <1>20, <1>21, <1>22 DEF FinalRows

\* The rows of a position that such exits leave open.
PartialRows(L, pos, exits, after, N) ==
  /\ Exited(L, pos, exits, after, N) /\ Keeps(after.pos, N) /\ N # <<>>
  /\ exits # <<>> => after.pos.status \in {"partially_closed", "closed"}
  /\ exits = <<>> => after.pos = pos

\* The last exit, if there is one, is partial.
LEMMA PartialExits ==
  ASSUME Typed, NEW L, LedgerOK(L, Len(tape)), Quiet(L), L # <<>>,
         NEW pos, Held(pos, Len(tape)), pos.since = L[1].at,
         NEW exits, NEW mark \in Nat, NEW partials,
         Formed(plan, mark, Len(tape), partials, exits), ~IsFinal(exits),
         NEW after, after = Applied(plan, pos, exits),
         DOMAIN plan.partials = {} => DOMAIN partials = {} /\ Len(L) <= 1
  PROVE  PartialRows(L, pos, exits, after, L \o after.events)
<1> DEFINE n == Len(tape)
           N == L \o after.events
<1>1. n \in Nat /\ L \in Seq(EventT)
  BY DEF Typed, LedgerOK
<1>2. Exited(L, pos, exits, after, N) /\ AppliedTo(plan, L, pos, n, exits, after)
  BY <1>1, ExitedByApplied
<1>3. AllPartly(after.events)
  BY <1>2 DEF AppliedTo
<1>4. Quiet(N) /\ N # <<>> /\ N[1] = L[1]
  BY <1>1, <1>3, QuietConcat
<1>5. after.pos # NoPosition /\ after.pos.since = N[1].at
  BY <1>2, <1>4, HeldIsPosition DEF Exited
<1>6. ASSUME plan.partials = NoPartials PROVE Len(N) <= 1
  <2>1. DOMAIN plan.partials = {}
    BY <1>6 DEF NoPartials
  <2>2. exits = <<>>
    <3> SUFFICES ASSUME exits # <<>> PROVE FALSE
      OBVIOUS
    <3>1. Len(exits) \in 1..Len(exits)
      BY DEF Formed
    <3>2. exits[Len(exits)].share = All
      BY <2>1, <3>1 DEF Formed
    <3> QED BY <3>2 DEF IsFinal
  <2>3. after.events = <<>>
    BY <1>2, <2>2 DEF AppliedTo
  <2>4. N = L
    BY <1>1, <2>3
  <2> QED BY <2>1, <2>4
<1>7. Keeps(after.pos, N)
  BY <1>4, <1>5, <1>6 DEF Keeps
<1>8. /\ exits # <<>> => after.pos.status \in {"partially_closed", "closed"}
      /\ exits = <<>> => after.pos = pos
  BY <1>2 DEF AppliedTo
<1> QED BY <1>2, <1>4, <1>7, <1>8 DEF PartialRows

\* findPositionTransitions over the tape, or over no candles at all.
LEMMA TransitionsFormed ==
  ASSUME Typed, NEW cs \in {tape, <<>>}, NEW mark \in Nat, NEW since \in Nat,
         NEW partials, PartialsOK(partials)
  PROVE  Formed(plan, mark, Len(tape), partials,
                Transitions(plan, cs, mark, since, partials))
<1>1. tape \in Seq(Candle) /\ PlanOK(plan)
  BY PlanIsOK DEF Typed
<1>2. CASE cs = tape
  BY <1>1, <1>2, TransitionsShape DEF Shape
<1>3. CASE cs = <<>>
  <2>1. Transitions(plan, cs, mark, since, partials) = <<>>
    BY <1>3 DEF Transitions
  <2> QED BY <2>1 DEF Formed
<1> QED BY <1>2, <1>3

LEMMA HoldsMoves ==
  ASSUME Steady, NEW cs \in {tape, <<>>}, RefreshHolds(cs)
  PROVE  Moves
<1> DEFINE n == Len(tape)
           partials == IF position.status = "open" THEN plan.partials ELSE NoPartials
           exits == Transitions(plan, cs, run.mark, position.since, partials)
           after == Applied(plan, position, exits)
           mark == IF Len(cs) > run.mark THEN Len(cs) ELSE run.mark
<1>1. /\ run.status \in Active /\ position # NoPosition /\ Held(position, n)
      /\ position.status # "closed" /\ position.since = ledger[1].at
      /\ Quiet(ledger) /\ ledger # <<>> /\ n \in Nat
      /\ ledger \in Seq(EventT) /\ LedgerOK(ledger, n)
  BY HoldFacts DEF RefreshHolds
<1>2. /\ CASE exits = <<>> ->
                Commits([run EXCEPT !.mark = mark], position, outcome, <<>>)
           [] IsFinal(exits) -> Completes(after.pos, exits, after.events)
           [] OTHER ->
                Commits(Row("position_open", "partial_target_filled",
                            exits[Len(exits)].at),
                        after.pos, outcome, after.events)
  BY DEF RefreshHolds
<1>3. Typed /\ run.mark \in 0..n /\ run.mark \in Nat /\ run \in RunT(n)
  BY <1>1 DEF Steady, Typed, RunT
<1>4. PartialsOK(partials) /\ (DOMAIN plan.partials = {} => DOMAIN partials = {})
  BY <1>3, PlanIsOK, EmptyPartials
<1>5. position.since \in Nat
  BY <1>1 DEF Held
<1>6. Formed(plan, run.mark, n, partials, exits)
  BY <1>3, <1>4, <1>5, TransitionsFormed
<1>7. DOMAIN plan.partials = {} => Len(ledger) <= 1
  <2>1. DOMAIN plan.partials = {} => plan.partials = NoPartials
    BY <1>3, PlanIsOK, EmptyPartials
  <2> QED BY <1>1, <2>1 DEF Steady, Lifecycle
<1>8. mark \in 0..n
  <2>1. Len(cs) \in 0..n
    BY <1>1
  <2> QED BY <1>3, <2>1
<1>9. outcome \in OutcomeT /\ PositionOK(position, n)
  BY <1>1 DEF Steady, Typed
<1> HIDE DEF partials, exits, after, mark
<1>10. CASE exits = <<>>
  <2> DEFINE next == [run EXCEPT !.mark = mark]
  <2>1. Commits(next, position, outcome, <<>>)
    BY <1>2, <1>10 DEF IsFinal
  <2>2. next \in RunT(n) /\ next.status \in Active
    BY <1>1, <1>3, <1>8 DEF RunT
  <2> HIDE DEF next
  <2>3. Keeps(position, ledger)
    BY <1>1 DEF Keeps, Steady, Lifecycle
  <2>4. Move(next, position, outcome, ledger)
    BY <1>1, <1>9, <2>2, <2>3 DEF Move, ExitsAddUp
  <2>5. ledger \o <<>> = ledger /\ <<>> \in Seq(EventT)
    BY <1>1
  <2> QED BY <1>1, <2>1, <2>4, <2>5 DEF Moves
<1>11. CASE exits # <<>> /\ IsFinal(exits)
  <2> DEFINE x == exits[Len(exits)]
             e == Note("simulation_completed", x.at, x.reason)
             next == Row("completed", x.reason, x.at)
             out == RuledOutcome(after.pos, x.ambiguous)
             M == Append(ledger \o after.events, e)
  <2>1. Commits(next, after.pos, out, Append(after.events, e))
    BY <1>2, <1>11 DEF Completes
  <2> HIDE DEF n
  <2>0. FinalRows(ledger, position, exits, after, x, e, M)
    BY <1>1, <1>3, <1>6, <1>11, FinalExit DEF after, n
  <2>2. /\ Exited(ledger, position, exits, after, M) /\ Ended(M)
        /\ Rebuild(plan, ledger) = position => Ruled(out, M)
        /\ out \in OutcomeT /\ next \in RunT(Len(tape))
        /\ Append(after.events, e) \in Seq(EventT)
        /\ ledger \o Append(after.events, e) = M
    BY <2>0 DEF FinalRows
  <2>3. next.status = "completed"
    BY DEF Row
  <2> HIDE DEF x, e, next, out, M
  <2>4. Move(next, after.pos, out, M)
    BY <1>1, <2>2, <2>3 DEF Move, Exited, PositionOK, ExitsAddUp
  <2> QED BY <1>1, <2>1, <2>2, <2>4 DEF Moves
<1>12. CASE exits # <<>> /\ ~IsFinal(exits)
  <2> DEFINE next == Row("position_open", "partial_target_filled",
                         exits[Len(exits)].at)
             N == ledger \o after.events
  <2>1. Commits(next, after.pos, outcome, after.events)
    BY <1>2, <1>12
  <2>2. Exited(ledger, position, exits, after, N) /\ Keeps(after.pos, N)
    <3>1. PartialRows(ledger, position, exits, after, N)
      BY <1>1, <1>3, <1>4, <1>6, <1>7, <1>12, PartialExits DEF after
    <3> QED BY <3>1 DEF PartialRows
  <2>3. next \in RunT(n) /\ next.status \in Active
    <3>1. Len(exits) \in 1..Len(exits)
      BY <1>6, <1>12 DEF Formed
    <3>2. exits[Len(exits)].at \in (run.mark + 1)..n
      BY <1>6, <3>1 DEF Formed
    <3> QED BY <1>3, <3>2 DEF Row, RunT, RunReasons, Statuses, Active
  <2> HIDE DEF next, N
  <2>4. Move(next, after.pos, outcome, N)
    BY <1>1, <1>9, <2>2, <2>3 DEF Move, Exited, PositionOK, ExitsAddUp
  <2> QED BY <1>1, <2>1, <2>2, <2>4 DEF Moves, Exited, N
<1> QED BY <1>10, <1>11, <1>12

\* The ledger and the position of a run that has just entered.
JustEntered(p, n, e, L, pos) ==
  /\ e \in EventT /\ LedgerOK(L, n) /\ Quiet(L) /\ L # <<>> /\ Len(L) = 1
  /\ Held(pos, n) /\ pos.since = L[1].at
  /\ Rebuild(p, L) = pos /\ Sold(L) + pos.remaining = pos.opened

LEMMA EnteredLedger ==
  ASSUME NEW p, NEW n \in Nat, NEW at \in 1..n, NEW price \in Int,
         NEW quantity \in Nat \ {0},
         NEW e, e = Event("position_opened", at, price, quantity, "entry_filled"),
         NEW pos, pos = OpenPosition(price, quantity, at)
  PROVE  JustEntered(p, n, e, <<e>>, pos)
<1>1. /\ e \in EventT /\ EventOK(e, n) /\ e.type = "position_opened"
      /\ e.reason = "entry_filled" /\ e.at = at /\ e.price = price
      /\ e.quantity = quantity /\ ~Sells(e)
  BY DEF EventOK, Event, EventT, Types, Codes, Sells
<1>2. <<e>> = Append(<<>>, e) /\ <<>> \in Seq(EventT)
  BY <1>1, EmptyAppend
<1>3. LedgerOK(<<e>>, n)
  <2>1. LedgerOK(<<>>, n)
    BY DEF LedgerOK
  <2> QED BY <1>1, <1>2, <2>1, LedgerAppend
<1>4. Quiet(<<e>>)
  BY <1>1 DEF Quiet
<1>5. Held(pos, n) /\ pos.since = at
  BY OpenIsHeld DEF OpenPosition
<1>6. Rebuild(p, <<e>>) = pos
  <2> DEFINE none == <<>>
  <2>1. none \in Seq(EventT) /\ Rebuild(p, none) = NoPosition /\ <<e>> = Append(none, e)
    BY <1>2, RebuildEmpty
  <2> HIDE DEF none
  <2>2. Rebuild(p, Append(none, e)) = RebuildStep(p, Rebuild(p, none), e)
    BY <1>1, <2>1, RebuildAppend
  <2> QED BY <1>1, <2>1, <2>2 DEF RebuildStep
<1>7. Sold(<<e>>) = 0
  <2> DEFINE none == <<>>
  <2>1. none \in Seq(EventT) /\ Sold(none) = 0 /\ <<e>> = Append(none, e)
    BY <1>2, SoldEmpty
  <2> HIDE DEF none
  <2>2. Sold(Append(none, e)) = SoldStep(Sold(none), e)
    BY <1>1, <2>1, SoldAppend
  <2> QED BY <1>1, <2>1, <2>2 DEF SoldStep
<1>8. pos.remaining = quantity /\ pos.opened = quantity
  BY DEF OpenPosition
<1>9. <<e>>[1].at = at /\ Len(<<e>>) = 1 /\ <<e>> # <<>>
  BY <1>1
<1> QED BY <1>1, <1>3, <1>4, <1>5, <1>6, <1>7, <1>8, <1>9 DEF JustEntered

\* A replay that is still in the market where its data ends.
LEMMA DryMoves ==
  ASSUME Steady, NEW L, NEW pos, NEW exits, NEW after, NEW N,
         run.status \in Active, position = NoPosition, ledger = <<>>,
         Exited(L, pos, exits, after, N), Quiet(N), Rebuild(plan, L) = pos,
         Sold(L) + pos.remaining = pos.opened,
         NEW dry, dry = Note("data_end_reached", Len(tape), "data_end_reached"),
         NEW over, over = Note("simulation_completed", Len(tape), "data_end_reached"),
         Commits(Row("completed", "data_end_reached", Len(tape)), after.pos,
                 Inconclusive("none"), N \o <<dry, over>>)
  PROVE  Moves
<1> DEFINE n == Len(tape)
           M == Append(N, dry)
           O == Append(M, over)
           next == Row("completed", "data_end_reached", n)
           out == Inconclusive("none")
<1>1. n \in Nat /\ N \in Seq(EventT) /\ LedgerOK(N, n)
  BY DEF Steady, Typed, Exited, LedgerOK
<1>2. Remark(dry) /\ dry.type = "data_end_reached" /\ ~Concluding(dry) /\ dry \in EventT
  BY <1>1, NoteIsRemark DEF Codes, Concluding, Remark
<1>3. /\ Remark(over) /\ over.type = "simulation_completed" /\ Concluding(over)
      /\ over \in EventT
  BY <1>1, NoteIsRemark DEF Codes, Concluding, Remark
<1>4. N \o <<dry, over>> = O /\ <<dry, over>> \in Seq(EventT) /\ O \in Seq(EventT)
  BY <1>1, <1>2, <1>3, AppendTwice
<1>5. /\ M \in Seq(EventT) /\ LedgerOK(M, n) /\ Unconcluded(M)
      /\ Logged(M, "data_end_reached") /\ ~Logged(M, "simulation_failed")
      /\ ~Logged(M, "setup_expired")
  BY <1>1, <1>2, QuietIsPlain, PlainAppend, RemarkIsOK, LedgerAppend
<1>6. Rebuild(plan, M) = Rebuild(plan, N) /\ Sold(M) = Sold(N)
  BY <1>1, <1>2, RemarkAppend
<1> HIDE DEF M
<1>7. /\ LedgerOK(O, n) /\ Logged(O, "data_end_reached")
      /\ ~Logged(O, "simulation_failed") /\ ~Logged(O, "setup_expired")
  BY <1>3, <1>5, RemarkIsOK, LedgerAppend, LoggedAppend
<1>8. Rebuild(plan, O) = after.pos /\ Sold(O) + after.pos.remaining = after.pos.opened
  <2>1. Rebuild(plan, O) = Rebuild(plan, M) /\ Sold(O) = Sold(M)
    BY <1>3, <1>5, RemarkAppend
  <2> QED BY <1>6, <2>1 DEF Exited
<1>9. Ended(O)
  BY <1>3, <1>5 DEF Ended
<1>10. next \in RunT(n) /\ next.status = "completed" /\ out \in OutcomeT
  BY <1>1 DEF RunT, Row, RunReasons, Statuses, OutcomeT, Inconclusive
<1> HIDE DEF O
<1>11. Ruled(out, O)
  BY <1>7, OutcomeByFacts DEF Ruled
<1>12. Commits(next, after.pos, out, O)
  BY <1>4
<1> HIDE DEF next, out
<1>13. Move(next, after.pos, out, O)
  BY <1>7, <1>8, <1>9, <1>10, <1>11 DEF Move, Exited, PositionOK
<1>14. <<>> \o O = O
  BY <1>4
<1> QED BY <1>4, <1>12, <1>13, <1>14 DEF Moves

LEMMA EntersMoves ==
  ASSUME Steady, RefreshEnters(tape)
  PROVE  Moves
<1> DEFINE n == Len(tape)
           e == Entry(tape)
           exits == Transitions(plan, tape, e.at, e.at, plan.partials)
           pos == OpenPosition(e.price, plan.quantity, e.at)
           after == Applied(plan, pos, exits)
           opened == Event("position_opened", e.at, e.price, plan.quantity,
                           "entry_filled")
           L == <<opened>>
           events == L \o after.events
           mark == IF exits = <<>> THEN e.at ELSE exits[Len(exits)].at
           dry == Note("data_end_reached", n, "data_end_reached")
           over == Note("simulation_completed", n, "data_end_reached")
           reason == IF after.pos.status = "partially_closed"
                     THEN "partial_target_filled" ELSE "entry_filled"
<1>1. /\ run.status \in Active /\ position = NoPosition /\ ledger = <<>>
      /\ n \in Nat /\ e # NoEntry
  BY SeekFacts DEF RefreshEnters
<1>2. /\ CASE IsFinal(exits) -> Completes(after.pos, exits, events)
           [] ~IsFinal(exits) /\ plan.mode = "replay" ->
                Commits(Row("completed", "data_end_reached", n), after.pos,
                        Inconclusive("none"), events \o <<dry, over>>)
           [] OTHER ->
                Commits(Row("position_open", reason, mark), after.pos, outcome, events)
  BY DEF RefreshEnters
<1>3. Typed /\ PlanOK(plan) /\ tape \in Seq(Candle)
  BY PlanIsOK DEF Steady, Typed
<1>4. e.at \in 1..n /\ e.at \in Nat /\ e.price \in Int
  <2>1. EntryAt(e, n)
    BY <1>3, EntryOK DEF Entry
  <2> QED BY <1>1, <2>1 DEF EntryAt
<1>5. plan.quantity \in Nat \ {0} /\ PartialsOK(plan.partials)
  BY <1>3, EmptyPartials DEF PlanOK
<1>6. Formed(plan, e.at, n, plan.partials, exits)
  BY <1>3, <1>4, <1>5, TransitionsFormed
<1> HIDE DEF e, exits
<1>7. /\ opened \in EventT /\ LedgerOK(L, n) /\ Quiet(L) /\ L # <<>>
      /\ Len(L) = 1 /\ Held(pos, n) /\ pos.since = L[1].at
      /\ Rebuild(plan, L) = pos /\ Sold(L) + pos.remaining = pos.opened
  <2>1. JustEntered(plan, n, opened, L, pos)
    BY <1>1, <1>4, <1>5, EnteredLedger
  <2> QED BY <2>1 DEF JustEntered
<1>8. L \in Seq(EventT)
  BY <1>7 DEF LedgerOK
<1> HIDE DEF opened, L, pos, after, mark
<1>9. CASE IsFinal(exits)
  <2> DEFINE x == exits[Len(exits)]
             over1 == Note("simulation_completed", x.at, x.reason)
             next == Row("completed", x.reason, x.at)
             out == RuledOutcome(after.pos, x.ambiguous)
             M == Append(L \o after.events, over1)
  <2>1. Commits(next, after.pos, out, M)
    BY <1>2, <1>9 DEF Completes
  <2>2. FinalRows(L, pos, exits, after, x, over1, M)
    BY <1>3, <1>4, <1>6, <1>7, <1>9, FinalExit DEF after
  <2>3. next.status = "completed"
    BY DEF Row
  <2> HIDE DEF x, over1, next, out, M
  <2>4. /\ Exited(L, pos, exits, after, M) /\ Ended(M) /\ M \in Seq(EventT)
        /\ Ruled(out, M) /\ out \in OutcomeT /\ next \in RunT(n)
    BY <1>7, <2>2 DEF FinalRows, out, next, Exited, LedgerOK
  <2>5. Move(next, after.pos, out, M)
    BY <1>7, <2>3, <2>4 DEF Move, Exited, PositionOK
  <2>6. <<>> \o M = M
    BY <2>4
  <2> QED BY <1>1, <2>1, <2>4, <2>5, <2>6 DEF Moves
<1>10. ASSUME ~IsFinal(exits)
       PROVE  /\ Exited(L, pos, exits, after, events) /\ Keeps(after.pos, events)
              /\ events # <<>> /\ events \in Seq(EventT)
  <2>1. DOMAIN plan.partials = {} => DOMAIN plan.partials = {} /\ Len(L) <= 1
    BY <1>7
  <2>2. /\ Exited(L, pos, exits, after, events) /\ Keeps(after.pos, events)
        /\ events # <<>>
    <3>1. PartialRows(L, pos, exits, after, events)
      BY <1>3, <1>4, <1>6, <1>7, <1>10, <2>1, PartialExits DEF after
    <3> QED BY <3>1 DEF PartialRows
  <2> QED BY <2>2 DEF Exited, LedgerOK
<1>11. CASE ~IsFinal(exits) /\ plan.mode = "replay"
  <2>1. Commits(Row("completed", "data_end_reached", n), after.pos,
                Inconclusive("none"), events \o <<dry, over>>)
    BY <1>2, <1>11
  <2>2. Exited(L, pos, exits, after, events) /\ Quiet(events)
    BY <1>10, <1>11 DEF Keeps
  <2> HIDE DEF events
  <2> QED BY <1>1, <1>7, <2>1, <2>2, DryMoves
<1>12. CASE ~IsFinal(exits) /\ plan.mode # "replay"
  <2> DEFINE next == Row("position_open", reason, mark)
  <2>1. Commits(next, after.pos, outcome, events)
    BY <1>2, <1>12
  <2>2. mark \in 0..n
    <3>1. exits # <<>> => Len(exits) \in 1..Len(exits)
      BY <1>6 DEF Formed
    <3>2. exits # <<>> => exits[Len(exits)].at \in (e.at + 1)..n
      BY <1>6, <3>1 DEF Formed
    <3> QED BY <1>4, <3>2 DEF mark
  <2>3. next \in RunT(n) /\ next.status \in Active
    BY <2>2 DEF Row, RunT, RunReasons, Statuses, Active
  <2>4. /\ Exited(L, pos, exits, after, events) /\ Keeps(after.pos, events)
        /\ events \in Seq(EventT)
    BY <1>10, <1>12
  <2> HIDE DEF next, events
  <2>5. Move(next, after.pos, outcome, events)
    BY <1>7, <2>3, <2>4 DEF Move, Exited, PositionOK, Steady, Typed
  <2>6. <<>> \o events = events
    BY <2>4
  <2> QED BY <1>1, <2>1, <2>4, <2>5, <2>6 DEF Moves
<1> QED BY <1>9, <1>11, <1>12

\* Every request that finds the run active, and its position open or missing.
Requested ==
  \/ \E cs \in {tape, <<>>} :
        /\ Response(cs)
        /\ \/ RefreshFindsNoCandles(cs) \/ RefreshMisses(cs)
           \/ RefreshEndsUnfilled(cs) \/ RefreshWaits(cs)
           \/ RefreshEnters(cs) \/ RefreshHolds(cs)
  \/ RefreshThrows \/ CloseManually \/ Abandon

LEMMA RequestMoves == ASSUME Steady, Requested PROVE Moves
<1>0. Len(tape) \in Nat
  BY DEF Steady, Typed
<1>1. CASE RefreshThrows
  BY <1>1, FailMoves DEF RefreshThrows
<1>2. CASE CloseManually
  BY <1>2, CloseMoves
<1>3. CASE Abandon
  <2>1. run.mark \in 0..Len(tape)
    BY DEF Steady, Typed, RunT
  <2>2. Inconclusive("none") \in OutcomeT
    BY DEF OutcomeT, Inconclusive
  <2> QED BY <1>3, <2>1, <2>2, EndMoves DEF Abandon
<1>4. ASSUME NEW cs \in {tape, <<>>}, RefreshFindsNoCandles(cs) PROVE Moves
  BY <1>4, FailMoves DEF RefreshFindsNoCandles
<1>5. ASSUME NEW cs \in {tape, <<>>}, RefreshMisses(cs) PROVE Moves
  <2>1. cs = tape /\ Seeks /\ Expired(plan, tape)
    BY <1>5 DEF RefreshMisses
  <2> DEFINE at == plan.expiry + 1
  <2>2. at \in 0..Len(tape)
    <3>1. plan.expiry \in Nat
      BY PlanIsOK DEF Steady, PlanOK
    <3> QED BY <1>0, <2>1, <3>1 DEF Expired
  <2>3. Missed \in OutcomeT
    BY DEF OutcomeT, Missed
  <2>4. Ends("completed", at, "setup_expiry", Missed,
             <<Note("setup_expired", at, "entry_missed")>>)
    BY <1>5 DEF RefreshMisses
  <2> HIDE DEF at
  <2> QED BY <2>1, <2>2, <2>3, <2>4, EndMoves
<1>6. ASSUME NEW cs \in {tape, <<>>}, RefreshEndsUnfilled(cs) PROVE Moves
  <2>1. cs = tape /\ Seeks
    BY <1>6 DEF RefreshEndsUnfilled
  <2> DEFINE n == Len(tape)
  <2>2. n \in 0..Len(tape)
    BY <1>0
  <2>3. Inconclusive("none") \in OutcomeT
    BY DEF OutcomeT, Inconclusive
  <2>4. Ends("completed", n, "data_end_reached", Inconclusive("none"),
             <<Note("data_end_reached", n, "data_end_reached")>>)
    BY <1>6, <2>1 DEF RefreshEndsUnfilled
  <2> HIDE DEF n
  <2> QED BY <2>1, <2>2, <2>3, <2>4, EndMoves
<1>7. ASSUME NEW cs \in {tape, <<>>}, RefreshWaits(cs) PROVE Moves
  <2>1. cs = tape
    BY <1>7 DEF RefreshWaits
  <2> QED BY <1>7, <2>1, WaitMoves DEF RefreshWaits
<1>8. ASSUME NEW cs \in {tape, <<>>}, RefreshEnters(cs) PROVE Moves
  <2>1. cs = tape
    BY <1>8 DEF RefreshEnters
  <2> QED BY <1>8, <2>1, EntersMoves
<1>9. ASSUME NEW cs \in {tape, <<>>}, RefreshHolds(cs) PROVE Moves
  BY <1>9, HoldsMoves
<1> QED BY <1>1, <1>2, <1>3, <1>4, <1>5, <1>6, <1>7, <1>8, <1>9 DEF Requested

-----------------------------------------------------------------------------
(***************************************************************************)
(* Typed and Lifecycle are invariant.                                      *)
(***************************************************************************)
LEMMA OutcomeOK ==
  ASSUME NEW p, NEW n \in Nat, NEW L, LedgerOK(L, n)
  PROVE  RebuildOutcome(p, L) \in OutcomeT
<1> DEFINE pos == Rebuild(p, L)
<1>1. PositionOK(pos, n)
  BY RebuildOK
<1> HIDE DEF pos
<1>2. Inconclusive("none") \in OutcomeT /\ Missed \in OutcomeT /\ NoOutcome \in OutcomeT
  BY DEF Inconclusive, Missed, NoOutcome, OutcomeT
<1>3. pos # NoPosition => pos.closed \in CloseReasons \cup {"none"}
  BY <1>1 DEF PositionOK, Held
<1>4. ManualOutcome(pos) \in OutcomeT
  BY DEF ManualOutcome, OutcomeT, ByPnl, CloseReasons
<1>5. pos # NoPosition => RuledOutcome(pos, Ambiguous(L)) \in OutcomeT
  BY <1>3 DEF RuledOutcome, Inconclusive, OutcomeT, ByPnl
<1>6. pos = Rebuild(p, L)
  BY DEF pos
<1> QED BY <1>2, <1>4, <1>5, <1>6, OutcomeByFacts

LEMMA LongerTape ==
  ASSUME NEW n \in Nat, NEW m \in Nat, n <= m
  PROVE  /\ \A L : LedgerOK(L, n) => LedgerOK(L, m)
         /\ \A pos : PositionOK(pos, n) => PositionOK(pos, m)
         /\ \A r : ReadingOK(r, n) => ReadingOK(r, m)
         /\ RunT(n) \subseteq RunT(m)
<1>1. \A e : EventOK(e, n) => EventOK(e, m)
  BY DEF EventOK
<1>2. \A L : LedgerOK(L, n) => LedgerOK(L, m)
  BY <1>1 DEF LedgerOK
<1>3. \A pos : Held(pos, n) => Held(pos, m)
  BY DEF Held
<1>4. \A pos : PositionOK(pos, n) => PositionOK(pos, m)
  BY <1>3 DEF PositionOK
<1>5. \A r : ReadingOK(r, n) => ReadingOK(r, m)
  BY <1>2, <1>4 DEF ReadingOK
<1>6. RunT(n) \subseteq RunT(m)
  BY DEF RunT
<1> QED BY <1>2, <1>4, <1>5, <1>6

LEMMA EarlierConcat ==
  ASSUME NEW L, Len(L) \in Nat, NEW M \in Seq(EventT), Earlier(L, M),
         NEW E \in Seq(EventT)
  PROVE  Earlier(L, M \o E)
<1>1. /\ Len(M \o E) = Len(M) + Len(E) /\ Len(M) \in Nat /\ Len(E) \in Nat
      /\ \A i \in 1..(Len(M) + Len(E)) :
           (M \o E)[i] = IF i <= Len(M) THEN M[i] ELSE E[i - Len(M)]
  BY ConcatProperties
<1>2. ASSUME NEW i \in 1..Len(L) PROVE L[i] = (M \o E)[i]
  <2>1. i \in 1..(Len(M) + Len(E)) /\ i <= Len(M)
    BY <1>1 DEF Earlier
  <2> QED BY <1>1, <2>1 DEF Earlier
<1> QED BY <1>1, <1>2 DEF Earlier

\* The GET requests have read a ledger that grew since.
LEMMA ReadingsLater ==
  ASSUME Steady, NEW E \in Seq(EventT), ledger' = ledger \o E, UNCHANGED gets
  PROVE  \A g \in Readers : Idles(gets'[g]) \/ Earlier(gets'[g].ledger, ledger')
<1> SUFFICES ASSUME NEW g \in Readers, ~Idles(gets[g])
             PROVE  Earlier(gets[g].ledger, ledger \o E)
  OBVIOUS
<1>1. ReadingOK(gets[g], Len(tape)) /\ Earlier(gets[g].ledger, ledger)
  BY DEF Steady, Typed, Lifecycle
<1>2. Len(gets[g].ledger) \in Nat
  BY <1>1 DEF ReadingOK, LedgerOK
<1>3. ledger \in Seq(EventT)
  BY DEF Steady, Typed, LedgerOK
<1> QED BY <1>1, <1>2, <1>3, EarlierConcat

\* Typed, when the tape is as it was.
LEMMA RowsTyped ==
  ASSUME Steady, UNCHANGED <<market, gets>>, fresh' \in BOOLEAN,
         run' \in RunT(Len(tape)), LedgerOK(ledger', Len(tape)),
         PositionOK(position', Len(tape)), outcome' \in OutcomeT
  PROVE  Typed'
BY DEF Steady, Typed, market

LEMMA MoveSteady ==
  ASSUME Steady, Moves, fresh' \in BOOLEAN
  PROVE  Steady'
<1> DEFINE n == Len(tape)
<1>1. PICK next, pos, out, events :
        /\ events \in Seq(EventT)
        /\ Commits(next, pos, out, events) /\ Move(next, pos, out, ledger \o events)
  BY DEF Moves
<1>2. n \in Nat
  BY DEF Steady, Typed
<1>3. /\ run' = next /\ ledger' = ledger \o events
      /\ position' = IF pos = NoPosition THEN Rebuild(plan, ledger') ELSE pos
      /\ outcome' = IF out = NoOutcome THEN RebuildOutcome(plan, ledger') ELSE out
      /\ UNCHANGED <<market, gets>>
  BY <1>1 DEF Commits
<1>4. /\ next \in RunT(n) /\ LedgerOK(ledger', n) /\ PositionOK(pos, n)
      /\ out \in OutcomeT
      /\ \/ next.status \in Active /\ Keeps(pos, ledger')
         \/ next.status \in {"completed", "failed"} /\ Ended(ledger')
  BY <1>1, <1>3 DEF Move
<1>5. PositionOK(position', n) /\ outcome' \in OutcomeT
  BY <1>2, <1>3, <1>4, RebuildOK, OutcomeOK
<1>6. Typed'
  BY <1>3, <1>4, <1>5, RowsTyped
<1>7. ASSUME run'.status \in Active
      PROVE  /\ Quiet(ledger') /\ (position' = NoPosition <=> ledger' = <<>>)
             /\ position' # NoPosition => position'.since = ledger'[1].at
             /\ plan'.partials = NoPartials => Len(ledger') <= 1
  <2>1. Keeps(pos, ledger')
    BY <1>3, <1>4, <1>7 DEF Active
  <2>2. position' = pos
    <3>1. CASE pos = NoPosition
      BY <1>3, <2>1, <3>1, RebuildEmpty DEF Keeps
    <3>2. CASE pos # NoPosition
      BY <1>3, <3>2
    <3> QED BY <3>1, <3>2
  <2> QED BY <1>3, <2>1, <2>2 DEF Keeps, market
<1>8. Lifecycle'
  BY <1>1, <1>3, <1>7, ReadingsLater DEF Lifecycle
<1> QED BY <1>6, <1>8 DEF Steady

\* Cancel and Answers: the rows stay, up to the status and a remark.
Cancelled == Note("simulation_cancelled", 0, "manual_cancel")
Stays ==
  \E next, events :
    /\ Commits(next, position, outcome, events)
    /\ \/ events = <<>> /\ next = run /\ ~Seeks
       \/ events \in {<<>>, <<Cancelled>>} /\ next = Row("cancelled", "manual_cancel", run.mark)

LEMMA StayCases == ASSUME Cancel \/ Answers PROVE Stays
<1>1. CASE Cancel
  BY <1>1 DEF Cancel, Stays, Cancelled
<1>2. CASE Answers
  BY <1>2 DEF Answers, Stays
<1> QED BY <1>1, <1>2

LEMMA StayLedger ==
  ASSUME Steady, NEW events \in {<<>>, <<Cancelled>>}
  PROVE  /\ events \in Seq(EventT) /\ LedgerOK(ledger \o events, Len(tape))
         /\ ledger \o events = ledger
              \/ ledger \o events = Append(ledger, Cancelled)
         /\ Remark(Cancelled) /\ ~Concluding(Cancelled)
<1>1. ledger \in Seq(EventT) /\ LedgerOK(ledger, Len(tape))
  BY DEF Steady, Typed, LedgerOK
<1>2. /\ Remark(Cancelled) /\ Cancelled.type = "simulation_cancelled"
      /\ Cancelled \in EventT
  BY NoteIsRemark DEF Cancelled, Codes, Remark
<1>3. CASE events = <<>>
  BY <1>1, <1>2, <1>3 DEF Concluding
<1>4. CASE events = <<Cancelled>>
  <2>1. events \in Seq(EventT) /\ ledger \o events = Append(ledger, Cancelled)
    BY <1>1, <1>2, <1>4, OneRemark
  <2>2. LedgerOK(Append(ledger, Cancelled), Len(tape))
    BY <1>1, <1>2, RemarkIsOK, LedgerAppend
  <2> QED BY <1>2, <2>1, <2>2 DEF Concluding
<1> QED BY <1>3, <1>4

LEMMA StaySteady ==
  ASSUME Steady, Stays, fresh' \in BOOLEAN
  PROVE  Steady'
<1> DEFINE n == Len(tape)
<1>1. PICK next, events :
        /\ Commits(next, position, outcome, events)
        /\ \/ events = <<>> /\ next = run /\ ~Seeks
           \/ /\ events \in {<<>>, <<Cancelled>>}
              /\ next = Row("cancelled", "manual_cancel", run.mark)
  BY DEF Stays
<1>2. n \in Nat /\ run \in RunT(n) /\ PositionOK(position, n) /\ outcome \in OutcomeT
      /\ ledger \in Seq(EventT)
  BY DEF Steady, Typed, LedgerOK
<1>3. /\ run' = next /\ ledger' = ledger \o events
      /\ position' = IF position = NoPosition THEN Rebuild(plan, ledger') ELSE position
      /\ outcome' = IF outcome = NoOutcome THEN RebuildOutcome(plan, ledger') ELSE outcome
      /\ UNCHANGED <<market, gets>>
  BY <1>1 DEF Commits
<1>4. events \in Seq(EventT) /\ LedgerOK(ledger', n)
  BY <1>1, <1>3, StayLedger
<1>5. next \in RunT(n)
  <2>1. Row("cancelled", "manual_cancel", run.mark) \in RunT(n)
    BY <1>2 DEF RunT, Row, RunReasons, Statuses
  <2> QED BY <1>1, <1>2, <2>1
<1>6. PositionOK(position', n) /\ outcome' \in OutcomeT
  BY <1>2, <1>3, <1>4, RebuildOK, OutcomeOK
<1>7. Typed'
  BY <1>3, <1>4, <1>5, <1>6, RowsTyped
<1>8. ASSUME run'.status \in Active
      PROVE  /\ Quiet(ledger') /\ (position' = NoPosition <=> ledger' = <<>>)
             /\ position' # NoPosition => position'.since = ledger'[1].at
             /\ plan'.partials = NoPartials => Len(ledger') <= 1
  <2>1. events = <<>> /\ next = run /\ ~Seeks
    BY <1>1, <1>3, <1>8 DEF Row, Active
  <2>2. ledger' = ledger /\ run.status \in Active
    BY <1>2, <1>3, <1>8, <2>1
  <2>3. position' = position
    BY <1>3, <2>1, <2>2 DEF Seeks
  <2> QED BY <1>3, <2>2, <2>3 DEF Steady, Lifecycle, market
<1>9. Lifecycle'
  BY <1>3, <1>4, <1>8, ReadingsLater DEF Lifecycle
<1> QED BY <1>7, <1>9 DEF Steady

\* The market: a candle more, or the last one is replaced.
LEMMA MarketSteady ==
  ASSUME Steady, Tick \/ Grow
  PROVE  Steady'
<1> DEFINE n == Len(tape)
           m == Len(tape')
<1>1. /\ UNCHANGED <<plan, rows, gets>> /\ fresh' = FALSE
      /\ tape' \in Seq(Candle) /\ m \in Nat /\ n \in Nat /\ n <= m /\ m <= MaxCandles
  <2>1. tape \in Seq(Candle) /\ n \in Nat /\ n <= MaxCandles /\ Candles \subseteq Candle
        /\ MaxCandles \in Nat
    BY PaperAssumption DEF Steady, Typed
  <2>2. CASE Tick
    <3>1. PICK c \in Candles : tape' = Append(tape, c)
      BY <2>2 DEF Tick
    <3>2. c \in Candle
      BY <2>1
    <3>3. n < MaxCandles /\ m = n + 1 /\ tape' \in Seq(Candle)
      BY <2>1, <2>2, <3>1, <3>2 DEF Tick
    <3> QED BY <2>1, <2>2, <3>3 DEF Tick
  <2>3. CASE Grow
    <3>1. PICK c \in Candles : tape' = [tape EXCEPT ![Len(tape)] = c]
      BY <2>3 DEF Grow
    <3>2. c \in Candle
      BY <2>1
    <3>3. tape' \in Seq(Candle) /\ m = n
      <4>1. Len(tape) \in 1..Len(tape)
        BY <2>1, <2>3 DEF Grow
      <4> QED BY <2>1, <3>1, <3>2, <4>1, ExceptSeq
    <3> QED BY <2>1, <2>3, <3>3 DEF Grow
  <2> QED BY <2>2, <2>3
<1>2. /\ LedgerOK(ledger, m) /\ PositionOK(position, m) /\ run \in RunT(m)
      /\ \A g \in Readers : Idles(gets[g]) \/ ReadingOK(gets[g], m)
  <2> HIDE DEF n, m
  <2>1. /\ \A L : LedgerOK(L, n) => LedgerOK(L, m)
        /\ \A pos : PositionOK(pos, n) => PositionOK(pos, m)
        /\ \A r : ReadingOK(r, n) => ReadingOK(r, m)
        /\ RunT(n) \subseteq RunT(m)
    BY <1>1, LongerTape
  <2> QED BY <2>1 DEF Steady, Typed, n
<1>3. Typed'
  BY <1>1, <1>2 DEF Steady, Typed, rows
<1>4. Lifecycle'
  BY <1>1 DEF Steady, Lifecycle, rows
<1> QED BY <1>3, <1>4 DEF Steady

\* One GET request goes from r to s.
GoesTo(g, r) == gets' = [gets EXCEPT ![g] = r]

LEMMA ReaderTyped ==
  ASSUME Steady, NEW g \in Readers, NEW r, GoesTo(g, r), UNCHANGED market,
         Idles(r) \/ (ReadingOK(r, Len(tape)) /\ Earlier(r.ledger, ledger))
  PROVE  /\ gets' = [h \in Readers |-> gets'[h]]
         /\ \A h \in Readers : Idles(gets'[h]) \/ ReadingOK(gets'[h], Len(tape'))
         /\ \A h \in Readers : Idles(gets'[h]) \/ Earlier(gets'[h].ledger, ledger)
         /\ gets'[g] = r /\ \A h \in Readers : h # g => gets'[h] = gets[h]
<1>1. gets = [h \in Readers |-> gets[h]]
  BY DEF Steady, Typed
<1>2. gets' = [h \in Readers |-> IF h = g THEN r ELSE gets[h]]
  BY <1>1 DEF GoesTo
<1>3. gets'[g] = r /\ \A h \in Readers : h # g => gets'[h] = gets[h]
  BY <1>2
<1>4. gets' = [h \in Readers |-> gets'[h]]
  BY <1>2
<1>5. \A h \in Readers : /\ Idles(gets[h]) \/ ReadingOK(gets[h], Len(tape))
                         /\ Idles(gets[h]) \/ Earlier(gets[h].ledger, ledger)
  BY DEF Steady, Typed, Lifecycle
<1>6. tape' = tape
  BY DEF market
<1> QED BY <1>3, <1>4, <1>5, <1>6

\* A reading request that reads on, or begins to save.
LEMMA ReadingGoesOn ==
  ASSUME Steady, NEW g \in Readers, gets[g].at \in {"reading", "saving"}
  PROVE  /\ ReadingOK(gets[g], Len(tape)) /\ Earlier(gets[g].ledger, ledger)
         /\ gets[g] = Reading(gets[g].at, gets[g].read, gets[g].position,
                              gets[g].outcome, gets[g].ledger)
<1>1. ~Idles(gets[g])
  BY DEF Idles, Idle, Done
<1>2. ReadingOK(gets[g], Len(tape)) /\ Earlier(gets[g].ledger, ledger)
  BY <1>1 DEF Steady, Typed, Lifecycle
<1> QED BY <1>2 DEF ReadingOK

PositionRead(r, v) == [[r EXCEPT !.position = v] EXCEPT !.read = @ \cup {"position"}]
OutcomeRead(r, v)  == [[r EXCEPT !.outcome = v] EXCEPT !.read = @ \cup {"outcome"}]
LedgerRead(r, v)   == [[r EXCEPT !.ledger = v] EXCEPT !.read = @ \cup {"ledger"}]

More(r, t) == [r EXCEPT !.read = @ \cup {t}]

LEMMA ReadMore ==
  ASSUME NEW at, NEW read, NEW pos, NEW out, NEW events, NEW t
  PROVE  More(Reading(at, read, pos, out, events), t)
           = Reading(at, read \cup {t}, pos, out, events)
BY DEF Reading, More

LEMMA PositionUpdate ==
  ASSUME NEW read, NEW pos, NEW out, NEW events, NEW v
  PROVE  PositionRead(Reading("reading", read, pos, out, events), v)
           = Reading("reading", read \cup {"position"}, v, out, events)
<1> DEFINE row == [Reading("reading", read, pos, out, events) EXCEPT !.position = v]
<1>1. row = Reading("reading", read, v, out, events)
  BY DEF Reading
<1>2. PositionRead(Reading("reading", read, pos, out, events), v) = More(row, "position")
  BY DEF PositionRead, More
<1> HIDE DEF row
<1> QED BY <1>1, <1>2, ReadMore

LEMMA OutcomeUpdate ==
  ASSUME NEW read, NEW pos, NEW out, NEW events, NEW v
  PROVE  OutcomeRead(Reading("reading", read, pos, out, events), v)
           = Reading("reading", read \cup {"outcome"}, pos, v, events)
<1> DEFINE row == [Reading("reading", read, pos, out, events) EXCEPT !.outcome = v]
<1>1. row = Reading("reading", read, pos, v, events)
  BY DEF Reading
<1>2. OutcomeRead(Reading("reading", read, pos, out, events), v) = More(row, "outcome")
  BY DEF OutcomeRead, More
<1> HIDE DEF row
<1> QED BY <1>1, <1>2, ReadMore

LEMMA LedgerUpdate ==
  ASSUME NEW read, NEW pos, NEW out, NEW events, NEW v
  PROVE  LedgerRead(Reading("reading", read, pos, out, events), v)
           = Reading("reading", read \cup {"ledger"}, pos, out, v)
<1> DEFINE row == [Reading("reading", read, pos, out, events) EXCEPT !.ledger = v]
<1>1. row = Reading("reading", read, pos, out, v)
  BY DEF Reading
<1>2. LedgerRead(Reading("reading", read, pos, out, events), v) = More(row, "ledger")
  BY DEF LedgerRead, More
<1> HIDE DEF row
<1> QED BY <1>1, <1>2, ReadMore

LEMMA ReadsStep ==
  ASSUME Steady, NEW g \in Readers,
         Begin(g) \/ ReadPosition(g) \/ ReadOutcome(g) \/ ReadLedger(g)
  PROVE  \E r : /\ GoesTo(g, r) /\ UNCHANGED <<market, rows, fresh>>
                /\ ReadingOK(r, Len(tape)) /\ Earlier(r.ledger, ledger)
                /\ \/ r.ledger = <<>>
                   \/ r.ledger = ledger
                   \/ ~Idles(gets[g]) /\ r.ledger = gets[g].ledger
<1> DEFINE n == Len(tape)
<1>0. /\ n \in Nat /\ ledger \in Seq(EventT) /\ LedgerOK(ledger, n) /\ Len(ledger) \in Nat
      /\ PositionOK(position, n) /\ outcome \in OutcomeT
  BY DEF Steady, Typed, LedgerOK
<1>1. CASE Begin(g)
  <2>1. /\ GoesTo(g, Begun) /\ UNCHANGED <<market, rows, fresh>>
    BY <1>1 DEF Begin, GoesTo
  <2>2. /\ Begun.at = "reading" /\ Begun.position = NoPosition
        /\ Begun.outcome = NoOutcome /\ Begun.ledger = <<>>
        /\ Begun = Reading("reading", {}, NoPosition, NoOutcome, <<>>)
        /\ Begun.read = {}
    BY DEF Begun, Reading
  <2>3. NoOutcome \in OutcomeT /\ LedgerOK(<<>>, n) /\ PositionOK(NoPosition, n)
    BY DEF NoOutcome, OutcomeT, LedgerOK, PositionOK
  <2>4. ReadingOK(Begun, n)
    BY <2>2, <2>3 DEF ReadingOK
  <2>5. Earlier(Begun.ledger, ledger)
    <3>1. Len(<<>>) = 0
      OBVIOUS
    <3> QED BY <1>0, <2>2, <3>1 DEF Earlier
  <2> QED BY <2>1, <2>2, <2>4, <2>5
<1>2. ASSUME gets[g].at = "reading"
      PROVE  /\ ReadingOK(gets[g], n) /\ Earlier(gets[g].ledger, ledger)
             /\ gets[g] = Reading("reading", gets[g].read, gets[g].position,
                                  gets[g].outcome, gets[g].ledger)
             /\ ~Idles(gets[g])
             /\ gets = [h \in Readers |-> gets[h]]
  BY <1>2, ReadingGoesOn DEF Idles, Idle, Done, Steady, Typed
<1>3. CASE ReadPosition(g)
  <2> DEFINE r == Reading("reading", gets[g].read \cup {"position"}, position,
                          gets[g].outcome, gets[g].ledger)
  <2>1. gets[g].at = "reading" /\ UNCHANGED <<market, rows, fresh>>
    BY <1>3 DEF ReadPosition, Reads
  <2>2. GoesTo(g, r)
    <3>1. gets' = [gets EXCEPT ![g] = PositionRead(gets[g], position)]
      BY <1>3 DEF ReadPosition, Reads, PositionRead
    <3>2. PositionRead(gets[g], position) = r
      <4> DEFINE old == gets[g]
                 read == gets[g].read
                 pos == gets[g].position
                 out == gets[g].outcome
                 events == gets[g].ledger
      <4>1. old = Reading("reading", read, pos, out, events)
        BY <1>2, <2>1
      <4>2. r = Reading("reading", read \cup {"position"}, position, out, events)
        OBVIOUS
      <4> HIDE DEF old, read, pos, out, events, r
      <4>3. PositionRead(old, position) = r
        BY <4>1, <4>2, PositionUpdate
      <4> QED BY <4>3 DEF old
    <3> QED BY <3>1, <3>2 DEF GoesTo
  <2>3. ReadingOK(r, n) /\ r.ledger = gets[g].ledger
    BY <1>0, <1>2, <2>1 DEF ReadingOK, Reading
  <2> QED BY <1>2, <2>1, <2>2, <2>3
<1>4. CASE ReadOutcome(g)
  <2> DEFINE r == Reading("reading", gets[g].read \cup {"outcome"}, gets[g].position,
                          outcome, gets[g].ledger)
  <2>1. gets[g].at = "reading" /\ UNCHANGED <<market, rows, fresh>>
    BY <1>4 DEF ReadOutcome, Reads
  <2>2. GoesTo(g, r)
    <3>1. gets' = [gets EXCEPT ![g] = OutcomeRead(gets[g], outcome)]
      BY <1>4 DEF ReadOutcome, Reads, OutcomeRead
    <3>2. OutcomeRead(gets[g], outcome) = r
      <4> DEFINE old == gets[g]
                 read == gets[g].read
                 pos == gets[g].position
                 out == gets[g].outcome
                 events == gets[g].ledger
      <4>1. old = Reading("reading", read, pos, out, events)
        BY <1>2, <2>1
      <4>2. r = Reading("reading", read \cup {"outcome"}, pos, outcome, events)
        OBVIOUS
      <4> HIDE DEF old, read, pos, out, events, r
      <4>3. OutcomeRead(old, outcome) = r
        BY <4>1, <4>2, OutcomeUpdate
      <4> QED BY <4>3 DEF old
    <3> QED BY <3>1, <3>2 DEF GoesTo
  <2>3. ReadingOK(r, n) /\ r.ledger = gets[g].ledger
    BY <1>0, <1>2, <2>1 DEF ReadingOK, Reading
  <2> QED BY <1>2, <2>1, <2>2, <2>3
<1>5. CASE ReadLedger(g)
  <2> DEFINE r == Reading("reading", gets[g].read \cup {"ledger"}, gets[g].position,
                          gets[g].outcome, ledger)
  <2>1. gets[g].at = "reading" /\ UNCHANGED <<market, rows, fresh>>
    BY <1>5 DEF ReadLedger, Reads
  <2>2. GoesTo(g, r)
    <3>1. gets' = [gets EXCEPT ![g] = LedgerRead(gets[g], ledger)]
      BY <1>5 DEF ReadLedger, Reads, LedgerRead
    <3>2. LedgerRead(gets[g], ledger) = r
      <4> DEFINE old == gets[g]
                 read == gets[g].read
                 pos == gets[g].position
                 out == gets[g].outcome
                 events == gets[g].ledger
      <4>1. old = Reading("reading", read, pos, out, events)
        BY <1>2, <2>1
      <4>2. r = Reading("reading", read \cup {"ledger"}, pos, out, ledger)
        OBVIOUS
      <4> HIDE DEF old, read, pos, out, events, r
      <4>3. LedgerRead(old, ledger) = r
        BY <4>1, <4>2, LedgerUpdate
      <4> QED BY <4>3 DEF old
    <3> QED BY <3>1, <3>2 DEF GoesTo
  <2>3. ReadingOK(r, n) /\ r.ledger = ledger
    BY <1>0, <1>2, <2>1 DEF ReadingOK, Reading
  <2>4. Earlier(ledger, ledger)
    BY <1>0 DEF Earlier
  <2> QED BY <2>1, <2>2, <2>3, <2>4
<1> QED BY <1>1, <1>3, <1>4, <1>5

\* What a step of a GET request does.
Served(g, r) ==
  /\ GoesTo(g, r) /\ r # Idle /\ UNCHANGED <<market, run, ledger, fresh>>
  /\ \/ Idles(r)
     \/ /\ ReadingOK(r, Len(tape)) /\ Earlier(r.ledger, ledger)
        /\ \/ r.ledger \in {<<>>, ledger}
           \/ ~Idles(gets[g]) /\ r.ledger = gets[g].ledger
  /\ \/ UNCHANGED <<position, outcome>>
     \/ /\ ~Idles(gets[g]) /\ UNCHANGED outcome
        /\ position' = Rebuild(plan, gets[g].ledger) /\ position' # NoPosition
     \/ /\ ~Idles(gets[g]) /\ UNCHANGED position
        /\ outcome' = RebuildOutcome(plan, gets[g].ledger) /\ outcome' # NoOutcome

LEMMA GetServes ==
  ASSUME Steady, NEW g \in Readers,
         \/ Begin(g) \/ ReadPosition(g) \/ ReadOutcome(g)
         \/ ReadLedger(g) \/ SavePosition(g) \/ SaveOutcome(g)
  PROVE  \E r : Served(g, r)
<1>1. CASE Begin(g) \/ ReadPosition(g) \/ ReadOutcome(g) \/ ReadLedger(g)
  <2>1. PICK r : /\ GoesTo(g, r) /\ UNCHANGED <<market, rows, fresh>>
                 /\ ReadingOK(r, Len(tape)) /\ Earlier(r.ledger, ledger)
                 /\ \/ r.ledger = <<>>
                    \/ r.ledger = ledger
                    \/ ~Idles(gets[g]) /\ r.ledger = gets[g].ledger
    BY <1>1, ReadsStep
  <2>2. r # Idle
    BY <2>1 DEF ReadingOK, Idle
  <2> QED BY <2>1, <2>2 DEF Served, rows
<1>2. CASE SavePosition(g)
  <2> DEFINE old == gets[g]
             r == Reading("saving", old.read, old.position, old.outcome, old.ledger)
  <2>1. /\ ReadingOK(old, Len(tape)) /\ Earlier(old.ledger, ledger)
        /\ old = Reading("reading", old.read, old.position, old.outcome, old.ledger)
    BY <1>2, ReadingGoesOn DEF SavePosition
  <2>2. gets = [h \in Readers |-> gets[h]]
    BY DEF Steady, Typed
  <2>3. [old EXCEPT !.at = "saving"] = r
    <3> DEFINE read == old.read
               pos == old.position
               out == old.outcome
               events == old.ledger
    <3> HIDE DEF read, pos, out, events
    <3>1. [Reading("reading", read, pos, out, events) EXCEPT !.at = "saving"]
            = Reading("saving", read, pos, out, events)
      BY DEF Reading
    <3> QED BY <2>1, <3>1 DEF read, pos, out, events
  <2>4. gets' = [gets EXCEPT ![g] = [old EXCEPT !.at = "saving"]]
    BY <1>2 DEF SavePosition
  <2>5. GoesTo(g, r)
    BY <2>3, <2>4 DEF GoesTo
  <2>6. ReadingOK(r, Len(tape)) /\ r.ledger = old.ledger /\ r # Idle
    BY <2>1 DEF ReadingOK, Reading, Idle
  <2>7. ~Idles(old)
    BY <1>2 DEF SavePosition, Idles, Idle, Done
  <2>8. /\ UNCHANGED <<market, run, ledger, outcome, fresh>>
        /\ \/ UNCHANGED position
           \/ position' = Rebuild(plan, old.ledger) /\ position' # NoPosition
    BY <1>2 DEF SavePosition
  <2> HIDE DEF r
  <2> QED BY <2>1, <2>5, <2>6, <2>7, <2>8 DEF Served
<1>3. CASE SaveOutcome(g)
  <2>1. GoesTo(g, Done) /\ Done # Idle /\ Idles(Done) /\ ~Idles(gets[g])
    BY <1>3 DEF SaveOutcome, GoesTo, Idles, Idle, Done
  <2>2. /\ UNCHANGED <<market, run, ledger, position, fresh>>
        /\ \/ UNCHANGED outcome
           \/ /\ outcome' = RebuildOutcome(plan, gets[g].ledger)
              /\ outcome' # NoOutcome
    BY <1>3 DEF SaveOutcome
  <2> QED BY <2>1, <2>2 DEF Served
<1> QED BY <1>1, <1>2, <1>3

LEMMA QuietEarlier ==
  ASSUME NEW n, NEW L, LedgerOK(L, n), NEW M, LedgerOK(M, n), Earlier(L, M), Quiet(M)
  PROVE  /\ Quiet(L) /\ Len(L) <= Len(M)
         /\ L # <<>> => M # <<>> /\ L[1] = M[1]
<1>1. /\ L \in Seq(EventT) /\ M \in Seq(EventT)
      /\ Len(L) \in Nat /\ Len(M) \in Nat /\ Len(L) <= Len(M)
      /\ \A i \in 1..Len(L) : i \in 1..Len(M) /\ L[i] = M[i]
  BY DEF LedgerOK, Earlier
<1>2. L # <<>> => 1 \in 1..Len(L)
  BY <1>1
<1>3. Quiet(L)
  <2>1. \A i \in 1..Len(L) : 1 \in 1..Len(L)
    BY <1>1
  <2> QED BY <1>1, <2>1 DEF Quiet
<1>4. M # <<>> \/ Len(M) = 0
  OBVIOUS
<1> QED BY <1>1, <1>2, <1>3, <1>4

LEMMA ServedSteady ==
  ASSUME Steady, NEW g \in Readers, NEW r, Served(g, r)
  PROVE  Steady'
<1> DEFINE n == Len(tape)
           M == gets[g].ledger
<1>1. /\ GoesTo(g, r) /\ UNCHANGED <<market, run, ledger, fresh>>
      /\ Idles(r) \/ (ReadingOK(r, Len(tape)) /\ Earlier(r.ledger, ledger))
  BY DEF Served
<1>2. /\ gets' = [h \in Readers |-> gets'[h]]
      /\ \A h \in Readers : Idles(gets'[h]) \/ ReadingOK(gets'[h], Len(tape'))
      /\ \A h \in Readers : Idles(gets'[h]) \/ Earlier(gets'[h].ledger, ledger)
  BY <1>1, ReaderTyped
<1>3. n \in Nat /\ LedgerOK(ledger, n) /\ PositionOK(position, n) /\ outcome \in OutcomeT
  BY DEF Steady, Typed
<1>4. ~Idles(gets[g]) => LedgerOK(M, n) /\ Earlier(M, ledger)
  BY DEF Steady, Typed, Lifecycle, ReadingOK
<1>5. PositionOK(position', n)
  <2>1. ~Idles(gets[g]) => PositionOK(Rebuild(plan, M), n)
    BY <1>3, <1>4, RebuildOK
  <2> QED BY <1>3, <2>1 DEF Served
<1>6. outcome' \in OutcomeT
  <2>1. ~Idles(gets[g]) => RebuildOutcome(plan, M) \in OutcomeT
    BY <1>3, <1>4, OutcomeOK
  <2> QED BY <1>3, <2>1 DEF Served
<1>7. Typed'
  BY <1>1, <1>2, <1>5, <1>6 DEF Steady, Typed, market
<1>8. ASSUME run.status \in Active
      PROVE  /\ position' = NoPosition <=> ledger = <<>>
             /\ position' # NoPosition => position'.since = ledger[1].at
  <2>1. /\ Quiet(ledger) /\ (position = NoPosition <=> ledger = <<>>)
        /\ position # NoPosition => position.since = ledger[1].at
    BY <1>8 DEF Steady, Lifecycle
  <2>2. CASE UNCHANGED position
    BY <2>1, <2>2
  <2>3. CASE /\ ~Idles(gets[g]) /\ position' = Rebuild(plan, M) /\ position' # NoPosition
    <3> HIDE DEF M
    <3>1. Quiet(M) /\ (M # <<>> => ledger # <<>> /\ M[1] = ledger[1])
      BY <1>3, <1>4, <2>1, <2>3, QuietEarlier DEF M
    <3>2. IF M = <<>> THEN position' = NoPosition ELSE Since(position', M)
      BY <1>3, <1>4, <2>3, <3>1, QuietSince DEF M
    <3> QED BY <2>3, <3>1, <3>2 DEF Since
  <2> QED BY <2>2, <2>3 DEF Served
<1>9. Lifecycle'
  BY <1>1, <1>2, <1>8 DEF Steady, Lifecycle, market
<1> QED BY <1>7, <1>9 DEF Steady

LEMMA InitSteady == ASSUME Init PROVE Steady
<1>1. tape \in Seq(Candle) /\ Len(tape) \in Nat /\ Len(tape) <= MaxCandles
  <2>0. Candles \subseteq Candle /\ MaxCandles \in Nat \ {0}
    BY PaperAssumption
  <2>1. CASE tape = <<>>
    <3>1. Len(<<>>) = 0 /\ <<>> \in Seq(Candle)
      OBVIOUS
    <3> QED BY <2>0, <2>1, <3>1
  <2>2. CASE tape \in UNION {[1..n -> Candles] : n \in 1..MaxCandles}
    <3>1. PICK n \in 1..MaxCandles : tape \in [1..n -> Candles]
      BY <2>2
    <3>2. tape \in [1..n -> Candle] /\ n \in Nat /\ n <= MaxCandles
      BY <2>0, <3>1
    <3>3. tape \in Seq(Candle) /\ Len(tape) = n
      BY <3>2
    <3> QED BY <3>2, <3>3
  <2> QED BY <2>1, <2>2 DEF Init
<1>2. LedgerOK(<<>>, Len(tape)) /\ Quiet(<<>>) /\ Len(<<>>) = 0
  BY DEF LedgerOK, Quiet
<1>3. run \in RunT(Len(tape))
  BY <1>1 DEF Init, Row, RunT, Statuses, RunReasons
<1>4. NoOutcome \in OutcomeT
  BY DEF NoOutcome, OutcomeT
<1>5. Typed
  BY <1>1, <1>2, <1>3, <1>4 DEF Init, Typed, PositionOK, Idles
<1>6. Lifecycle
  BY <1>2 DEF Init, Lifecycle, Idles
<1> QED BY <1>5, <1>6 DEF Steady

\* Every step is one of a request, of a GET request or of the market.
Market == Tick \/ Grow
Serves == \E g \in Readers : \E r : Served(g, r)
LEMMA NextCases ==
  ASSUME Steady, [Next]_vars
  PROVE  /\ fresh' \in BOOLEAN
         /\ \/ Moves /\ Requested
            \/ Stays /\ UNCHANGED fresh
            \/ Serves \/ Market
            \/ UNCHANGED vars
<1>0. fresh \in BOOLEAN
  BY DEF Steady, Typed
<1>1. CASE Refresh
  <2>1. CASE Answers /\ UNCHANGED fresh
    BY <1>0, <2>1, StayCases
  <2>2. CASE \E cs \in {tape, <<>>} :
               /\ Response(cs)
               /\ \/ RefreshFindsNoCandles(cs) \/ RefreshMisses(cs)
                  \/ RefreshEndsUnfilled(cs) \/ RefreshWaits(cs)
                  \/ RefreshEnters(cs) \/ RefreshHolds(cs)
               /\ fresh' = (fresh \/ cs = tape)
    <3>1. Requested
      BY <2>2 DEF Requested
    <3>2. fresh' \in BOOLEAN
      BY <2>2
    <3> QED BY <3>1, <3>2, RequestMoves
  <2> QED BY <1>1, <2>1, <2>2 DEF Refresh
<1>2. CASE RefreshThrows \/ CloseManually \/ Abandon
  <2>1. Requested
    BY <1>2 DEF Requested
  <2>2. UNCHANGED fresh
    BY <1>2 DEF RefreshThrows, CloseManually, Abandon
  <2> QED BY <1>0, <2>1, <2>2, RequestMoves
<1>3. CASE Cancel
  BY <1>0, <1>3, StayCases DEF Cancel
<1>4. CASE \E g \in Readers : \/ Begin(g) \/ ReadPosition(g) \/ ReadOutcome(g)
                              \/ ReadLedger(g) \/ SavePosition(g) \/ SaveOutcome(g)
  <2>1. Serves
    BY <1>4, GetServes DEF Serves
  <2> QED BY <1>0, <2>1 DEF Serves, Served
<1>5. CASE Tick \/ Grow
  BY <1>5 DEF Tick, Grow, Market
<1>6. CASE UNCHANGED vars
  BY <1>0, <1>6 DEF vars
<1> QED BY <1>1, <1>2, <1>3, <1>4, <1>5, <1>6 DEF Next

LEMMA NextSteady == ASSUME Steady, [Next]_vars PROVE Steady'
<1>1. CASE UNCHANGED vars
  BY <1>1 DEF vars, market, rows, Steady, Typed, Lifecycle
<1>2. CASE Serves
  BY <1>2, ServedSteady DEF Serves
<1> QED BY <1>1, <1>2, NextCases, MoveSteady, StaySteady, MarketSteady DEF Market

\* All rows keep their types, what a GET request has read is an earlier ledger, and the
\* ledger of a run that goes on is an entry with partial exits after it, as its
\* position says: whatever the plans, the candles and the requests.
THEOREM SteadyInvariant == Spec => []Steady
<1>1. Init => Steady
  BY InitSteady
<1>2. Steady /\ [Next]_vars => Steady'
  BY NextSteady
<1> QED BY <1>1, <1>2, PTL DEF Spec

\* What is typed has the types that the runs check.
LEMMA TypedIsTypeOK == ASSUME Typed PROVE TypeOK
<1> DEFINE n == Len(tape)
<1>1. n \in Nat /\ n <= MaxCandles /\ MaxCandles \in Nat
  BY PaperAssumption DEF Typed
<1>2. run.status \in Statuses /\ run.mark \in 0..(MaxCandles + 1)
  BY <1>1 DEF Typed, RunT
<1>3. position = NoPosition \/
        /\ position.status \in {"open", "partially_closed", "closed"}
        /\ position.since \in 1..Len(tape)
        /\ position.remaining \in 0..position.opened
        /\ position.status # "closed" <=> position.remaining > 0
  BY <1>1 DEF Typed, PositionOK, Held
<1>4. outcome.result \in {"none", "win", "loss", "breakeven", "missed", "inconclusive"}
  BY DEF Typed, OutcomeT
<1> QED BY <1>2, <1>3, <1>4 DEF TypeOK, Typed

\* Every row that the service writes has its type: a watermark inside the tape, a
\* position that entered at a candle of the tape and is open while something of it
\* is left, whatever the plan, the candles and the requests.
THEOREM PaperTypeOK == Spec => []TypeOK
<1>1. Steady => TypeOK
  BY TypedIsTypeOK DEF Steady
<1> QED BY <1>1, SteadyInvariant, PTL

-----------------------------------------------------------------------------
(***************************************************************************)
(* A run is concluded once.                                                *)
(***************************************************************************)
LEMMA EndedOnce ==
  ASSUME NEW L, Ended(L)
  PROVE  /\ \A i, j \in 1..Len(L) : Concluding(L[i]) /\ Concluding(L[j]) => i = j
         /\ \E i \in 1..Len(L) : Concluding(L[i])
<1>1. PICK M \in Seq(EventT), e \in EventT :
        L = Append(M, e) /\ Concluding(e) /\ Unconcluded(M)
  BY DEF Ended
<1> DEFINE n == Len(M)
<1>2. /\ n \in Nat /\ Len(L) = n + 1 /\ L[n + 1] = e
      /\ \A i \in 1..n : L[i] = M[i]
  BY <1>1
<1>3. \A i \in 1..n : ~Concluding(L[i])
  BY <1>1, <1>2 DEF Unconcluded
<1> HIDE DEF n
<1>4. \A i \in 1..(n + 1) : i = n + 1 \/ i \in 1..n
  BY <1>2
<1>5. n + 1 \in 1..(n + 1)
  BY <1>2
<1> QED BY <1>1, <1>2, <1>3, <1>4, <1>5

LEMMA InitConcluded == ASSUME Init PROVE Concluded
<1>1. 1..Len(<<>>) = {}
  OBVIOUS
<1> QED BY <1>1 DEF Init, Row, Concluded

LEMMA NextConcluded ==
  ASSUME Steady, Steady', Concluded, [Next]_vars
  PROVE  Concluded'
<1>1. ASSUME UNCHANGED <<run, ledger>> PROVE Concluded'
  BY <1>1 DEF Concluded
<1>2. CASE Moves
  <2>1. PICK next, pos, out, events :
          /\ Commits(next, pos, out, events) /\ Move(next, pos, out, ledger \o events)
    BY <1>2 DEF Moves
  <2>2. run' = next /\ ledger' = ledger \o events
    BY <2>1 DEF Commits
  <2>3. CASE next.status \in Active /\ Keeps(pos, ledger \o events)
    <3>1. Quiet(ledger') /\ ledger' \in Seq(EventT)
      BY <2>1, <2>2, <2>3 DEF Keeps, Move, LedgerOK
    <3>2. Unconcluded(ledger')
      BY <3>1, QuietIsPlain DEF Plain
    <3> QED BY <2>2, <2>3, <3>2 DEF Unconcluded, Concluded, Active
  <2>4. CASE Ended(ledger \o events)
    BY <2>2, <2>4, EndedOnce DEF Concluded
  <2> QED BY <2>1, <2>3, <2>4 DEF Move
<1>3. CASE Stays
  <2>1. PICK next, events :
          /\ Commits(next, position, outcome, events)
          /\ \/ events = <<>> /\ next = run
             \/ /\ events \in {<<>>, <<Cancelled>>}
                /\ next = Row("cancelled", "manual_cancel", run.mark)
    BY <1>3 DEF Stays
  <2>2. /\ run' = next /\ ledger' = ledger \o events /\ events \in {<<>>, <<Cancelled>>}
        /\ next = run \/ next.status = "cancelled"
    BY <2>1 DEF Commits, Row
  <2>3. /\ ledger \in Seq(EventT)
        /\ ledger' = ledger \/ ledger' = Append(ledger, Cancelled)
        /\ Cancelled \in EventT /\ ~Concluding(Cancelled)
    BY <2>2, StayLedger DEF Steady, Typed, LedgerOK, Remark
  <2>4. CASE ledger' = ledger
    BY <2>2, <2>4 DEF Concluded
  <2>5. CASE ledger' = Append(ledger, Cancelled)
    <3> DEFINE n == Len(ledger)
    <3>1. /\ n \in Nat /\ Len(ledger') = n + 1 /\ ledger'[n + 1] = Cancelled
          /\ \A i \in 1..n : ledger'[i] = ledger[i]
      BY <2>3, <2>5
    <3> HIDE DEF n
    <3>2. \A i \in 1..(n + 1) : i = n + 1 \/ i \in 1..n
      BY <3>1
    <3>3. \A i \in 1..n : i \in 1..(n + 1)
      BY <3>1
    <3> QED BY <2>2, <2>3, <3>1, <3>2, <3>3 DEF Concluded, n
  <2> QED BY <2>3, <2>4, <2>5
<1>4. CASE Serves
  BY <1>1, <1>4 DEF Serves, Served
<1>5. CASE Market
  BY <1>1, <1>5 DEF Market, Tick, Grow, rows
<1>6. CASE UNCHANGED vars
  BY <1>1, <1>6 DEF vars, rows
<1> QED BY <1>2, <1>3, <1>4, <1>5, <1>6, NextCases

LEMMA ConcludedIsOnce == ASSUME Steady, Concluded PROVE ConcludesOnce
<1>1. ledger \in Seq(EventT) /\ DOMAIN ledger = 1..Len(ledger)
  BY DEF Steady, Typed, LedgerOK
<1>2. Conclusions = {i \in 1..Len(ledger) : Concluding(ledger[i])}
  BY <1>1 DEF Conclusions, Concluding
<1>3. Cardinality(Conclusions) <= 1
  <2>1. CASE Conclusions = {}
    BY <2>1, FS_EmptySet
  <2>2. CASE Conclusions # {}
    <3>1. PICK i : Conclusions = {i}
      BY <1>2, <2>2 DEF Concluded
    <3>2. Cardinality({i}) = 1
      BY FS_Singleton
    <3> QED BY <3>1, <3>2
  <2> QED BY <2>1, <2>2
<1>4. ASSUME run.status \in Active PROVE Conclusions = {}
  <2>1. Unconcluded(ledger)
    BY <1>1, <1>4, QuietIsPlain DEF Steady, Lifecycle, Plain
  <2> QED BY <1>2, <2>1 DEF Unconcluded
<1>5. run.status \in {"completed", "failed"} => Conclusions # {}
  BY <1>2 DEF Concluded
<1> QED BY <1>3, <1>4, <1>5 DEF ConcludesOnce

\* However refreshes, closes, cancels and failed loads of the candles follow each
\* other, the ledger of a run gets one concluding event: when the run completes or
\* fails, and never again, because every locked request looks at the run's status.
THEOREM RunConcludesOnce == Spec => []ConcludesOnce
<1>1. Init => Concluded
  BY InitConcluded
<1>2. Steady /\ Steady' /\ Concluded /\ [Next]_vars => Concluded'
  BY NextConcluded
<1>3. Steady /\ Concluded => ConcludesOnce
  BY ConcludedIsOnce
<1> QED BY <1>1, <1>2, <1>3, SteadyInvariant, PTL DEF Spec

-----------------------------------------------------------------------------
(***************************************************************************)
(* The projections are what the ledger rebuilds.                           *)
(***************************************************************************)
LEMMA EarlierIsPrefix ==
  ASSUME NEW S, NEW L \in Seq(S), NEW M \in Seq(S), Earlier(L, M)
  PROVE  SubSeq(M, 1, Len(L)) = L /\ Len(L) \in 0..Len(M)
<1> DEFINE n == Len(L)
           N == SubSeq(M, 1, n)
<1>1. n \in Nat /\ Len(M) \in Nat /\ n <= Len(M) /\ \A i \in 1..n : L[i] = M[i]
  BY DEF Earlier
<1>2. \A i \in 1..n : M[i] \in S
  <2>1. \A i \in 1..n : i \in 1..Len(M)
    BY <1>1
  <2> QED BY <2>1
<1>3. N \in Seq(S) /\ Len(N) = n /\ \A i \in 1..n : N[i] = M[i]
  <2>1. n \in Int /\ 1 \in Int
    BY <1>1
  <2> HIDE DEF n
  <2>2. /\ N \in Seq(S) /\ Len(N) = IF 1 <= n THEN n - 1 + 1 ELSE 0
        /\ \A i \in 1..(n - 1 + 1) : N[i] = M[1 + i - 1]
    BY <1>2, <2>1, SubSeqProperties
  <2>3. n \in Nat
    BY <1>1 DEF n
  <2>4. \A i \in 1..n : i \in 1..(n - 1 + 1) /\ 1 + i - 1 = i
    BY <2>3
  <2>5. Len(N) = n
    BY <2>2, <2>3
  <2> HIDE DEF N
  <2> QED BY <2>2, <2>4, <2>5
<1> HIDE DEF N
<1>4. N = L
  BY <1>1, <1>3, SeqEqual
<1> QED BY <1>1, <1>4 DEF N

LEMMA ConcatIsLater ==
  ASSUME NEW L \in Seq(EventT), NEW E \in Seq(EventT), NEW n \in 0..Len(L)
  PROVE  SubSeq(L \o E, 1, n) = SubSeq(L, 1, n) /\ n \in 0..Len(L \o E)
<1>1. Len(L) \in Nat /\ Len(E) \in Nat /\ Len(L \o E) = Len(L) + Len(E)
  BY ConcatProperties
<1>2. CASE n = 0
  BY <1>1, <1>2, SubSeqEmpty
<1>3. CASE n # 0
  <2>1. 1 \in 1..Len(L) /\ n \in 1..Len(L)
    BY <1>1, <1>3
  <2>2. SubSeq(L \o E, 1, n) = SubSeq(L, 1, n)
    BY <2>1, SubSeqOfConcat1
  <2> QED BY <1>1, <2>2
<1> QED BY <1>2, <1>3

\* The outcome of a cancelled run is that of the run.
LEMMA CancelledOutcome ==
  ASSUME NEW p, NEW L \in Seq(EventT)
  PROVE  RebuildOutcome(p, Append(L, Cancelled)) = RebuildOutcome(p, L)
<1> DEFINE M == Append(L, Cancelled)
           pos == Rebuild(p, L)
<1>1. /\ Remark(Cancelled) /\ Cancelled \in EventT
      /\ Cancelled.type = "simulation_cancelled" /\ Cancelled.reason = "manual_cancel"
  BY NoteIsRemark DEF Cancelled, Codes, Remark
<1>2. Rebuild(p, M) = pos
  BY <1>1, RemarkAppend
<1>3. /\ Logged(M, "simulation_failed") <=> Logged(L, "simulation_failed")
      /\ Logged(M, "setup_expired") <=> Logged(L, "setup_expired")
      /\ Logged(M, "data_end_reached") <=> Logged(L, "data_end_reached")
      /\ Abandoned(M) <=> Abandoned(L)
      /\ Ambiguous(M) <=> Ambiguous(L)
  BY <1>1, LoggedAppend
<1> HIDE DEF M, pos
<1>4. pos = Rebuild(p, L) /\ pos = Rebuild(p, M)
  BY <1>2 DEF pos
<1>5. RuledOutcome(pos, Ambiguous(M)) = RuledOutcome(pos, Ambiguous(L))
  BY <1>3 DEF RuledOutcome
<1>6. RebuildOutcome(p, M) = RebuildOutcome(p, L)
  BY <1>3, <1>4, <1>5 DEF RebuildOutcome, Abandoned
<1> QED BY <1>6 DEF M

LEMMA EmptyOutcome == ASSUME NEW p PROVE RebuildOutcome(p, <<>>) = NoOutcome
<1> DEFINE none == <<>>
<1>1. none \in Seq(EventT) /\ Quiet(none) /\ Rebuild(p, none) = NoPosition
  BY RebuildEmpty DEF Quiet
<1> HIDE DEF none
<1>2. RebuildOutcome(p, none) = NoOutcome
  BY <1>1, QuietOutcome
<1> QED BY <1>2 DEF none

LEMMA PolledStays ==
  ASSUME Steady, [Next]_vars, Polled
  PROVE  Polled' /\ plan' = plan
<1>1. CASE Moves \/ Stays
  BY <1>1 DEF Moves, Stays, Commits, Polled, market
<1>2. CASE Serves
  <2>1. PICK g \in Readers : \E r : Served(g, r)
    BY <1>2 DEF Serves
  <2>2. PICK r : Served(g, r)
    BY <2>1
  <2>3. GoesTo(g, r) /\ r # Idle /\ plan' = plan
    BY <2>2 DEF Served, market
  <2>4. gets' = [gets EXCEPT ![g] = r] /\ gets = [h \in Readers |-> gets[h]]
    BY <2>3 DEF GoesTo, Steady, Typed
  <2>5. gets'[g] = r
    BY <2>4
  <2> QED BY <2>3, <2>5 DEF Polled
<1>3. CASE Market \/ UNCHANGED vars
  BY <1>3 DEF Market, Tick, Grow, vars, market, rows, Polled
<1> QED BY <1>1, <1>2, <1>3, NextCases

LEMMA InitReflects == ASSUME Init PROVE Reflects
<1>1. /\ position = NoPosition /\ ledger = <<>> /\ outcome = NoOutcome
      /\ \A g \in Readers : Idles(gets[g])
  BY DEF Init, Idles
<1>2. Rebuild(plan, <<>>) = NoPosition /\ RebuildOutcome(plan, <<>>) = NoOutcome
  BY RebuildEmpty, EmptyOutcome
<1>3. 0 \in 0..Len(<<>>) /\ SubSeq(<<>>, 1, 0) = <<>>
  BY SubSeqEmpty
<1> QED BY <1>1, <1>2, <1>3 DEF Reflects, Replayed, Ruled

\* The position is what the whole ledger rebuilds.
LEMMA WholeReplayed ==
  ASSUME NEW L \in Seq(EventT), NEW pos, pos = Rebuild(plan, L)
  PROVE  \E n \in 0..Len(L) : pos = Rebuild(plan, SubSeq(L, 1, n))
<1>1. SubSeq(L, 1, Len(L)) = L
  BY SubSeqFull
<1>2. Len(L) \in 0..Len(L)
  OBVIOUS
<1> QED BY <1>1, <1>2

LEMMA MoveReflects ==
  ASSUME Steady, Steady', Moves, Reflects
  PROVE  Reflects'
<1>1. PICK next, pos, out, events :
        /\ run.status \in Active /\ (position = NoPosition \/ position.status # "closed")
        /\ Commits(next, pos, out, events) /\ Move(next, pos, out, ledger \o events)
  BY DEF Moves
<1>2. /\ run' = next /\ ledger' = ledger \o events
      /\ position' = IF pos = NoPosition THEN Rebuild(plan, ledger') ELSE pos
      /\ outcome' = IF out = NoOutcome THEN RebuildOutcome(plan, ledger') ELSE out
      /\ UNCHANGED <<market, gets>>
  BY <1>1 DEF Commits
<1>3. /\ position = Rebuild(plan, ledger) /\ Quiet(ledger) /\ ledger \in Seq(EventT)
      /\ LedgerOK(ledger, Len(tape)) /\ ledger' \in Seq(EventT)
  BY <1>1 DEF Reflects, Steady, Lifecycle, Typed, LedgerOK
<1>4. pos = Rebuild(plan, ledger') /\ (out = outcome \/ Ruled(out, ledger'))
  BY <1>1, <1>2, <1>3 DEF Move
<1>5. RebuildOutcome(plan, ledger) = NoOutcome
  BY <1>1, <1>3, QuietOutcome
<1>6. outcome = NoOutcome
  BY <1>5 DEF Reflects, Ruled, NoOutcome, Inconclusive
<1>7. position' = Rebuild(plan, ledger')
  BY <1>2, <1>4
<1>8. Ruled(outcome', ledger')
  BY <1>2, <1>4, <1>6 DEF Ruled
<1>9. \A g \in Readers : Idles(gets[g]) \/ RebuildOutcome(plan, gets[g].ledger) = NoOutcome
  BY <1>5 DEF Reflects
<1>10. \E n \in 0..Len(ledger') : position' = Rebuild(plan, SubSeq(ledger', 1, n))
  BY <1>3, <1>7, WholeReplayed
<1>11. plan' = plan /\ gets' = gets
  BY <1>2 DEF market
<1>12. Ruled(outcome, ledger)'
  BY <1>8, <1>11 DEF Ruled
<1> QED BY <1>7, <1>9, <1>10, <1>11, <1>12 DEF Reflects, Replayed

LEMMA StayReflects ==
  ASSUME Steady, Steady', Stays, Reflects
  PROVE  Reflects'
<1>1. PICK next, events :
        /\ Commits(next, position, outcome, events)
        /\ \/ events = <<>> /\ next = run
           \/ /\ events \in {<<>>, <<Cancelled>>}
              /\ next = Row("cancelled", "manual_cancel", run.mark)
  BY DEF Stays
<1>2. /\ run' = next /\ ledger' = ledger \o events
      /\ position' = IF position = NoPosition THEN Rebuild(plan, ledger') ELSE position
      /\ outcome' = IF outcome = NoOutcome THEN RebuildOutcome(plan, ledger') ELSE outcome
      /\ UNCHANGED <<market, gets>>
  BY <1>1 DEF Commits
<1>3. /\ ledger \in Seq(EventT) /\ events \in Seq(EventT) /\ ledger' \in Seq(EventT)
      /\ ledger' = ledger \/ ledger' = Append(ledger, Cancelled)
      /\ Remark(Cancelled)
  BY <1>1, <1>2, StayLedger DEF Steady, Typed, LedgerOK
<1>4. /\ Rebuild(plan, ledger') = Rebuild(plan, ledger)
      /\ RebuildOutcome(plan, ledger') = RebuildOutcome(plan, ledger)
  BY <1>3, RemarkAppend, CancelledOutcome
<1>5. plan' = plan /\ gets' = gets
  BY <1>2 DEF market
<1>6. \E n \in 0..Len(ledger') : position' = Rebuild(plan, SubSeq(ledger', 1, n))
  <2>1. CASE position = NoPosition
    BY <1>2, <1>3, <2>1, WholeReplayed
  <2>2. CASE position # NoPosition
    <3>1. PICK n \in 0..Len(ledger) : position = Rebuild(plan, SubSeq(ledger, 1, n))
      BY DEF Reflects, Replayed
    <3>2. SubSeq(ledger', 1, n) = SubSeq(ledger, 1, n) /\ n \in 0..Len(ledger')
      BY <1>2, <1>3, ConcatIsLater
    <3> QED BY <1>2, <2>2, <3>1, <3>2
  <2> QED BY <2>1, <2>2
<1>7. Ruled(outcome, ledger)'
  BY <1>2, <1>4, <1>5 DEF Reflects, Ruled
<1>8. run'.status \in Active => run.status \in Active
  BY <1>1, <1>2 DEF Row, Active
<1>9. run'.status \in Active \/ ~Polled' => position' = Rebuild(plan, ledger')
  <2>1. Polled' <=> Polled
    BY <1>5 DEF Polled
  <2> QED BY <1>2, <1>4, <1>8, <2>1 DEF Reflects
<1> QED BY <1>4, <1>5, <1>6, <1>7, <1>9 DEF Reflects, Replayed

LEMMA ServedReflects ==
  ASSUME Steady, NEW g \in Readers, NEW r, Served(g, r), Reflects,
         plan.partials = NoPartials
  PROVE  Reflects'
<1> DEFINE M == gets[g].ledger
<1>1. UNCHANGED <<market, run, ledger, fresh>> /\ GoesTo(g, r) /\ r # Idle
  BY DEF Served
<1>2. ledger \in Seq(EventT) /\ plan' = plan
  BY <1>1 DEF Steady, Typed, LedgerOK, market
<1>3. gets'[g] = r /\ \A h \in Readers : h # g => gets'[h] = gets[h]
  <2>1. Idles(r) \/ (ReadingOK(r, Len(tape)) /\ Earlier(r.ledger, ledger))
    BY DEF Served
  <2> QED BY <1>1, <2>1, ReaderTyped
<1>4. Polled'
  BY <1>1, <1>3 DEF Polled
<1>5. ~Idles(gets[g]) => /\ RebuildOutcome(plan, M) \in {NoOutcome, RebuildOutcome(plan, ledger)}
                         /\ M \in Seq(EventT) /\ Earlier(M, ledger)
  BY DEF Reflects, Steady, Typed, Lifecycle, ReadingOK, LedgerOK
<1>6. \A h \in Readers : \/ Idles(gets'[h])
                         \/ RebuildOutcome(plan, gets'[h].ledger)
                              \in {NoOutcome, RebuildOutcome(plan, ledger)}
  <2>1. Idles(r) \/ RebuildOutcome(plan, r.ledger)
                      \in {NoOutcome, RebuildOutcome(plan, ledger)}
    <3>1. RebuildOutcome(plan, <<>>) = NoOutcome
      BY EmptyOutcome
    <3> QED BY <1>5, <3>1 DEF Served
  <2> QED BY <1>3, <2>1 DEF Reflects
<1>7. Ruled(outcome, ledger)'
  <2>1. CASE UNCHANGED outcome
    BY <1>1, <1>2, <2>1 DEF Reflects, Ruled
  <2>2. CASE ~Idles(gets[g]) /\ outcome' = RebuildOutcome(plan, M) /\ outcome' # NoOutcome
    BY <1>1, <1>2, <1>5, <2>2 DEF Ruled
  <2> QED BY <2>1, <2>2 DEF Served
<1>8. CASE UNCHANGED position
  <2>1. run'.status \in Active => position' = Rebuild(plan', ledger')
    BY <1>1, <1>2, <1>8 DEF Reflects
  <2>2. \E n \in 0..Len(ledger') : position' = Rebuild(plan', SubSeq(ledger', 1, n))
    BY <1>1, <1>2, <1>8 DEF Reflects, Replayed
  <2> QED BY <1>1, <1>2, <1>4, <1>6, <1>7, <2>1, <2>2 DEF Reflects, Replayed
<1>9. CASE ~Idles(gets[g]) /\ position' = Rebuild(plan, M) /\ position' # NoPosition
  <2>1. SubSeq(ledger, 1, Len(M)) = M /\ Len(M) \in 0..Len(ledger)
    BY <1>2, <1>5, <1>9, EarlierIsPrefix
  <2>2. \E n \in 0..Len(ledger') : position' = Rebuild(plan', SubSeq(ledger', 1, n))
    BY <1>1, <1>2, <1>9, <2>1
  <2>3. ASSUME run.status \in Active PROVE M = ledger
    <3>1. Len(ledger) <= 1 /\ Len(ledger) \in Nat /\ Len(M) \in Nat
      BY <1>2, <1>5, <1>9, <2>3 DEF Steady, Lifecycle
    <3>2. M # <<>>
      BY <1>9, RebuildEmpty
    <3>3. Len(M) # 0
      BY <1>5, <1>9, <3>2
    <3>4. Len(M) = Len(ledger)
      BY <2>1, <3>1, <3>3
    <3> QED BY <1>2, <2>1, <3>4, SubSeqFull
  <2>4. run'.status \in Active => position' = Rebuild(plan', ledger')
    BY <1>1, <1>2, <1>9, <2>3
  <2> QED BY <1>1, <1>2, <1>4, <1>6, <1>7, <2>2, <2>4 DEF Reflects, Replayed
<1> QED BY <1>8, <1>9 DEF Served

LEMMA NextProjected ==
  ASSUME Steady, Steady', Projected, [Next]_vars
  PROVE  Projected'
<1>1. CASE Polled /\ plan.partials # NoPartials
  BY <1>1, PolledStays DEF Projected
<1>2. CASE Reflects
  <2>1. CASE Moves
    BY <1>2, <2>1, MoveReflects DEF Projected
  <2>2. CASE Stays
    BY <1>2, <2>2, StayReflects DEF Projected
  <2>3. CASE Serves
    <3>1. PICK g \in Readers : \E r : Served(g, r)
      BY <2>3 DEF Serves
    <3>2. PICK r : Served(g, r)
      BY <3>1
    <3>3. CASE plan.partials = NoPartials
      BY <1>2, <3>2, <3>3, ServedReflects DEF Projected
    <3>4. CASE plan.partials # NoPartials
      <4>1. GoesTo(g, r) /\ r # Idle /\ plan' = plan
        BY <3>2 DEF Served, market
      <4>2. gets' = [gets EXCEPT ![g] = r] /\ gets = [h \in Readers |-> gets[h]]
        BY <4>1 DEF GoesTo, Steady, Typed
      <4>3. gets'[g] = r
        BY <4>2
      <4> QED BY <3>4, <4>1, <4>3 DEF Projected, Polled
    <3> QED BY <3>3, <3>4
  <2>4. CASE Market \/ UNCHANGED vars
    <3>1. UNCHANGED <<plan, rows, gets>>
      BY <2>4 DEF Market, Tick, Grow, vars, market
    <3> QED BY <1>2, <3>1 DEF Projected, Reflects, rows, Polled, Replayed, Ruled
  <2> QED BY <2>1, <2>2, <2>3, <2>4, NextCases
<1> QED BY <1>1, <1>2 DEF Projected

\* As long as no GET request repairs the rows, or has none to repair wrongly for want
\* of partial targets, the position of an active run and the outcome of any are those
\* that the ledger rebuilds, and every outcome that a GET request may save is the
\* ledger's.
THEOREM ProjectedInvariant == Spec => []Projected
<1>1. Init => Projected
  BY InitReflects DEF Projected
<1>2. Steady /\ Steady' /\ Projected /\ [Next]_vars => Projected'
  BY NextProjected
<1> QED BY <1>1, <1>2, SteadyInvariant, PTL DEF Spec

\* The rows of a position and of an outcome are those that the ledger rebuilds,
\* whatever the requests, the candles and the GET requests that repair them.  After
\* a GET request over a run without partial targets only an ended run may show an
\* earlier position.
THEOREM LedgerIsTheTruth == Spec => []LedgerRebuilds
<1>1. Steady /\ Projected => LedgerRebuilds
  <2> SUFFICES ASSUME Steady, Reflects PROVE LedgerRebuilds
    BY DEF Projected, LedgerRebuilds
  <2>1. SubSeq(ledger, 1, Len(ledger)) = ledger
    BY SubSeqFull DEF Steady, Typed, LedgerOK
  <2>2. \/ Replayed(Len(ledger))
        \/ /\ Polled /\ run.status \notin Active
           /\ \E n \in 0..Len(ledger) : Replayed(n)
    BY <2>1 DEF Reflects, Replayed
  <2> QED BY <2>2 DEF Reflects, Ruled, LedgerRebuilds
<1> QED BY <1>1, SteadyInvariant, ProjectedInvariant, PTL

-----------------------------------------------------------------------------
(***************************************************************************)
(* What was bought was sold, or is left.                                   *)
(***************************************************************************)
LEMMA InitBalanced == ASSUME Init PROVE Balanced
BY DEF Init, Balanced, ExitsAddUp

LEMMA NextBalanced ==
  ASSUME Steady, Projected, Balanced, [Next]_vars
  PROVE  Balanced'
<1> SUFFICES ASSUME ~Polled' PROVE ExitsAddUp'
  BY DEF Balanced
<1>1. ~Polled /\ ExitsAddUp /\ position = Rebuild(plan, ledger)
  BY PolledStays DEF Balanced, Projected, Reflects
<1>2. ledger \in Seq(EventT)
  BY DEF Steady, Typed, LedgerOK
<1>3. CASE Moves
  <2>1. PICK next, pos, out, events :
          /\ Commits(next, pos, out, events) /\ Move(next, pos, out, ledger \o events)
    BY <1>3 DEF Moves
  <2>2. /\ ledger' = ledger \o events
        /\ position' = IF pos = NoPosition THEN Rebuild(plan, ledger') ELSE pos
    BY <2>1 DEF Commits
  <2>3. /\ pos = Rebuild(plan, ledger')
        /\ pos # NoPosition => Sold(ledger') + pos.remaining = pos.opened
    BY <1>1, <2>1, <2>2 DEF Move
  <2> QED BY <2>2, <2>3 DEF ExitsAddUp
<1>4. CASE Stays
  <2>1. PICK next, events :
          /\ Commits(next, position, outcome, events) /\ events \in {<<>>, <<Cancelled>>}
    BY <1>4 DEF Stays
  <2>2. /\ ledger' = ledger \o events
        /\ position' = IF position = NoPosition THEN Rebuild(plan, ledger') ELSE position
    BY <2>1 DEF Commits
  <2>3. /\ ledger' = ledger \/ ledger' = Append(ledger, Cancelled)
        /\ Remark(Cancelled)
    BY <2>1, <2>2, StayLedger
  <2>4. Rebuild(plan, ledger') = Rebuild(plan, ledger) /\ Sold(ledger') = Sold(ledger)
    BY <1>2, <2>3, RemarkAppend
  <2>5. position' = position
    BY <1>1, <2>2, <2>4
  <2> QED BY <1>1, <2>4, <2>5 DEF ExitsAddUp
<1>5. CASE Serves
  <2>1. PICK g \in Readers : \E r : Served(g, r)
    BY <1>5 DEF Serves
  <2>2. PICK r : GoesTo(g, r) /\ r # Idle
    BY <2>1 DEF Served
  <2>3. gets' = [gets EXCEPT ![g] = r] /\ gets = [h \in Readers |-> gets[h]]
    BY <2>2 DEF GoesTo, Steady, Typed
  <2>4. gets'[g] = r
    BY <2>3
  <2> QED BY <2>2, <2>4 DEF Polled
<1>6. CASE Market \/ UNCHANGED vars
  <2>1. UNCHANGED <<plan, rows, gets>>
    BY <1>6 DEF Market, Tick, Grow, vars, market
  <2> QED BY <1>1, <2>1 DEF ExitsAddUp, rows
<1> QED BY <1>3, <1>4, <1>5, <1>6, NextCases

\* What the exit orders of the ledger sold and what the position still holds is what
\* the entry bought, whatever the shares and the rounding of the partial exits; a
\* GET request that repaired the rows from an earlier ledger may break the sum.
THEOREM ExitsBalance == Spec => [](Polled \/ ExitsAddUp)
<1>1. Init => Balanced
  BY InitBalanced
<1>2. Steady /\ Projected /\ Balanced /\ [Next]_vars => Balanced'
  BY NextBalanced
<1>3. Balanced => Polled \/ ExitsAddUp
  BY DEF Balanced
<1> QED BY <1>1, <1>2, <1>3, SteadyInvariant, ProjectedInvariant, PTL DEF Spec

-----------------------------------------------------------------------------
(***************************************************************************)
(* The requests that leave the run active.                                 *)
(***************************************************************************)
WaitsOn ==
  /\ position = NoPosition /\ position' = NoPosition /\ run'.mark = Len(tape)
  /\ tape # <<>> /\ Entry(tape) = NoEntry /\ ~Expired(plan, tape)
  /\ plan.mode = "forward"

\* A refresh from mark found these exits, none of them final.
GoesOn(mark, pos, exits) ==
  /\ ~IsFinal(exits) /\ Held(position', Len(tape)) /\ position'.since = pos.since
  /\ position' = Applied(plan, pos, exits).pos
  /\ exits = <<>> => position' = pos
  /\ exits # <<>> => /\ position'.status # "open"
                     /\ run'.mark \in (mark + 1)..Len(tape)

EntersOn(e) ==
  LET exits == Transitions(plan, tape, e.at, e.at, plan.partials)
  IN /\ position = NoPosition /\ e # NoEntry /\ e.at \in 1..Len(tape)
     /\ GoesOn(e.at, Entered(e), exits)
     /\ exits = <<>> => run'.mark = e.at

Partials == IF position.status = "open" THEN plan.partials ELSE NoPartials
HoldsOn(cs) ==
  LET exits == Transitions(plan, cs, run.mark, position.since, Partials)
  IN /\ Holds /\ position # NoPosition /\ Response(cs)
     /\ GoesOn(run.mark, position, exits)
     /\ exits = <<>> => run'.mark = IF Len(cs) > run.mark THEN Len(cs) ELSE run.mark

LEMMA LastIsLater ==
  ASSUME NEW p, NEW mark \in Nat, NEW n \in Nat, NEW partials, NEW exits,
         Formed(p, mark, n, partials, exits), exits # <<>>
  PROVE  exits[Len(exits)].at \in (mark + 1)..n
<1>1. Len(exits) \in 1..Len(exits)
  BY DEF Formed
<1> QED BY <1>1 DEF Formed

LEMMA HoldsGoesOn ==
  ASSUME Steady, NEW cs \in {tape, <<>>}, Response(cs), RefreshHolds(cs),
         run'.status \in Active
  PROVE  HoldsOn(cs)
<1> DEFINE n == Len(tape)
           exits == Transitions(plan, cs, run.mark, position.since, Partials)
           after == Applied(plan, position, exits)
           mark == IF Len(cs) > run.mark THEN Len(cs) ELSE run.mark
<1>1. /\ run.status \in Active /\ position # NoPosition /\ Held(position, n)
      /\ n \in Nat /\ LedgerOK(ledger, n)
  BY HoldFacts DEF RefreshHolds
<1>2. /\ Holds
      /\ CASE exits = <<>> ->
                Commits([run EXCEPT !.mark = mark], position, outcome, <<>>)
           [] IsFinal(exits) -> Completes(after.pos, exits, after.events)
           [] OTHER ->
                Commits(Row("position_open", "partial_target_filled",
                            exits[Len(exits)].at),
                        after.pos, outcome, after.events)
  BY DEF RefreshHolds, Partials
<1>3. Typed /\ run.mark \in Nat /\ run \in RunT(n)
  BY <1>1 DEF Steady, Typed, RunT
<1>4. PartialsOK(Partials)
  BY <1>3, PlanIsOK, EmptyPartials DEF Partials
<1>5. position.since \in Nat
  BY <1>1 DEF Held
<1>6. Formed(plan, run.mark, n, Partials, exits)
  BY <1>3, <1>4, <1>5, TransitionsFormed
<1> HIDE DEF exits, mark, after
<1>7. ~IsFinal(exits)
  <2> SUFFICES ASSUME IsFinal(exits) PROVE FALSE
    OBVIOUS
  <2>1. Completes(after.pos, exits, after.events)
    BY <1>2 DEF IsFinal
  <2> QED BY <2>1 DEF Completes, Commits, Row, Active
<1>8. Exited(ledger, position, exits, after, ledger \o after.events)
  BY <1>1, <1>6, ExitedByApplied DEF after
<1>9. AppliedTo(plan, ledger, position, n, exits, after)
  BY <1>1, <1>6, ExitedByApplied DEF after
<1>10. exits = <<>> => /\ position' = position /\ run'.mark = mark
  BY <1>1, <1>2, <1>3 DEF Commits, RunT, IsFinal
<1>11. exits # <<>> => /\ position' = after.pos /\ run'.mark = exits[Len(exits)].at
  BY <1>2, <1>7, <1>8, HeldIsPosition DEF Commits, Row, Exited
<1>12. exits = <<>> => after.pos = position
  BY <1>9 DEF AppliedTo
<1>13. exits # <<>> => after.pos.status # "open"
  BY <1>9 DEF AppliedTo
<1>14. GoesOn(run.mark, position, exits)
  BY <1>1, <1>3, <1>6, <1>7, <1>8, <1>10, <1>11, <1>12, <1>13, LastIsLater
     DEF GoesOn, Exited, after
<1> QED BY <1>1, <1>2, <1>10, <1>14 DEF HoldsOn, exits, mark

LEMMA EntersGoesOn ==
  ASSUME Steady, RefreshEnters(tape), run'.status \in Active
  PROVE  EntersOn(Entry(tape))
<1> DEFINE n == Len(tape)
           e == Entry(tape)
           exits == Transitions(plan, tape, e.at, e.at, plan.partials)
           pos == Entered(e)
           after == Applied(plan, pos, exits)
           opened == Event("position_opened", e.at, e.price, plan.quantity,
                           "entry_filled")
           L == <<opened>>
           events == L \o after.events
           mark == IF exits = <<>> THEN e.at ELSE exits[Len(exits)].at
           dry == Note("data_end_reached", n, "data_end_reached")
           over == Note("simulation_completed", n, "data_end_reached")
           reason == IF after.pos.status = "partially_closed"
                     THEN "partial_target_filled" ELSE "entry_filled"
<1>1. position = NoPosition /\ n \in Nat /\ e # NoEntry
  BY SeekFacts DEF RefreshEnters
<1>2. /\ CASE IsFinal(exits) -> Completes(after.pos, exits, events)
           [] ~IsFinal(exits) /\ plan.mode = "replay" ->
                Commits(Row("completed", "data_end_reached", n), after.pos,
                        Inconclusive("none"), events \o <<dry, over>>)
           [] OTHER ->
                Commits(Row("position_open", reason, mark), after.pos, outcome, events)
  BY DEF RefreshEnters, Entered
<1>3. Typed /\ PlanOK(plan) /\ tape \in Seq(Candle)
  BY PlanIsOK DEF Steady, Typed
<1>4. e.at \in 1..n /\ e.at \in Nat /\ e.price \in Int
  <2>1. EntryAt(e, n)
    BY <1>3, EntryOK DEF Entry
  <2> QED BY <1>1, <2>1 DEF EntryAt
<1>5. plan.quantity \in Nat \ {0} /\ PartialsOK(plan.partials)
  BY <1>3, EmptyPartials DEF PlanOK
<1>6. Formed(plan, e.at, n, plan.partials, exits)
  BY <1>3, <1>4, <1>5, TransitionsFormed
<1> HIDE DEF e, exits
<1>7. LedgerOK(L, n) /\ Held(pos, n) /\ pos.since = e.at
  <2>1. JustEntered(plan, n, opened, L, pos)
    BY <1>1, <1>4, <1>5, EnteredLedger DEF Entered
  <2> QED BY <2>1 DEF JustEntered, Entered, OpenPosition
<1> HIDE DEF opened, L, pos, after, mark
<1>8. ~IsFinal(exits) /\ plan.mode # "replay"
  <2>1. ~IsFinal(exits)
    <3> SUFFICES ASSUME IsFinal(exits) PROVE FALSE
      OBVIOUS
    <3>1. Completes(after.pos, exits, events)
      BY <1>2
    <3> QED BY <3>1 DEF Completes, Commits, Row, Active
  <2>2. plan.mode # "replay"
    <3> SUFFICES ASSUME plan.mode = "replay" PROVE FALSE
      OBVIOUS
    <3>1. Commits(Row("completed", "data_end_reached", n), after.pos,
                  Inconclusive("none"), events \o <<dry, over>>)
      BY <1>2, <2>1
    <3> QED BY <3>1 DEF Commits, Row, Active
  <2> QED BY <2>1, <2>2
<1>9. Commits(Row("position_open", reason, mark), after.pos, outcome, events)
  BY <1>2, <1>8
<1>10. Exited(L, pos, exits, after, L \o after.events)
  BY <1>1, <1>6, <1>7, ExitedByApplied DEF after
<1>11. AppliedTo(plan, L, pos, n, exits, after)
  BY <1>1, <1>6, <1>7, ExitedByApplied DEF after
<1>12. position' = after.pos /\ run'.mark = mark
  BY <1>9, <1>10, HeldIsPosition DEF Commits, Row, Exited
<1>13. /\ exits = <<>> => after.pos = pos
       /\ exits # <<>> => after.pos.status # "open"
  BY <1>11 DEF AppliedTo
<1>14. GoesOn(e.at, pos, exits)
  BY <1>1, <1>4, <1>6, <1>8, <1>10, <1>12, <1>13, LastIsLater
     DEF GoesOn, Exited, after, mark
<1>15. exits = <<>> => run'.mark = e.at
  BY <1>12 DEF mark
<1> QED BY <1>1, <1>4, <1>14, <1>15 DEF EntersOn, exits, pos, e

LEMMA ActiveGoesOn ==
  ASSUME Steady, Requested, run'.status \in Active
  PROVE  /\ UNCHANGED market
         /\ \/ WaitsOn
            \/ EntersOn(Entry(tape))
            \/ \E cs \in {tape, <<>>} : HoldsOn(cs)
<1>1. UNCHANGED market
  BY RequestMoves DEF Moves, Commits
<1>2. ~RefreshThrows /\ ~CloseManually /\ ~Abandon
  <2>1. ~RefreshThrows
    BY DEF RefreshThrows, Commits, Row, Active
  <2>2. ~CloseManually
    <3> SUFFICES ASSUME CloseManually PROVE FALSE
      OBVIOUS
    <3>1. PICK at \in {run.mark, Len(tape)} :
            \E price \in IF at = Len(tape) THEN ClosePrices \cup {tape[at].close}
                         ELSE ClosePrices :
              LET pos == ClosePosition(plan, position, price, position.remaining,
                                       "manual_close")
              IN Commits(Row("completed", "manual_close", at), pos, ManualOutcome(pos),
                         <<Event("position_closed", at, price, position.remaining,
                                 "manual_close"),
                           Note("simulation_completed", at, "manual_close")>>)
      BY DEF CloseManually
    <3>2. run' = Row("completed", "manual_close", at)
      BY <3>1 DEF Commits
    <3> QED BY <3>2 DEF Row, Active
  <2>3. ~Abandon
    BY DEF Abandon, Ends, Commits, Row, Active
  <2> QED BY <2>1, <2>2, <2>3
<1>3. PICK cs \in {tape, <<>>} :
        /\ Response(cs)
        /\ \/ RefreshFindsNoCandles(cs) \/ RefreshMisses(cs)
           \/ RefreshEndsUnfilled(cs) \/ RefreshWaits(cs)
           \/ RefreshEnters(cs) \/ RefreshHolds(cs)
  BY <1>2 DEF Requested
<1>4. ~RefreshFindsNoCandles(cs) /\ ~RefreshMisses(cs) /\ ~RefreshEndsUnfilled(cs)
  BY DEF RefreshFindsNoCandles, RefreshMisses, RefreshEndsUnfilled, Ends, Commits,
         Row, Active
<1>5. CASE RefreshWaits(cs)
  <2>1. cs = tape /\ Seeks
    BY <1>5 DEF RefreshWaits
  <2>2. position = NoPosition /\ ledger = <<>>
    BY <2>1, SeekFacts
  <2>3. ledger' = <<>> /\ position' = Rebuild(plan, ledger') /\ run'.mark = Len(tape)
    BY <1>5, <2>1, <2>2 DEF RefreshWaits, Commits, Row
  <2>4. position' = NoPosition
    BY <2>3, RebuildEmpty
  <2> QED BY <1>1, <1>5, <2>1, <2>2, <2>3, <2>4 DEF RefreshWaits, WaitsOn
<1>6. CASE RefreshEnters(cs)
  <2>1. cs = tape
    BY <1>6 DEF RefreshEnters
  <2> QED BY <1>1, <1>6, <2>1, EntersGoesOn
<1>7. CASE RefreshHolds(cs)
  BY <1>1, <1>3, <1>7, HoldsGoesOn
<1> QED BY <1>3, <1>4, <1>5, <1>6, <1>7

-----------------------------------------------------------------------------
(***************************************************************************)
(* No stop is skipped.                                                     *)
(***************************************************************************)
LEMMA StopSeen ==
  ASSUME Typed, NEW mark \in Nat, NEW since \in Nat, NEW partials, PartialsOK(partials),
         ~IsFinal(Transitions(plan, tape, mark, since, partials))
  PROVE  \A i \in (mark + 1)..Len(tape) : Clears(tape[i])
<1>1. PlanOK(plan) /\ tape \in Seq(Candle) /\ Len(tape) \in Nat
  BY PlanIsOK DEF Typed
<1>2. Shape(plan, tape, mark, Len(tape), partials,
            Transitions(plan, tape, mark, since, partials))
  BY <1>1, TransitionsShape
<1>3. \A i \in (mark + 1)..Len(tape) : ~HitsStop(plan, tape[i])
  BY <1>2 DEF Shape
<1>4. ASSUME NEW i \in (mark + 1)..Len(tape) PROVE Clears(tape[i])
  <2>1. i \in 1..Len(tape)
    BY <1>1
  <2>2. tape[i] \in Candle /\ plan.stop \in Int
    BY <1>1, <2>1 DEF PlanOK
  <2>3. ~HitsStop(plan, tape[i])
    BY <1>3
  <2> DEFINE c == tape[i]
  <2>4. c.high \in Int /\ c.low \in Int
    BY <2>2 DEF Candle
  <2> HIDE DEF c
  <2>5. ~HitsStop(plan, c) => Clears(c)
    BY <2>2, <2>4 DEF HitsStop, Clears
  <2> QED BY <2>3, <2>5 DEF c
<1> QED BY <1>4

LEMMA NextWatched ==
  ASSUME Steady, Steady', Watched, Forming = FALSE, [Next]_vars
  PROVE  Watched'
<1>0. Typed /\ Len(tape) \in Nat /\ run.mark \in 0..Len(tape)
  BY DEF Steady, Typed, RunT
<1>1. CASE Moves /\ Requested
  <2> SUFFICES ASSUME run'.status \in Active, position' # NoPosition,
                      NEW i \in (position'.since + 1)..run'.mark
               PROVE  Clears(tape[i])
    <3>1. plan' = plan /\ tape' = tape
      BY <1>1 DEF Moves, Commits, market
    <3> QED BY <3>1 DEF Watched, Clears
  <2>1. \/ WaitsOn
        \/ EntersOn(Entry(tape))
        \/ \E cs \in {tape, <<>>} : HoldsOn(cs)
    BY <1>1, ActiveGoesOn
  <2>2. ~WaitsOn
    BY DEF WaitsOn
  <2>3. ASSUME NEW e, EntersOn(e) PROVE Clears(tape[i])
    <3> DEFINE exits == Transitions(plan, tape, e.at, e.at, plan.partials)
    <3>1. /\ e.at \in 1..Len(tape) /\ GoesOn(e.at, Entered(e), exits)
          /\ exits = <<>> => run'.mark = e.at
      BY <2>3 DEF EntersOn
    <3> HIDE DEF exits
    <3>2. position'.since = e.at /\ ~IsFinal(exits)
      BY <3>1 DEF GoesOn, Entered, OpenPosition
    <3>3. run'.mark \in e.at..Len(tape)
      BY <1>0, <3>1 DEF GoesOn
    <3>4. i \in (e.at + 1)..Len(tape) /\ e.at \in Nat
      BY <1>0, <3>1, <3>2, <3>3
    <3>5. PartialsOK(plan.partials)
      BY <1>0, PlanIsOK, EmptyPartials
    <3> QED BY <1>0, <3>2, <3>4, <3>5, StopSeen DEF exits
  <2>4. ASSUME NEW cs \in {tape, <<>>}, HoldsOn(cs) PROVE Clears(tape[i])
    <3> DEFINE exits == Transitions(plan, cs, run.mark, position.since, Partials)
    <3>1. /\ Holds /\ position # NoPosition
          /\ GoesOn(run.mark, position, exits)
          /\ exits = <<>> => run'.mark = IF Len(cs) > run.mark THEN Len(cs) ELSE run.mark
      BY <2>4 DEF HoldsOn
    <3> HIDE DEF exits
    <3>2. position'.since = position.since /\ ~IsFinal(exits)
      BY <3>1 DEF GoesOn
    <3>3. position.since \in Nat
      BY <3>1, HoldFacts DEF Held
    <3>4. PartialsOK(Partials)
      BY <1>0, PlanIsOK, EmptyPartials DEF Partials
    <3>5. CASE i <= run.mark
      BY <1>0, <3>1, <3>2, <3>3, <3>5 DEF Watched, Holds
    <3>6. CASE i > run.mark /\ cs = tape
      <4>1. run'.mark \in 0..Len(tape)
        BY <1>0, <3>1, <3>6 DEF GoesOn
      <4>2. i \in (run.mark + 1)..Len(tape) /\ run.mark \in Nat
        BY <1>0, <3>2, <3>3, <3>6, <4>1
      <4> QED BY <1>0, <3>2, <3>3, <3>4, <3>6, <4>2, StopSeen DEF exits
    <3>7. CASE i > run.mark /\ cs = <<>>
      <4>1. exits = <<>>
        <5>1. Len(cs) <= run.mark
          BY <1>0, <3>7
        <5> QED BY <5>1 DEF Transitions, exits
      <4>2. run'.mark = run.mark
        BY <1>0, <3>1, <3>7, <4>1
      <4> QED BY <1>0, <3>2, <3>3, <3>7, <4>2
    <3>8. i \in Int
      OBVIOUS
    <3> QED BY <1>0, <3>5, <3>6, <3>7, <3>8
  <2> QED BY <2>1, <2>2, <2>3, <2>4
<1>2. CASE Stays
  <2> SUFFICES ASSUME run'.status \in Active PROVE Watched'
    BY DEF Watched
  <2>1. PICK next, events :
          /\ Commits(next, position, outcome, events)
          /\ \/ events = <<>> /\ next = run /\ ~Seeks
             \/ next = Row("cancelled", "manual_cancel", run.mark)
    BY <1>2 DEF Stays
  <2>2. next = run /\ ~Seeks
    BY <2>1 DEF Commits, Row, Active
  <2>3. run' = run /\ position # NoPosition /\ UNCHANGED market
    BY <2>1, <2>2 DEF Commits, Seeks
  <2>4. position' = position
    BY <2>1, <2>3 DEF Commits
  <2> QED BY <2>3, <2>4 DEF Watched, market, Clears
<1>3. CASE Serves
  <2>1. UNCHANGED <<market, run, ledger>>
    BY <1>3 DEF Serves, Served
  <2>2. ASSUME run.status \in Active, position' # NoPosition
        PROVE  position # NoPosition /\ position'.since = position.since
    BY <2>1, <2>2 DEF Steady, Lifecycle
  <2> QED BY <2>1, <2>2 DEF Watched, market, Clears
<1>4. CASE Market
  <2>1. UNCHANGED <<plan, rows, gets>> /\ Tick
    BY <1>4 DEF Market, Tick, Grow
  <2>2. PICK c \in Candles : tape' = Append(tape, c)
    BY <2>1 DEF Tick
  <2>3. c \in Candle /\ tape \in Seq(Candle)
    BY <1>0, PaperAssumption DEF Typed
  <2>4. \A i \in 1..Len(tape) : tape'[i] = tape[i]
    BY <2>2, <2>3
  <2>5. ASSUME run.status \in Active, position # NoPosition,
               NEW i \in (position.since + 1)..run.mark
        PROVE  Clears(tape[i]) /\ tape'[i] = tape[i]
    <3>1. position.since \in 1..Len(tape)
      BY <2>5 DEF Steady, Typed, PositionOK, Held
    <3>2. i \in 1..Len(tape)
      BY <1>0, <3>1
    <3> QED BY <2>4, <2>5, <3>2 DEF Watched
  <2> QED BY <2>1, <2>5 DEF Watched, rows, Clears
<1>5. CASE UNCHANGED vars
  BY <1>5 DEF vars, market, rows, Watched, Clears
<1> QED BY <1>1, <1>2, <1>3, <1>4, <1>5, NextCases

\* When the provider returns finished candles only, a position that is still open
\* was never in a candle, up to the watermark, that traded at its stop: no refresh
\* steps over one, whatever the policies, the partial exits and the GET requests.
THEOREM StopsAreSeen == ASSUME Forming = FALSE PROVE Spec => []NoStopSkipped
<1>1. Init => Watched
  BY DEF Init, Watched
<1>2. Steady /\ Steady' /\ Watched /\ [Next]_vars => Watched'
  BY NextWatched
<1>3. Steady /\ Watched => NoStopSkipped
  BY HoldFacts DEF Watched, NoStopSkipped, Holds
<1> QED BY <1>1, <1>2, <1>3, SteadyInvariant, PTL DEF Spec

-----------------------------------------------------------------------------
(***************************************************************************)
(* A repeated refresh only closes.                                         *)
(***************************************************************************)
LEMMA NextSettled ==
  ASSUME Steady, Settled, Readers = {}, Failures = FALSE, [Next]_vars
  PROVE  Settled'
<1>0. Typed /\ Len(tape) \in Nat /\ run.mark \in 0..Len(tape)
  BY DEF Steady, Typed, RunT
<1>1. CASE Moves /\ Requested
  <2> SUFFICES ASSUME run'.status \in Active PROVE Settled'
    BY DEF Settled
  <2>1. /\ plan' = plan /\ tape' = tape
        /\ \/ WaitsOn
           \/ EntersOn(Entry(tape))
           \/ \E cs \in {tape, <<>>} : HoldsOn(cs)
    BY <1>1, ActiveGoesOn DEF market
  <2>2. CASE WaitsOn
    BY <2>1, <2>2 DEF WaitsOn, Settled, NoPosition, Entry, Expired, FindEntry, Eligible
  <2>3. ASSUME position' # NoPosition,
               position'.status = "open" =>
                 Transitions(plan, tape, run'.mark, position'.since, plan.partials) = <<>>
        PROVE  Settled'
    BY <2>1, <2>3 DEF Settled
  <2>4. ASSUME NEW e, EntersOn(e) PROVE Settled'
    <3> DEFINE exits == Transitions(plan, tape, e.at, e.at, plan.partials)
    <3>1. /\ GoesOn(e.at, Entered(e), exits)
          /\ exits = <<>> => run'.mark = e.at
      BY <2>4 DEF EntersOn
    <3> HIDE DEF exits
    <3>2. position' # NoPosition
      BY <3>1, HeldIsPosition DEF GoesOn
    <3>3. position'.status = "open" => exits = <<>> /\ position'.since = e.at
      BY <3>1 DEF GoesOn, Entered, OpenPosition
    <3> QED BY <2>3, <3>1, <3>2, <3>3 DEF exits
  <2>5. ASSUME NEW cs \in {tape, <<>>}, HoldsOn(cs) PROVE Settled'
    <3> DEFINE exits == Transitions(plan, cs, run.mark, position.since, Partials)
    <3>1. /\ GoesOn(run.mark, position, exits) /\ cs = tape
          /\ exits = <<>> => run'.mark = IF Len(cs) > run.mark THEN Len(cs) ELSE run.mark
      BY <2>5 DEF HoldsOn, Response
    <3> HIDE DEF exits
    <3>2. position' # NoPosition
      BY <3>1, HeldIsPosition DEF GoesOn
    <3>3. position'.status = "open" => exits = <<>>
      BY <3>1 DEF GoesOn
    <3>4. exits = <<>> => Len(tape) <= run'.mark
      BY <1>0, <3>1
    <3>5. Len(tape) <= run'.mark =>
            Transitions(plan, tape, run'.mark, position'.since, plan.partials) = <<>>
      BY DEF Transitions
    <3> QED BY <2>3, <3>2, <3>3, <3>4, <3>5
  <2> QED BY <2>1, <2>2, <2>4, <2>5
<1>2. CASE Stays /\ UNCHANGED fresh
  <2> SUFFICES ASSUME run'.status \in Active PROVE Settled'
    BY DEF Settled
  <2>1. PICK next, events :
          /\ Commits(next, position, outcome, events)
          /\ \/ events = <<>> /\ next = run /\ ~Seeks
             \/ next = Row("cancelled", "manual_cancel", run.mark)
    BY <1>2 DEF Stays
  <2>2. next = run /\ ~Seeks
    BY <2>1 DEF Commits, Row, Active
  <2>3. run' = run /\ position # NoPosition /\ plan' = plan /\ tape' = tape
    BY <2>1, <2>2 DEF Commits, Seeks, market
  <2>4. position' = position
    BY <2>1, <2>3 DEF Commits
  <2> QED BY <1>2, <2>3, <2>4 DEF Settled
<1>3. CASE Market
  BY <1>3 DEF Market, Tick, Grow, Settled
<1>4. CASE UNCHANGED vars
  BY <1>4 DEF vars, market, rows, Settled, Entry, Expired
<1>5. ~Serves
  BY DEF Serves
<1> QED BY <1>1, <1>2, <1>3, <1>4, <1>5, NextCases

LEMMA SettledRepeats ==
  ASSUME Steady, Settled, Failures = FALSE, fresh, Refresh
  PROVE  \/ UNCHANGED ledger
         \/ position.status = "partially_closed" /\ position'.status = "closed"
<1>0. /\ Typed /\ Len(tape) \in Nat /\ run.mark \in Nat
      /\ ledger \in Seq(EventT) /\ LedgerOK(ledger, Len(tape))
  BY DEF Steady, Typed, RunT, LedgerOK
<1>1. ASSUME NEW next, NEW pos, NEW out, Commits(next, pos, out, <<>>)
      PROVE  UNCHANGED ledger
  BY <1>0, <1>1 DEF Commits
<1>2. CASE Answers
  BY <1>1, <1>2 DEF Answers
<1>3. CASE ~Answers
  <2>1. \/ RefreshFindsNoCandles(tape) \/ RefreshMisses(tape)
        \/ RefreshEndsUnfilled(tape) \/ RefreshWaits(tape)
        \/ RefreshEnters(tape) \/ RefreshHolds(tape)
    BY <1>3 DEF Refresh, Response
  <2>2. CASE Seeks
    <3>1. tape # <<>> /\ Entry(tape) = NoEntry /\ ~Expired(plan, tape)
          /\ plan.mode = "forward"
      BY <2>2 DEF Settled, Seeks
    <3>2. ~Holds
      BY <2>2 DEF Seeks, Holds, NoPosition
    <3>3. RefreshWaits(tape)
      BY <2>1, <3>1, <3>2 DEF RefreshFindsNoCandles, RefreshMisses,
         RefreshEndsUnfilled, RefreshEnters, RefreshHolds
    <3> QED BY <1>1, <3>3 DEF RefreshWaits
  <2>3. CASE ~Seeks
    <3> DEFINE exits == Transitions(plan, tape, run.mark, position.since, Partials)
               after == Applied(plan, position, exits)
               mark == IF Len(tape) > run.mark THEN Len(tape) ELSE run.mark
    <3>1. /\ Holds
          /\ CASE exits = <<>> ->
                    Commits([run EXCEPT !.mark = mark], position, outcome, <<>>)
               [] IsFinal(exits) -> Completes(after.pos, exits, after.events)
               [] OTHER ->
                    Commits(Row("position_open", "partial_target_filled",
                                exits[Len(exits)].at),
                            after.pos, outcome, after.events)
      BY <2>1, <2>3 DEF RefreshFindsNoCandles, RefreshMisses, RefreshEndsUnfilled,
         RefreshEnters, RefreshHolds, RefreshWaits, Partials
    <3>2. Held(position, Len(tape)) /\ run.status \in Active
      BY <3>1, HoldFacts
    <3>3. position.status = "open" => exits = <<>>
      BY <3>2 DEF Settled, Partials
    <3>4. PartialsOK(Partials) /\ position.since \in Nat
      BY <1>0, <3>2, PlanIsOK, EmptyPartials DEF Partials, Held
    <3>5. Formed(plan, run.mark, Len(tape), Partials, exits)
      BY <1>0, <3>4, TransitionsFormed
    <3> HIDE DEF exits
    <3>6. CASE exits = <<>>
      <4>1. Commits([run EXCEPT !.mark = mark], position, outcome, <<>>)
        BY <3>1, <3>6 DEF IsFinal
      <4> QED BY <1>1, <4>1
    <3>7. CASE exits # <<>>
      <4>1. position.status = "partially_closed"
        BY <3>1, <3>3, <3>7 DEF Holds
      <4>2. DOMAIN Partials = {}
        BY <4>1 DEF Partials, NoPartials
      <4>3. IsFinal(exits)
        <5>1. Len(exits) \in 1..Len(exits)
          BY <3>5, <3>7 DEF Formed
        <5> QED BY <3>5, <3>7, <4>2, <5>1 DEF Formed, IsFinal
      <4>4. AppliedTo(plan, ledger, position, Len(tape), exits, after)
        BY <1>0, <3>2, <3>5, ExitedByApplied
      <4>5. after.pos.status = "closed" /\ after.pos # NoPosition
        BY <4>3, <4>4, HeldIsPosition DEF AppliedTo, Finished, Matches
      <4> HIDE DEF after
      <4>6. position' = after.pos
        BY <3>1, <3>7, <4>3, <4>5 DEF Completes, Commits
      <4> QED BY <4>1, <4>5, <4>6
    <3> QED BY <3>6, <3>7
  <2> QED BY <2>2, <2>3
<1> QED BY <1>2, <1>3

\* A refresh that has seen the tape as it is leaves nothing for another: there is no
\* entry on the tape for a run that waits, and no exit after the watermark of an open
\* position.
THEOREM SettledInvariant ==
  ASSUME Readers = {}, Failures = FALSE PROVE Spec => []Settled
<1>1. Init => Settled
  BY DEF Init, Settled
<1>2. Steady /\ Settled /\ [Next]_vars => Settled'
  BY NextSettled
<1> QED BY <1>1, <1>2, SteadyInvariant, PTL DEF Spec

\* While candles are loaded and no GET request repairs the rows, a refresh over
\* candles that were already processed emits nothing: it does not look for an entry
\* again, nor for a partial exit; it may only sell the rest of a position that has
\* been partially closed.
THEOREM RepeatsAreQuiet ==
  ASSUME Readers = {}, Failures = FALSE PROVE Spec => RepeatOnlyCloses
<1>1. Steady /\ Settled /\ [Next]_vars =>
        [fresh /\ Refresh =>
           \/ UNCHANGED ledger
           \/ position.status = "partially_closed" /\ position'.status = "closed"]_vars
  BY SettledRepeats
<1> QED BY <1>1, SteadyInvariant, SettledInvariant, PTL DEF Spec, RepeatOnlyCloses

-----------------------------------------------------------------------------
(***************************************************************************)
(* A plan without partial targets leaves at the first candle that exits.   *)
(***************************************************************************)
OneExit(h, i) ==
  h = <<>> \/ \E x : h = <<x>> /\ x.at = i /\ x.share = All

LEMMA ExitIsOne ==
  ASSUME NEW i, NEW price, NEW reason, NEW ambiguous, NEW h,
         h = <<Exit(i, price, reason, ambiguous, All)>>
  PROVE  OneExit(h, i) /\ h # <<>>
<1> DEFINE x == Exit(i, price, reason, ambiguous, All)
<1>1. x.at = i /\ x.share = All
  BY DEF Exit
<1> HIDE DEF x
<1>2. <<x>> # <<>>
  OBVIOUS
<1>3. h = <<x>>
  BY DEF x
<1> QED BY <1>1, <1>2, <1>3 DEF OneExit

LEMMA ExitsAtNone ==
  ASSUME NEW p, NEW c, NEW i, NEW since, NEW t, NEW h,
         h = ExitsAt(p, c, i, since, t, NoPartials)
  PROVE  OneExit(h, i) /\ (t # 0 => h # <<>>)
<1> DEFINE stop == HitsStop(p, c)
           timeout == IF ~TimedOut(p, i, since) THEN <<>>
                      ELSE <<Exit(i, c.close, "position_timeout", FALSE, All)>>
<1>1. t \notin DOMAIN NoPartials
  BY DEF NoPartials
<1>3. OneExit(timeout, i)
  <2>1. CASE ~TimedOut(p, i, since)
    BY <2>1 DEF OneExit
  <2>2. CASE TimedOut(p, i, since)
    <3>1. timeout = <<Exit(i, c.close, "position_timeout", FALSE, All)>>
      BY <2>2
    <3> HIDE DEF timeout
    <3> QED BY <3>1, ExitIsOne
  <2> QED BY <2>1, <2>2
<1>4. \/ t # 0 /\ h = <<Exit(i, p.targets[t], "target", FALSE, All)>>
      \/ h = <<Exit(i, p.stop, "stop", t # 0 /\ p.intrabar = "ambiguous_warning", All)>>
      \/ t = 0 /\ h = timeout
  <2> HIDE DEF timeout
  <2>1. h = CASE stop /\ t # 0 /\ p.intrabar = "target_first" ->
                   <<Exit(i, p.targets[t], "target", FALSE, All)>>
              [] stop /\ ~(t # 0 /\ p.intrabar = "target_first") ->
                   <<Exit(i, p.stop, "stop",
                          t # 0 /\ p.intrabar = "ambiguous_warning", All)>>
              [] ~stop /\ t \in DOMAIN NoPartials ->
                   <<Exit(i, p.targets[t], "target", FALSE, NoPartials[t])>> \o timeout
              [] ~stop /\ t # 0 /\ t \notin DOMAIN NoPartials ->
                   <<Exit(i, p.targets[t], "target", FALSE, All)>>
              [] OTHER -> timeout
    BY DEF ExitsAt, timeout
  <2> HIDE DEF stop
  <2> QED BY <1>1, <2>1
<1> HIDE DEF timeout
<1> QED BY <1>3, <1>4, ExitIsOne

LEMMA HereOnce ==
  ASSUME NEW p, NEW c, NEW i, NEW since
  PROVE  OneExit(Here(p, c, i, since), i)
BY ExitsAtNone DEF Here

LEMMA OneIsFinal ==
  ASSUME NEW h, NEW i, OneExit(h, i), h # <<>>
  PROVE  IsFinal(h) /\ h[Len(h)].at = i /\ <<>> \o h = h
<1>1. PICK x : h = <<x>> /\ x.at = i /\ x.share = All
  BY DEF OneExit
<1>2. Len(<<x>>) = 1 /\ <<x>>[1] = x
  OBVIOUS
<1>3. <<>> \o <<x>> = <<x>>
  OBVIOUS
<1> QED BY <1>1, <1>2, <1>3 DEF IsFinal

\* One pass of the loop before anything was found.
LookedAt(p, c, i, since, next) ==
  /\ next.exits = Here(p, c, i, since)
  /\ next.exits = <<>> => next.used \subseteq {0}

LEMMA LookAtFirst ==
  ASSUME NEW p, NEW c, NEW i, NEW since, NEW seen,
         seen.exits = <<>>, seen.used \subseteq {0}
  PROVE  LookedAt(p, c, i, since, LookAt(p, c, i, since, NoPartials, seen))
<1> DEFINE S == {x \in {1} \ seen.used : HitsTarget(p, c, x)}
           T == {x \in {1} : HitsTarget(p, c, x)}
           t == Least(T)
           h == ExitsAt(p, c, i, since, t, NoPartials)
           next == LookAt(p, c, i, since, NoPartials, seen)
<1>1. S = T
  OBVIOUS
<1>2. ~IsFinal(seen.exits) /\ DOMAIN NoPartials = {}
  BY DEF IsFinal, NoPartials
<1>3. next = [exits |-> seen.exits \o ExitsAt(p, c, i, since, Least(S), NoPartials),
              used |-> seen.used \cup {Least(S)}]
  BY <1>2 DEF LookAt
<1>4. OneExit(h, i) /\ (t # 0 => h # <<>>)
  BY ExitsAtNone
<1>5. h = Here(p, c, i, since)
  BY DEF Here
<1> HIDE DEF S, T, t, h, next
<1>6. next.exits = <<>> \o h /\ next.used = seen.used \cup {t}
  BY <1>1, <1>3 DEF t, h
<1>7. <<>> \o h = h
  <2>1. h = <<>> => <<>> \o h = h
    OBVIOUS
  <2> QED BY <1>4, <2>1, OneIsFinal
<1> QED BY <1>4, <1>5, <1>6, <1>7 DEF LookedAt, next

\* exits is what the first candle after mark and up to i that exits makes.
FirstExit(p, cs, mark, i, since, exits) ==
  \/ /\ exits = <<>>
     /\ \A j \in (mark + 1)..i : Here(p, cs[j], j, since) = <<>>
  \/ \E k \in (mark + 1)..i :
       /\ exits = Here(p, cs[k], k, since) /\ exits # <<>>
       /\ \A j \in (mark + 1)..(k - 1) : Here(p, cs[j], j, since) = <<>>

LEMMA TransitionsFirst ==
  ASSUME NEW p, ~p.force, NEW cs \in Seq(Candle), NEW mark \in Nat, NEW since
  PROVE  FirstExit(p, cs, mark, Len(cs), since,
                   Transitions(p, cs, mark, since, NoPartials))
<1> DEFINE n == Len(cs)
           exits == Transitions(p, cs, mark, since, NoPartials)
<1>1. n \in Nat
  OBVIOUS
<1>2. CASE n <= mark
  <2>1. exits = <<>>
    BY <1>2 DEF Transitions
  <2>2. (mark + 1)..n = {}
    BY <1>1, <1>2
  <2> QED BY <2>1, <2>2 DEF FirstExit
<1>3. CASE mark < n
  <2>1. PICK w : WalkOf(p, cs, mark, since, NoPartials, w)
    BY <1>1, <1>3, TransitionsWalk
  <2> DEFINE Good(i) == /\ FirstExit(p, cs, mark, i, since, w[i].exits)
                        /\ w[i].exits = <<>> => w[i].used \subseteq {0}
             S == {k \in Nat : mark + k <= n => Good(mark + k)}
  <2>2. 0 \in S
    <3>1. w[mark] = NothingSeen /\ mark + 0 = mark
      BY <2>1 DEF WalkOf
    <3>2. (mark + 1)..mark = {}
      OBVIOUS
    <3> QED BY <3>1, <3>2 DEF NothingSeen, FirstExit
  <2>3. ASSUME NEW k \in Nat, k \in S PROVE k + 1 \in S
    <3> DEFINE i == mark + (k + 1)
               h == mark + k
    <3> SUFFICES ASSUME i <= n PROVE Good(i)
      OBVIOUS
    <3>1. i \in (mark + 1)..n /\ i - 1 = h /\ h <= n /\ i = h + 1 /\ h \in Nat /\ mark <= h
      BY <1>1
    <3>2. Good(h)
      BY <2>3, <3>1
    <3>3. w[i] = LookAt(p, cs[i], i, since, NoPartials, w[h])
      BY <2>1, <3>1 DEF WalkOf
    <3> HIDE DEF i, h
    <3>4. CASE w[h].exits = <<>>
      <4>1. LookedAt(p, cs[i], i, since, w[i])
        BY <3>2, <3>3, <3>4, LookAtFirst
      <4>2. \A j \in (mark + 1)..h : Here(p, cs[j], j, since) = <<>>
        BY <3>2, <3>4 DEF FirstExit
      <4>3. (mark + 1)..i = ((mark + 1)..h) \cup {i} /\ i - 1 = h
        BY <3>1
      <4>4. w[i].exits = Here(p, cs[i], i, since)
        BY <4>1 DEF LookedAt
      <4>5. CASE w[i].exits = <<>>
        BY <4>1, <4>2, <4>3, <4>4, <4>5 DEF LookedAt, FirstExit
      <4>6. CASE w[i].exits # <<>>
        <5>1. i \in (mark + 1)..i
          BY <3>1
        <5> QED BY <4>2, <4>3, <4>4, <4>6, <5>1 DEF FirstExit
      <4> QED BY <4>5, <4>6
    <3>5. CASE w[h].exits # <<>>
      <4>1. PICK m \in (mark + 1)..h :
              /\ w[h].exits = Here(p, cs[m], m, since)
              /\ \A j \in (mark + 1)..(m - 1) : Here(p, cs[j], j, since) = <<>>
        BY <3>2, <3>5 DEF FirstExit
      <4>2. IsFinal(w[h].exits)
        BY <3>5, <4>1, HereOnce, OneIsFinal
      <4>3. w[i] = w[h]
        BY <3>3, <4>2 DEF LookAt
      <4>4. m \in (mark + 1)..i
        BY <3>1
      <4> QED BY <3>5, <4>1, <4>3, <4>4 DEF FirstExit
    <3> QED BY <3>4, <3>5
  <2> HIDE DEF S
  <2>4. Nat \subseteq S
    BY <2>2, <2>3, SetInduction
  <2>5. Good(n)
    <3> DEFINE k == n - mark
    <3>1. k \in Nat /\ mark + k = n /\ mark + k <= n
      BY <1>1, <1>3
    <3> HIDE DEF k
    <3>2. k \in S
      BY <2>4, <3>1
    <3> HIDE DEF n, Good
    <3> QED BY <3>1, <3>2 DEF S
  <2>6. exits = w[n].exits
    BY <2>1 DEF WalkOf, Closed
  <2> QED BY <2>5, <2>6
<1> QED BY <1>1, <1>2, <1>3

-----------------------------------------------------------------------------
(***************************************************************************)
(* Refreshes in pieces and in one go.                                      *)
(***************************************************************************)
\* The entry is decided by the candles up to the one that fills it.
Signals(p, c) == IF p.fill = "touch" THEN FillsAtTouch(p, c) ELSE ClosesThrough(p, c)
Lag(p) == IF p.fill = "touch" THEN 0 ELSE 1
EntersAt(p, cs, a) ==
  /\ a - Lag(p) > 0 /\ Signals(p, cs[a - Lag(p)])
  /\ \A j \in 1..(a - Lag(p) - 1) : ~Signals(p, cs[j])
EntryBy(p, cs, a) ==
  [at |-> a, price |-> IF p.fill = "touch" THEN TouchPrice(p, cs[a]) ELSE cs[a].open]

\* e is the entry at the only candle of the first n that may be one.
EntryIn(p, cs, n, e) ==
  /\ e = NoEntry \/ \E a \in 1..n : EntersAt(p, cs, a) /\ e = EntryBy(p, cs, a)
  /\ \A a \in 1..n : EntersAt(p, cs, a) => e = EntryBy(p, cs, a)

LEMMA FindEntryIn ==
  ASSUME NEW p, NEW cs \in Seq(Candle)
  PROVE  EntryIn(p, cs, Len(cs), FindEntry(p, cs))
<1> DEFINE n == Len(cs)
           S == {j \in DOMAIN cs : Signals(p, cs[j])}
           i == Least(S)
           e == FindEntry(p, cs)
<1>1. n \in Nat /\ DOMAIN cs = 1..n
  OBVIOUS
<1>2. S \in SUBSET (Nat \ {0})
  BY <1>1
<1>3. S = {} => i = 0
  <2> HIDE DEF S
  <2> QED BY <1>2, LeastIsLeast
<1>4. S # {} => i \in S /\ \A y \in S : i <= y
  <2> HIDE DEF S
  <2> QED BY <1>2, LeastIsLeast
<1>5. S = {} => \A a \in 1..n : ~Signals(p, cs[a])
  BY <1>1
<1>6. S # {} => /\ i \in 1..n /\ Signals(p, cs[i])
                /\ \A j \in 1..(i - 1) : ~Signals(p, cs[j])
  <2> SUFFICES ASSUME S # {}
               PROVE  /\ i \in 1..n /\ Signals(p, cs[i])
                      /\ \A j \in 1..(i - 1) : ~Signals(p, cs[j])
    OBVIOUS
  <2> HIDE DEF i
  <2>1. i \in S /\ \A y \in S : i <= y
    BY <1>4
  <2>2. i \in 1..n /\ Signals(p, cs[i])
    BY <1>1, <2>1
  <2>3. ASSUME NEW j \in 1..(i - 1) PROVE ~Signals(p, cs[j])
    <3>1. j \in 1..n /\ ~(i <= j)
      BY <1>1, <2>2
    <3> QED BY <1>1, <2>1, <3>1
  <2> QED BY <2>2, <2>3
<1>7. ASSUME NEW a \in 1..n, EntersAt(p, cs, a) PROVE S # {} /\ i = a - Lag(p)
  <2> DEFINE b == a - Lag(p)
  <2>1. Lag(p) \in {0, 1}
    BY DEF Lag
  <2>2. b \in 1..n /\ Signals(p, cs[b]) /\ \A j \in 1..(b - 1) : ~Signals(p, cs[j])
    BY <1>1, <1>7, <2>1 DEF EntersAt
  <2> HIDE DEF b, i
  <2>3. S # {}
    BY <1>1, <2>2
  <2> HIDE DEF S
  <2>4. i \in 1..n /\ Signals(p, cs[i]) /\ \A j \in 1..(i - 1) : ~Signals(p, cs[j])
    BY <1>6, <2>3
  <2>5. ~(i < b) /\ ~(b < i)
    BY <1>1, <2>2, <2>4
  <2> QED BY <1>1, <2>2, <2>3, <2>4, <2>5 DEF b
<1>8. S # {} /\ i + Lag(p) \in 1..n => EntersAt(p, cs, i + Lag(p))
  <2> HIDE DEF i, S
  <2> SUFFICES ASSUME S # {} PROVE EntersAt(p, cs, i + Lag(p))
    OBVIOUS
  <2>1. Lag(p) \in {0, 1}
    BY DEF Lag
  <2>2. i \in 1..n /\ (i + Lag(p)) - Lag(p) = i
    BY <1>1, <1>6, <2>1
  <2> QED BY <1>1, <1>6, <2>2 DEF EntersAt
<1>9. CASE p.fill = "touch"
  <2>1. e = IF i = 0 THEN NoEntry ELSE [at |-> i, price |-> TouchPrice(p, cs[i])]
    BY <1>9 DEF FindEntry, Signals
  <2>2. Lag(p) = 0
    BY <1>9 DEF Lag
  <2> HIDE DEF e, i, S
  <2>3. CASE S = {}
    BY <1>3, <1>7, <2>1, <2>3 DEF EntryIn, e, n
  <2>4. CASE S # {}
    <3>1. i \in 1..n /\ i # 0 /\ i + 0 = i
      BY <1>1, <1>6, <2>4
    <3>2. e = EntryBy(p, cs, i) /\ EntersAt(p, cs, i)
      BY <1>8, <1>9, <2>1, <2>2, <2>4, <3>1 DEF EntryBy
    <3>3. \A a \in 1..n : EntersAt(p, cs, a) => a = i
      BY <1>1, <1>7, <2>2
    <3> QED BY <3>1, <3>2, <3>3 DEF EntryIn, e, n
  <2> QED BY <2>3, <2>4
<1>10. CASE p.fill # "touch"
  <2>1. e = IF i = 0 \/ i = n THEN NoEntry
            ELSE [at |-> i + 1, price |-> cs[i + 1].open]
    BY <1>10 DEF FindEntry, Signals
  <2>2. Lag(p) = 1
    BY <1>10 DEF Lag
  <2> HIDE DEF e, i, S
  <2>3. CASE S = {}
    BY <1>3, <1>7, <2>1, <2>3 DEF EntryIn, e, n
  <2>4. CASE S # {} /\ i = n
    <3>1. \A a \in 1..n : ~EntersAt(p, cs, a)
      BY <1>1, <1>7, <2>2, <2>4
    <3> QED BY <2>1, <2>4, <3>1 DEF EntryIn, e, n
  <2>5. CASE S # {} /\ i # n
    <3>1. i \in 1..n /\ i # 0 /\ i + 1 \in 1..n
      BY <1>1, <1>6, <2>5
    <3>2. e = EntryBy(p, cs, i + 1) /\ EntersAt(p, cs, i + 1)
      BY <1>8, <1>10, <2>1, <2>2, <2>5, <3>1 DEF EntryBy
    <3>3. \A a \in 1..n : EntersAt(p, cs, a) => a = i + 1
      BY <1>1, <1>7, <2>2, <3>1
    <3> QED BY <3>1, <3>2, <3>3 DEF EntryIn, e, n
  <2> QED BY <2>3, <2>4, <2>5
<1> QED BY <1>9, <1>10

\* The candles that an entry may be looked for in.
Allowed(p, a) == p.expiry = 0 \/ a <= p.expiry
EntryAmong(p, cs, n, e) ==
  /\ e = NoEntry \/
       \E a \in 1..n : Allowed(p, a) /\ EntersAt(p, cs, a) /\ e = EntryBy(p, cs, a)
  /\ \A a \in 1..n : Allowed(p, a) /\ EntersAt(p, cs, a) => e = EntryBy(p, cs, a)

\* What a prefix of the candles decides.
LEMMA SamePrefix ==
  ASSUME NEW p, NEW cs, NEW ds, NEW n \in Nat, \A i \in 1..n : ds[i] = cs[i],
         NEW a \in 1..n
  PROVE  EntersAt(p, ds, a) = EntersAt(p, cs, a) /\ EntryBy(p, ds, a) = EntryBy(p, cs, a)
<1>1. Lag(p) \in {0, 1} /\ a \in Nat /\ a <= n /\ ds[a] = cs[a]
  BY DEF Lag
<1>2. CASE a - Lag(p) > 0
  <2> DEFINE b == a - Lag(p)
  <2>1. b \in 1..n /\ \A j \in 1..(b - 1) : j \in 1..n
    BY <1>1, <1>2
  <2> HIDE DEF b
  <2>2. ds[b] = cs[b] /\ \A j \in 1..(b - 1) : ds[j] = cs[j]
    BY <2>1
  <2> QED BY <1>1, <1>2, <2>2 DEF EntersAt, EntryBy, b
<1>3. CASE ~(a - Lag(p) > 0)
  BY <1>1, <1>3 DEF EntersAt, EntryBy
<1> QED BY <1>2, <1>3

LEMMA EntrySeenAmong ==
  ASSUME Typed, NEW m \in 0..Len(tape)
  PROVE  EntryAmong(plan, tape, m, EntrySeen(m))
<1> DEFINE cs == Seen(m)
           el == Eligible(plan, cs)
           k == Len(el)
           e == FindEntry(plan, el)
<1>1. PlanOK(plan) /\ tape \in Seq(Candle) /\ Len(tape) \in Nat /\ m \in Nat
      /\ plan.expiry \in Nat
  BY PlanIsOK DEF Typed, PlanOK
<1>2. /\ cs \in Seq(Candle) /\ Len(cs) = m
      /\ \A i \in 1..m : cs[i] = tape[i]
  <2>1. \A i \in 1..m : tape[i] \in Candle
    BY <1>1
  <2> QED BY <1>1, <2>1 DEF Seen
<1> HIDE DEF cs
<1>3. el \in Seq(Candle)
  BY <1>1, <1>2, EligibleIsPrefix
<1>4. k = IF Expired(plan, cs) THEN plan.expiry ELSE m
  BY <1>1, <1>2, EligibleIsPrefix
<1>5. \A i \in 1..k : el[i] = cs[i]
  BY <1>1, <1>2, EligibleIsPrefix
<1>6. k \in Nat /\ k <= m /\ \A a \in 1..m : (a <= k <=> Allowed(plan, a))
  BY <1>1, <1>2, <1>4 DEF Expired, Allowed
<1>7. \A i \in 1..k : el[i] = tape[i]
  BY <1>1, <1>2, <1>5, <1>6
<1> HIDE DEF el
<1>8. EntryIn(plan, el, k, e)
  BY <1>3, FindEntryIn
<1> HIDE DEF k, e
<1>9. \A a \in 1..k : /\ EntersAt(plan, el, a) = EntersAt(plan, tape, a)
                      /\ EntryBy(plan, el, a) = EntryBy(plan, tape, a)
  BY <1>6, <1>7, SamePrefix
<1>10. \A a \in 1..m : Allowed(plan, a) <=> a \in 1..k
  BY <1>1, <1>6
<1>11. \A a \in 1..k : a \in 1..m
  BY <1>1, <1>6
<1>12. e = EntrySeen(m)
  BY DEF e, el, cs, EntrySeen
<1> QED BY <1>8, <1>9, <1>10, <1>11, <1>12 DEF EntryIn, EntryAmong

\* Once there, the entry stays the same; and it was there from its candle on.
LEMMA EntryStays ==
  ASSUME Typed, NEW n \in 0..Len(tape), NEW m \in 0..n
  PROVE  /\ EntrySeen(m) # NoEntry => EntrySeen(n) = EntrySeen(m)
         /\ EntrySeen(n) # NoEntry /\ EntrySeen(n).at <= m => EntrySeen(m) = EntrySeen(n)
         /\ EntrySeen(m) # NoEntry => EntrySeen(m).at \in 1..m
<1>1. Len(tape) \in Nat /\ m \in 0..Len(tape) /\ n \in Nat /\ m \in Nat
  BY DEF Typed
<1>2. EntryAmong(plan, tape, m, EntrySeen(m)) /\ EntryAmong(plan, tape, n, EntrySeen(n))
  BY <1>1, EntrySeenAmong
<1>3. \A a : EntryBy(plan, tape, a).at = a
  BY DEF EntryBy
<1>4. \A a \in 1..m : a \in 1..n
  BY <1>1
<1>5. \A a \in 1..n : a <= m => a \in 1..m
  BY <1>1
<1> QED BY <1>2, <1>3, <1>4, <1>5 DEF EntryAmong

LEMMA WholeTape == ASSUME Typed PROVE Entry(tape) = EntrySeen(Len(tape))
<1>1. Seen(Len(tape)) = tape
  BY SubSeqFull DEF Typed, Seen
<1> QED BY <1>1 DEF Entry, EntrySeen

LEMMA SeenIs ==
  ASSUME Typed, NEW m \in 0..Len(tape)
  PROVE  Seen(m) \in Seq(Candle) /\ Len(Seen(m)) = m /\ \A i \in 1..m : Seen(m)[i] = tape[i]
<1>1. tape \in Seq(Candle) /\ Len(tape) \in Nat /\ m \in Nat
  BY DEF Typed
<1>2. \A i \in 1..m : tape[i] \in Candle
  BY <1>1
<1> QED BY <1>1, <1>2 DEF Seen

LEMMA AppliedNone == ASSUME NEW p, NEW pos PROVE Applied(p, pos, <<>>).pos = pos
<1> DEFINE none == <<>>
<1>1. Len(none) = 0 /\ DOMAIN none = 1..0
  OBVIOUS
<1> HIDE DEF none
<1>2. PICK h : /\ Steps("apply", p, [pos |-> pos, events |-> <<>>], none, Len(none), h)
               /\ Applied(p, pos, none) = h[Len(none)]
  <2>1. Len(none) \in Nat /\ DOMAIN none = 1..Len(none)
    BY <1>1
  <2> QED BY <2>1, AppliedSteps
<1>3. Applied(p, pos, none) = [pos |-> pos, events |-> <<>>]
  BY <1>1, <1>2 DEF Steps
<1> QED BY <1>3 DEF none

\* k is the first candle after the entry that exits.
LeavesAt(e, k) ==
  /\ e.at < k /\ StaysIn(e, k - 1)
  /\ Here(plan, tape[k], k, e.at) # <<>>

LEMMA OneShotAfter ==
  ASSUME Typed, ~plan.force, NEW m \in 0..Len(tape), NEW e, e # NoEntry, EntrySeen(m) = e
  PROVE  \/ StaysIn(e, m) /\ OneShot(Seen(m)) = Entered(e)
         \/ \E k \in (e.at + 1)..m :
              /\ LeavesAt(e, k)
              /\ OneShot(Seen(m)) = Applied(plan, Entered(e), Here(plan, tape[k], k, e.at)).pos
<1> DEFINE cs == Seen(m)
           exits == Transitions(plan, cs, e.at, e.at, NoPartials)
<1>1. m \in Nat /\ e.at \in 1..m /\ e.at \in Nat
  <2>1. m \in 0..m /\ m \in Nat
    BY DEF Typed
  <2> QED BY <2>1, EntryStays
<1>2. OneShot(cs) = Applied(plan, Entered(e), exits).pos
  BY DEF OneShot, EntrySeen, Entered
<1>3. cs \in Seq(Candle) /\ Len(cs) = m /\ \A i \in 1..m : cs[i] = tape[i]
  BY SeenIs
<1> HIDE DEF cs
<1>4. FirstExit(plan, cs, e.at, m, e.at, exits)
  BY <1>1, <1>3, TransitionsFirst
<1> HIDE DEF exits
<1>5. \A i \in (e.at + 1)..m : cs[i] = tape[i]
  BY <1>1, <1>3
<1>6. CASE /\ exits = <<>>
           /\ \A j \in (e.at + 1)..m : Here(plan, cs[j], j, e.at) = <<>>
  BY <1>2, <1>5, <1>6, AppliedNone DEF StaysIn, cs
<1>7. ASSUME NEW k \in (e.at + 1)..m,
             exits = Here(plan, cs[k], k, e.at), exits # <<>>,
             \A j \in (e.at + 1)..(k - 1) : Here(plan, cs[j], j, e.at) = <<>>
      PROVE  /\ LeavesAt(e, k)
             /\ OneShot(cs) = Applied(plan, Entered(e), Here(plan, tape[k], k, e.at)).pos
  <2>1. cs[k] = tape[k] /\ e.at < k
    BY <1>1, <1>5
  <2>2. \A j \in (e.at + 1)..(k - 1) : cs[j] = tape[j]
    BY <1>1, <1>5
  <2>3. StaysIn(e, k - 1)
    BY <1>7, <2>2 DEF StaysIn
  <2> QED BY <1>2, <1>7, <2>1, <2>3 DEF LeavesAt
<1> QED BY <1>4, <1>6, <1>7 DEF FirstExit, cs

LEMMA OneShotOpen ==
  ASSUME Typed, ~plan.force, NEW m \in 0..Len(tape), NEW e, e # NoEntry,
         EntrySeen(m) = e, StaysIn(e, m)
  PROVE  OneShot(Seen(m)) = Entered(e)
<1>1. m \in 0..m /\ m \in Nat
  BY DEF Typed
<1>2. e.at \in 1..m
  BY <1>1, EntryStays
<1>3. ASSUME NEW k \in (e.at + 1)..m PROVE ~LeavesAt(e, k)
  BY DEF LeavesAt, StaysIn
<1> QED BY <1>3, OneShotAfter

LEMMA OneShotShut ==
  ASSUME Typed, ~plan.force, NEW m \in 0..Len(tape), NEW e, e # NoEntry,
         EntrySeen(m) = e, LeavesAt(e, m)
  PROVE  OneShot(Seen(m)) = Applied(plan, Entered(e), Here(plan, tape[m], m, e.at)).pos
<1>1. m \in 0..m /\ m \in Nat
  BY DEF Typed
<1>2. e.at \in 1..m
  BY <1>1, EntryStays
<1>3. ~StaysIn(e, m)
  <2>1. m \in (e.at + 1)..m
    BY <1>1, <1>2 DEF LeavesAt
  <2> QED BY <2>1 DEF LeavesAt, StaysIn
<1>4. ASSUME NEW k \in (e.at + 1)..m, LeavesAt(e, k) PROVE k = m
  <2>1. k \in (e.at + 1)..(m - 1) \/ k = m
    BY <1>1, <1>2
  <2>2. k \notin (e.at + 1)..(m - 1)
    BY <1>4 DEF LeavesAt, StaysIn
  <2> QED BY <2>1, <2>2
<1> QED BY <1>3, <1>4, OneShotAfter

\* The exits that a refresh finds after mark, while nothing exited before.
LEMMA FoundFirst ==
  ASSUME Typed, ~plan.force, NEW e, NEW mark \in Nat, e.at \in Nat, e.at <= mark,
         mark <= Len(tape), StaysIn(e, mark),
         NEW exits, exits = Transitions(plan, tape, mark, e.at, NoPartials)
  PROVE  \/ exits = <<>> /\ StaysIn(e, Len(tape))
         \/ /\ IsFinal(exits)
            /\ \E k \in (mark + 1)..Len(tape) :
                 /\ exits = Here(plan, tape[k], k, e.at) /\ LeavesAt(e, k)
                 /\ exits[Len(exits)].at = k
<1> DEFINE n == Len(tape)
<1>1. tape \in Seq(Candle) /\ n \in Nat
  BY DEF Typed
<1>2. FirstExit(plan, tape, mark, n, e.at, exits)
  BY <1>1, TransitionsFirst
<1>3. CASE /\ exits = <<>>
           /\ \A j \in (mark + 1)..n : Here(plan, tape[j], j, e.at) = <<>>
  <2>1. \A j \in (e.at + 1)..n : j \in (e.at + 1)..mark \/ j \in (mark + 1)..n
    BY <1>1
  <2> QED BY <1>3, <2>1 DEF StaysIn
<1>4. ASSUME NEW k \in (mark + 1)..n,
             exits = Here(plan, tape[k], k, e.at), exits # <<>>,
             \A j \in (mark + 1)..(k - 1) : Here(plan, tape[j], j, e.at) = <<>>
      PROVE  IsFinal(exits) /\ LeavesAt(e, k) /\ exits[Len(exits)].at = k
  <2>1. \A j \in (e.at + 1)..(k - 1) : j \in (e.at + 1)..mark \/ j \in (mark + 1)..(k - 1)
    BY <1>1
  <2>2. StaysIn(e, k - 1)
    BY <1>4, <2>1 DEF StaysIn
  <2>3. e.at < k
    BY <1>1
  <2>4. IsFinal(exits) /\ exits[Len(exits)].at = k
    BY <1>4, HereOnce, OneIsFinal
  <2> QED BY <1>4, <2>2, <2>3, <2>4 DEF LeavesAt
<1> QED BY <1>2, <1>3, <1>4 DEF FirstExit

LEMMA ReplaysOn ==
  ASSUME UNCHANGED market, ReplaysAt(run', position')
  PROVE  Replays'
BY DEF market, Replays, ReplaysAt, OneShot, Seen, EntrySeen, InMarket, StaysIn, Entered

\* A run without partial targets and forced close that goes on.
LEMMA ActiveReplays ==
  ASSUME Steady, Replays, plan.partials = NoPartials, ~plan.force,
         Requested, run'.status \in Active
  PROVE  ReplaysAt(run', position')
<1>0. /\ Typed /\ tape \in Seq(Candle) /\ Len(tape) \in Nat
      /\ run.mark \in 0..Len(tape) /\ run.mark \in Nat
  BY DEF Steady, Typed, RunT
<1>1. CASE WaitsOn
  <2>1. EntrySeen(Len(tape)) = NoEntry
    BY <1>0, <1>1, WholeTape DEF WaitsOn
  <2>2. OneShot(Seen(Len(tape))) = NoPosition
    BY <2>1 DEF OneShot, EntrySeen
  <2> QED BY <1>1, <2>2 DEF WaitsOn, ReplaysAt
<1>2. ASSUME NEW m \in 0..Len(tape), NEW e, EntrySeen(m) = e, e # NoEntry, e.at <= m,
             StaysIn(e, m), run'.mark = m, position' = Entered(e)
      PROVE  ReplaysAt(run', position')
  <2>1. OneShot(Seen(m)) = Entered(e)
    BY <1>0, <1>2, OneShotOpen
  <2> QED BY <1>2, <2>1 DEF ReplaysAt, InMarket
<1>3. ASSUME NEW mark, NEW pos, NEW exits, GoesOn(mark, pos, exits),
             IsFinal(exits) \/ exits = <<>>
      PROVE  exits = <<>> /\ position' = pos
  BY <1>3 DEF GoesOn
<1>4. ASSUME NEW e, e = Entry(tape), EntersOn(e) PROVE ReplaysAt(run', position')
  <2> DEFINE exits == Transitions(plan, tape, e.at, e.at, NoPartials)
  <2>1. /\ e # NoEntry /\ e.at \in 1..Len(tape) /\ GoesOn(e.at, Entered(e), exits)
        /\ exits = <<>> => run'.mark = e.at
    BY <1>4 DEF EntersOn
  <2>2. EntrySeen(Len(tape)) = e
    BY <1>0, <1>4, WholeTape
  <2>3. e.at \in Nat /\ e.at \in 0..Len(tape) /\ Len(tape) \in 0..Len(tape) /\ e.at <= e.at
        /\ e.at <= Len(tape)
    BY <1>0, <2>1
  <2>4. EntrySeen(e.at) = e
    BY <1>0, <2>1, <2>2, <2>3, EntryStays
  <2>5. StaysIn(e, e.at)
    <3>1. (e.at + 1)..e.at = {}
      BY <2>3
    <3> QED BY <3>1 DEF StaysIn
  <2>6. IsFinal(exits) \/ exits = <<>>
    BY <1>0, <2>3, <2>5, FoundFirst
  <2> HIDE DEF exits
  <2>7. exits = <<>> /\ position' = Entered(e)
    BY <1>3, <2>1, <2>6
  <2> QED BY <1>2, <2>1, <2>3, <2>4, <2>5, <2>7
<1>5. ASSUME NEW cs \in {tape, <<>>}, HoldsOn(cs) PROVE ReplaysAt(run', position')
  <2> DEFINE e == EntrySeen(run.mark)
             exits == Transitions(plan, cs, run.mark, e.at, NoPartials)
  <2>1. Holds /\ position # NoPosition /\ run.status \in Active
    BY <1>5 DEF HoldsOn, Holds
  <2>2. InMarket(e, run.mark) /\ position = Entered(e)
    BY <2>1 DEF Replays, ReplaysAt
  <2>3. position.since = e.at /\ Partials = NoPartials
    BY <2>2 DEF Entered, OpenPosition, Partials
  <2>4. /\ GoesOn(run.mark, position, exits)
        /\ exits = <<>> => run'.mark = IF Len(cs) > run.mark THEN Len(cs) ELSE run.mark
    BY <1>5, <2>3 DEF HoldsOn
  <2> HIDE DEF e
  <2>5. e # NoEntry /\ e.at <= run.mark /\ StaysIn(e, run.mark)
    BY <2>2 DEF InMarket
  <2>6. e.at \in Nat
    <3>1. Len(tape) \in Nat /\ run.mark \in 0..run.mark
      BY <1>0
    <3>2. e.at \in 1..run.mark
      BY <1>0, <2>5, <3>1, EntryStays DEF e
    <3> QED BY <1>0, <3>2
  <2>7. CASE cs = tape
    <3>1. /\ IsFinal(exits) \/ exits = <<>>
          /\ exits = <<>> => IsFinal(exits) \/ StaysIn(e, Len(tape))
      BY <1>0, <2>5, <2>6, <2>7, FoundFirst
    <3> HIDE DEF exits
    <3>2. exits = <<>> /\ position' = position
      BY <1>3, <2>4, <3>1
    <3>3. run'.mark = Len(tape) /\ StaysIn(e, Len(tape)) /\ e.at <= Len(tape)
      BY <1>0, <2>4, <2>5, <2>6, <2>7, <3>1, <3>2 DEF IsFinal
    <3>4. Len(tape) \in 0..Len(tape) /\ run.mark \in 0..Len(tape)
      BY <1>0
    <3>5. EntrySeen(Len(tape)) = e
      BY <1>0, <2>5, <3>4, EntryStays DEF e
    <3> QED BY <1>2, <2>2, <2>5, <3>2, <3>3, <3>4, <3>5
  <2>8. CASE cs = <<>>
    <3>1. exits = <<>>
      BY <1>0, <2>8 DEF Transitions
    <3> HIDE DEF exits
    <3>2. position' = position /\ run'.mark = run.mark
      BY <1>0, <1>3, <2>4, <2>8, <3>1
    <3> QED BY <1>0, <1>2, <2>2, <2>5, <3>2 DEF e
  <2> QED BY <2>7, <2>8
<1> QED BY <1>1, <1>4, <1>5, ActiveGoesOn

\* The run completes with the first exit.
LEMMA CompletesReplays ==
  ASSUME Typed, ~plan.force, NEW e, e # NoEntry, EntrySeen(Len(tape)) = e,
         NEW mark \in e.at..Len(tape), StaysIn(e, mark), NEW exits, IsFinal(exits),
         exits = Transitions(plan, tape, mark, e.at, NoPartials),
         position' = Applied(plan, Entered(e), exits).pos,
         run'.mark = exits[Len(exits)].at, run'.status \notin Active
  PROVE  ReplaysAt(run', position')
<1> DEFINE n == Len(tape)
<1>1. n \in Nat /\ n \in 0..n
  BY DEF Typed
<1>2. e.at \in 1..n
  BY <1>1, EntryStays
<1>3. mark \in Nat /\ e.at \in Nat /\ e.at <= mark /\ mark <= n
  BY <1>1, <1>2
<1>4. PICK k \in (mark + 1)..n :
        /\ exits = Here(plan, tape[k], k, e.at) /\ LeavesAt(e, k)
        /\ exits[Len(exits)].at = k
  <2>1. exits # <<>>
    BY DEF IsFinal
  <2> QED BY <1>3, <2>1, FoundFirst
<1>5. k \in 0..n /\ e.at <= k
  BY <1>1, <1>3
<1>6. EntrySeen(k) = e
  BY <1>1, <1>5, EntryStays
<1>7. OneShot(Seen(k)) = Applied(plan, Entered(e), Here(plan, tape[k], k, e.at)).pos
  BY <1>4, <1>5, <1>6, OneShotShut
<1> QED BY <1>4, <1>7 DEF ReplaysAt

\* A run without partial targets and forced close that ends.
LEMMA EndedReplays ==
  ASSUME Steady, Replays, plan.partials = NoPartials, ~plan.force,
         Requested, run'.status \notin Active
  PROVE  ReplaysAt(run', position')
<1>0. /\ Typed /\ tape \in Seq(Candle) /\ Len(tape) \in Nat
      /\ run.mark \in 0..Len(tape) /\ run.mark \in Nat /\ plan.expiry \in Nat
  BY PlanIsOK DEF Steady, Typed, RunT, PlanOK
<1>1. SUFFICES ASSUME run'.reason \in Decided PROVE ReplaysAt(run', position')
  BY DEF ReplaysAt
<1>2. ~RefreshThrows /\ ~CloseManually /\ ~Abandon
  <2>1. ~RefreshThrows
    BY <1>1 DEF RefreshThrows, Commits, Row, Decided
  <2>2. ~CloseManually
    <3> SUFFICES ASSUME CloseManually PROVE FALSE
      OBVIOUS
    <3>1. PICK at \in {run.mark, Len(tape)} :
            \E price \in IF at = Len(tape) THEN ClosePrices \cup {tape[at].close}
                         ELSE ClosePrices :
              LET pos == ClosePosition(plan, position, price, position.remaining,
                                       "manual_close")
              IN Commits(Row("completed", "manual_close", at), pos, ManualOutcome(pos),
                         <<Event("position_closed", at, price, position.remaining,
                                 "manual_close"),
                           Note("simulation_completed", at, "manual_close")>>)
      BY DEF CloseManually
    <3>2. run' = Row("completed", "manual_close", at)
      BY <3>1 DEF Commits
    <3> QED BY <1>1, <3>2 DEF Row, Decided
  <2>3. ~Abandon
    BY <1>1 DEF Abandon, Ends, Commits, Row, Decided
  <2> QED BY <2>1, <2>2, <2>3
<1>3. PICK cs \in {tape, <<>>} :
        /\ Response(cs)
        /\ \/ RefreshFindsNoCandles(cs) \/ RefreshMisses(cs)
           \/ RefreshEndsUnfilled(cs) \/ RefreshWaits(cs)
           \/ RefreshEnters(cs) \/ RefreshHolds(cs)
  BY <1>2 DEF Requested
<1>4. ~RefreshFindsNoCandles(cs) /\ ~RefreshEndsUnfilled(cs) /\ ~RefreshWaits(cs)
  BY <1>1 DEF RefreshFindsNoCandles, RefreshEndsUnfilled, RefreshWaits, Ends, Commits,
         Row, Active, Decided
<1>5. CASE RefreshMisses(cs)
  <2> DEFINE at == plan.expiry + 1
             note == Note("setup_expired", at, "entry_missed")
             over == Note("simulation_completed", at, "setup_expiry")
  <2>1. cs = tape /\ Seeks /\ Entry(tape) = NoEntry /\ Expired(plan, tape)
    BY <1>5 DEF RefreshMisses
  <2>2. at \in 0..Len(tape) /\ Len(tape) \in 0..Len(tape)
    BY <1>0, <2>1 DEF Expired
  <2>3. position = NoPosition /\ ledger = <<>>
    BY <2>1, SeekFacts
  <2>4. Commits(Row("completed", "setup_expiry", at), position, Missed,
                Append(<<note>>, over))
    BY <1>5 DEF RefreshMisses, Ends
  <2>5. Rebuild(plan, ledger \o Append(<<note>>, over)) = NoPosition
    <3>1. Remark(note) /\ Remark(over)
      BY <2>2 DEF Remark, Note, Event, EventT, Types, Codes, Sells, Reasons, CloseReasons
    <3> HIDE DEF note, over
    <3>2. note \in EventT /\ over \in EventT
      BY <3>1 DEF Remark
    <3>3. /\ <<note>> \in Seq(EventT) /\ <<note>> = Append(<<>>, note)
          /\ ledger \o Append(<<note>>, over) = Append(<<note>>, over)
      BY <2>3, <3>2
    <3>4. Rebuild(plan, <<note>>) = Rebuild(plan, <<>>)
      <4> DEFINE none == <<>>
      <4>1. none \in Seq(EventT) /\ <<note>> = Append(none, note)
        BY <3>3
      <4> HIDE DEF none
      <4>2. Rebuild(plan, Append(none, note)) = Rebuild(plan, none)
        BY <3>1, <4>1, RemarkAppend
      <4> QED BY <4>1, <4>2 DEF none
    <3>5. Rebuild(plan, Append(<<note>>, over)) = Rebuild(plan, <<note>>)
      BY <3>1, <3>3, RemarkAppend
    <3> QED BY <3>3, <3>4, <3>5, RebuildEmpty
  <2> HIDE DEF at, note, over
  <2>6. position' = NoPosition /\ run'.mark = at
    BY <2>3, <2>4, <2>5 DEF Commits, Row
  <2>7. EntrySeen(Len(tape)) = NoEntry
    BY <1>0, <2>1, WholeTape
  <2>8. EntrySeen(at) = NoEntry
    BY <1>0, <2>2, <2>7, EntryStays
  <2>9. OneShot(Seen(at)) = NoPosition
    BY <2>8 DEF OneShot, EntrySeen
  <2> QED BY <2>6, <2>9 DEF ReplaysAt
<1>6. CASE RefreshEnters(cs)
  <2> DEFINE e == Entry(tape)
             n == Len(tape)
             exits == Transitions(plan, tape, e.at, e.at, plan.partials)
             pos == Entered(e)
             after == Applied(plan, pos, exits)
             events == <<Event("position_opened", e.at, e.price, plan.quantity,
                               "entry_filled")>> \o after.events
             mark == IF exits = <<>> THEN e.at ELSE exits[Len(exits)].at
             dry == Note("data_end_reached", n, "data_end_reached")
             over == Note("simulation_completed", n, "data_end_reached")
             reason == IF after.pos.status = "partially_closed"
                       THEN "partial_target_filled" ELSE "entry_filled"
  <2>1. cs = tape /\ e # NoEntry
    BY <1>6 DEF RefreshEnters
  <2>2. /\ CASE IsFinal(exits) -> Completes(after.pos, exits, events)
            [] ~IsFinal(exits) /\ plan.mode = "replay" ->
               Commits(Row("completed", "data_end_reached", n), after.pos,
                       Inconclusive("none"), events \o <<dry, over>>)
            [] OTHER ->
               Commits(Row("position_open", reason, mark), after.pos, outcome, events)
    BY <1>6, <2>1 DEF RefreshEnters, Entered
  <2>3. EntrySeen(Len(tape)) = e
    BY <1>0, WholeTape
  <2>4. n \in Nat /\ n \in 0..n
    BY <1>0
  <2> HIDE DEF e
  <2>5. e.at \in 1..n
    BY <1>0, <2>1, <2>3, <2>4, EntryStays
  <2>6. e.at \in Nat /\ e.at \in e.at..n /\ StaysIn(e, e.at) /\ (e.at + 1)..e.at = {}
    BY <2>4, <2>5 DEF StaysIn
  <2>7. PartialsOK(plan.partials) /\ PlanOK(plan)
    BY <1>0, PlanIsOK, EmptyPartials
  <2>8. Formed(plan, e.at, n, plan.partials, exits)
    BY <1>0, <2>6, <2>7, TransitionsFormed
  <2> HIDE DEF exits
  <2>9. IsFinal(exits) /\ Completes(after.pos, exits, events)
    <3>1. IsFinal(exits)
      <4> SUFFICES ASSUME ~IsFinal(exits) PROVE FALSE
        OBVIOUS
      <4>1. CASE plan.mode = "replay"
        <5>1. Commits(Row("completed", "data_end_reached", n), after.pos,
                      Inconclusive("none"), events \o <<dry, over>>)
          BY <2>2, <4>1
        <5> QED BY <1>1, <5>1 DEF Commits, Row, Decided
      <4>2. CASE plan.mode # "replay"
        <5>1. Commits(Row("position_open", reason, mark), after.pos, outcome, events)
          BY <2>2, <4>2
        <5> QED BY <5>1 DEF Commits, Row, Active
      <4> QED BY <4>1, <4>2
    <3> QED BY <2>2, <3>1
  <2>10. Held(pos, n)
    <3>1. e.price \in Int /\ plan.quantity \in Nat \ {0}
      <4>1. EntryAt(e, n)
        BY <1>0, <2>7, EntryOK DEF Entry, e
      <4> QED BY <2>1, <2>7, <4>1 DEF EntryAt, PlanOK
    <3> QED BY <2>4, <2>5, <3>1, OpenIsHeld DEF Entered
  <2>11. after.pos # NoPosition
    <3>1. LedgerOK(ledger, n)
      BY <1>0 DEF Typed
    <3>2. Exited(ledger, pos, exits, after, ledger \o after.events)
      BY <2>4, <2>8, <2>10, <3>1, ExitedByApplied
    <3> QED BY <3>2, HeldIsPosition DEF Exited
  <2> HIDE DEF after, pos
  <2>12. position' = after.pos /\ run'.mark = exits[Len(exits)].at
    BY <2>9, <2>11 DEF Completes, Commits, Row
  <2> QED BY <1>0, <1>1, <2>1, <2>3, <2>6, <2>9, <2>12, CompletesReplays
          DEF exits, after, pos
<1>7. CASE RefreshHolds(cs)
  <2> DEFINE e == EntrySeen(run.mark)
             n == Len(tape)
             exits == Transitions(plan, cs, run.mark, position.since, Partials)
             after == Applied(plan, position, exits)
             mark == IF Len(cs) > run.mark THEN Len(cs) ELSE run.mark
  <2>1. /\ run.status \in Active /\ position # NoPosition /\ Held(position, n)
        /\ n \in Nat /\ LedgerOK(ledger, n)
    BY <1>7, HoldFacts DEF RefreshHolds
  <2>2. /\ CASE exits = <<>> ->
               Commits([run EXCEPT !.mark = mark], position, outcome, <<>>)
            [] IsFinal(exits) -> Completes(after.pos, exits, after.events)
            [] OTHER ->
               Commits(Row("position_open", "partial_target_filled",
                           exits[Len(exits)].at),
                       after.pos, outcome, after.events)
    BY <1>7 DEF RefreshHolds, Partials
  <2>3. InMarket(e, run.mark) /\ position = Entered(e)
    BY <2>1 DEF Replays, ReplaysAt
  <2>4. position.since = e.at /\ Partials = NoPartials
    BY <2>3 DEF Entered, OpenPosition, Partials
  <2>5. e # NoEntry /\ e.at <= run.mark /\ StaysIn(e, run.mark)
    BY <2>3 DEF InMarket
  <2>6. PartialsOK(Partials) /\ position.since \in Nat
    BY <1>0, <2>1, <2>4, PlanIsOK, EmptyPartials DEF Held
  <2>7. Formed(plan, run.mark, n, Partials, exits)
    BY <1>0, <2>6, TransitionsFormed
  <2> HIDE DEF exits, e
  <2>8. IsFinal(exits) /\ Completes(after.pos, exits, after.events)
    <3>1. exits # <<>>
      <4> SUFFICES ASSUME exits = <<>> PROVE FALSE
        OBVIOUS
      <4>1. Commits([run EXCEPT !.mark = mark], position, outcome, <<>>)
        BY <2>2 DEF IsFinal
      <4>2. run' = [run EXCEPT !.mark = mark] /\ run \in RunT(n)
        BY <1>0, <4>1 DEF Commits, Typed
      <4>3. run'.status = run.status
        BY <4>2 DEF RunT
      <4> QED BY <2>1, <4>3
    <3>2. IsFinal(exits)
      <4> SUFFICES ASSUME ~IsFinal(exits) PROVE FALSE
        OBVIOUS
      <4>1. Commits(Row("position_open", "partial_target_filled", exits[Len(exits)].at),
                    after.pos, outcome, after.events)
        BY <2>2, <3>1
      <4> QED BY <4>1 DEF Commits, Row, Active
    <3> QED BY <2>2, <3>1, <3>2
  <2>9. cs = tape
    <3> SUFFICES ASSUME cs = <<>> PROVE FALSE
      OBVIOUS
    <3>1. exits = <<>>
      BY <1>0 DEF Transitions, exits
    <3> QED BY <2>8, <3>1 DEF IsFinal
  <2>10. after.pos # NoPosition
    <3>1. Exited(ledger, position, exits, after, ledger \o after.events)
      BY <2>1, <2>7, ExitedByApplied
    <3> QED BY <3>1, HeldIsPosition DEF Exited
  <2> HIDE DEF after
  <2>11. position' = after.pos /\ run'.mark = exits[Len(exits)].at
    BY <2>8, <2>10 DEF Completes, Commits, Row
  <2>12. exits = Transitions(plan, tape, run.mark, e.at, NoPartials)
    BY <2>4, <2>9 DEF exits
  <2>13. position' = Applied(plan, Entered(e), exits).pos
    BY <2>3, <2>11 DEF after
  <2>14. n \in 0..Len(tape) /\ run.mark \in 0..n /\ run.mark \in 0..Len(tape)
    BY <1>0
  <2>15. EntrySeen(n) = e /\ e.at \in 1..run.mark
    BY <1>0, <2>5, <2>14, EntryStays DEF e
  <2>16. run.mark \in e.at..n
    BY <1>0, <2>14, <2>15
  <2> QED BY <1>0, <1>1, <2>5, <2>8, <2>11, <2>12, <2>13, <2>15, <2>16, CompletesReplays
<1> QED BY <1>3, <1>4, <1>5, <1>6, <1>7

LEMMA NextReplays ==
  ASSUME Steady, Projected, Replays, Forming = FALSE, Readers = {}, [Next]_vars
  PROVE  Replays'
<1>0. /\ Typed /\ tape \in Seq(Candle) /\ Len(tape) \in Nat
      /\ run.mark \in 0..Len(tape)
  BY DEF Steady, Typed, RunT
<1>1. CASE Moves /\ Requested
  <2>1. UNCHANGED market
    BY <1>1 DEF Moves, Commits
  <2>2. CASE plan.partials = NoPartials /\ ~plan.force
    BY <1>1, <2>1, <2>2, ActiveReplays, EndedReplays, ReplaysOn
  <2>3. CASE ~(plan.partials = NoPartials /\ ~plan.force)
    BY <2>1, <2>3, ReplaysOn DEF ReplaysAt
  <2> QED BY <2>2, <2>3
<1>2. CASE Stays
  <2>1. PICK next, events :
          /\ Commits(next, position, outcome, events)
          /\ \/ events = <<>> /\ next = run /\ ~Seeks
             \/ next = Row("cancelled", "manual_cancel", run.mark)
    BY <1>2 DEF Stays
  <2>2. UNCHANGED market /\ run' = next
    BY <2>1 DEF Commits
  <2>3. CASE next = Row("cancelled", "manual_cancel", run.mark)
    <3>1. run'.status \notin Active /\ run'.reason \notin Decided
      BY <2>2, <2>3 DEF Row, Active, Decided
    <3> QED BY <2>2, <3>1, ReplaysOn DEF ReplaysAt
  <2>4. CASE events = <<>> /\ next = run
    <3>1. position = Rebuild(plan, ledger)
      BY DEF Projected, Reflects, Polled
    <3>2. ledger' = ledger
      <4>1. ledger \in Seq(EventT)
        BY <1>0 DEF Typed, LedgerOK
      <4> QED BY <2>1, <2>4, <4>1 DEF Commits
    <3>3. position' = position
      BY <2>1, <3>1, <3>2 DEF Commits
    <3> QED BY <2>2, <2>4, <3>3, ReplaysOn DEF Replays
  <2> QED BY <2>1, <2>3, <2>4
<1>3. ~Serves
  BY DEF Serves
<1>4. CASE Market
  <2>1. Tick /\ UNCHANGED <<plan, run, position>>
    BY <1>4 DEF Market, Tick, Grow, rows
  <2>2. PICK c \in Candles : tape' = Append(tape, c)
    BY <2>1 DEF Tick
  <2>3. c \in Candle
    BY PaperAssumption
  <2> DEFINE m == run.mark
  <2>4. m \in 0..Len(tape) /\ m \in Nat
    BY <1>0
  <2>5. \A i \in 1..m : tape'[i] = tape[i]
    BY <1>0, <2>2, <2>3, <2>4
  <2>6. SubSeq(tape', 1, m) = SubSeq(tape, 1, m)
    BY <1>0, <2>2, <2>3, <2>4
  <2>7. EntrySeen(m) = EntrySeen(m)' /\ OneShot(Seen(m)) = OneShot(Seen(m))'
    BY <2>1, <2>6 DEF EntrySeen, Seen, OneShot
  <2>8. \A e : InMarket(e, m) /\ e.at \in Nat => InMarket(e, m)'
    <3>1. ASSUME NEW e, InMarket(e, m), e.at \in Nat PROVE StaysIn(e, m)'
      <4>1. \A i \in (e.at + 1)..m : i \in 1..m
        BY <2>4, <3>1
      <4> QED BY <2>1, <2>5, <3>1, <4>1 DEF StaysIn, InMarket
    <3> QED BY <2>1, <3>1 DEF InMarket
  <2>9. EntrySeen(m) # NoEntry => EntrySeen(m).at \in Nat
    <3>1. m \in 0..m
      BY <2>4
    <3>2. EntrySeen(m) # NoEntry => EntrySeen(m).at \in 1..m
      BY <1>0, <2>4, <3>1, EntryStays
    <3> QED BY <2>4, <3>2
  <2>10. InMarket(EntrySeen(m), m) => EntrySeen(m) # NoEntry
    BY DEF InMarket
  <2> QED BY <2>1, <2>7, <2>8, <2>9, <2>10 DEF Replays, ReplaysAt, Entered
<1>5. CASE UNCHANGED vars
  BY <1>5, ReplaysOn DEF vars, market, rows, Replays
<1> QED BY <1>1, <1>2, <1>3, <1>4, <1>5, NextCases

LEMMA InitReplays == ASSUME Init, Steady PROVE Replays
<1>1. Typed /\ run.mark = 0 /\ position = NoPosition /\ 0 \in 0..0 /\ 0 \in 0..Len(tape)
  BY DEF Init, Row, Steady, Typed
<1>2. EntrySeen(0) = NoEntry
  BY <1>1, EntryStays
<1>3. OneShot(Seen(0)) = NoPosition
  BY <1>2 DEF OneShot, EntrySeen
<1> QED BY <1>1, <1>3 DEF Replays, ReplaysAt

\* Refreshing in pieces decides what one refresh over the same candles would: as
\* long as the provider returns finished candles and no GET request repairs the rows,
\* the position of a plan without partial targets and forced close is, at every
\* watermark and when a stop, a target, the timeout or the expiry ended the run, the
\* one that a single pass over the candles up to the watermark gives.
THEOREM RefreshesAddUp ==
  ASSUME Forming = FALSE, Readers = {} PROVE Spec => []Deterministic
<1>1. Init /\ Steady => Replays
  BY InitReplays
<1>2. Steady /\ Projected /\ Replays /\ [Next]_vars => Replays'
  BY NextReplays
<1>3. Replays => Deterministic
  BY DEF Replays, ReplaysAt, Deterministic, Seen
<1> QED BY <1>1, <1>2, <1>3, SteadyInvariant, ProjectedInvariant, PTL DEF Spec

=============================================================================
