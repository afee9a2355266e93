------------------------ MODULE ProviderFallbackProofs ------------------------
(***************************************************************************)
(* Theorems about ProviderFallback, for any nodes, providers, threshold    *)
(* and outages: its type and every safety invariant the run checks.        *)
(***************************************************************************)
EXTENDS ProviderFallback, TLAPS

Circuit == [state : {"closed", "open", "half_open"}, failures : Nat]

\* The list of a node: it begins with a provider, goes on with fallbacks, and
\* its first provider is tried without a switch.
Listing ==
  \A n \in Nodes :
    /\ pc[n] = "new" => at[n] = 1
    /\ pc[n] = "list" => at[n] \in 1..Len(Fallbacks)
    /\ pc[n] \notin {"new", "done"} => Len(plan[n]) > 0
    /\ \A i \in DOMAIN plan[n] : i > 1 => plan[n][i] \in Range(Fallbacks)
    /\ pc[n] \in {"ensure", "switch", "deep", "quick"} => at[n] > 1
    /\ pc[n] # "call" => used[n] = {}
    /\ n \in missed => used[n] \cap down # {}

Shape == TypeOK /\ Listing

-----------------------------------------------------------------------------
(* Lemmas about circuits and lists *)

\* A circuit stays a circuit, whatever is recorded.
LEMMA CircuitType ==
  ASSUME TypeOK
  PROVE  /\ \A p \in Providers : LookedAt(p) \in Circuit
         /\ \A c \in Circuit : Succeeded(c) \in Circuit /\ Failed(c) \in Circuit
         /\ \A p \in Providers : circuit[p] \in Circuit
<1>1. \A p \in Providers : circuit[p] \in Circuit
  BY DEF TypeOK, Circuit
<1>2. \A p \in Providers : LookedAt(p) \in Circuit
  BY <1>1 DEF LookedAt, Circuit
<1>3. \A c \in Circuit : Succeeded(c) \in Circuit
  BY DEF Succeeded, Circuit
<1>4. \A c \in Circuit : Failed(c) \in Circuit
  <2> SUFFICES ASSUME NEW c \in Circuit PROVE Failed(c) \in Circuit
    OBVIOUS
  <2>1. CASE c.state = "half_open"
    BY <2>1 DEF Failed, Circuit
  <2>2. CASE c.state # "half_open"
    BY <2>2 DEF Failed, Circuit
  <2> QED BY <2>1, <2>2
<1> QED BY <1>1, <1>2, <1>3, <1>4

LEMMA ChangesType ==
  ASSUME TypeOK, NEW now \in [Providers -> Circuit], NEW failures,
         Changes(now, failures)
  PROVE  /\ circuit' \in [Providers -> Circuit] /\ cooled' \subseteq Providers
         /\ openings' \in [Providers -> Nat]
BY DEF Changes, TypeOK

LEMMA FallbacksType ==
  /\ DOMAIN Fallbacks = 1..Len(Fallbacks) /\ Len(Fallbacks) \in Nat
  /\ \A i \in 1..Len(Fallbacks) : Fallbacks[i] \in Range(Fallbacks)
  /\ Range(Fallbacks) \subseteq Providers /\ Primary \in Providers
  /\ Range(Fallbacks) = {} => Fallbacks = << >>
<1>1. Fallbacks \in Seq(Range(Fallbacks))
  BY FallbackAssumption
<1>2. /\ DOMAIN Fallbacks = 1..Len(Fallbacks) /\ Len(Fallbacks) \in Nat
      /\ \A i \in 1..Len(Fallbacks) : Fallbacks[i] \in Range(Fallbacks)
  BY <1>1
<1>3. Range(Fallbacks) = {} => Fallbacks = << >>
  BY <1>1, <1>2
<1> QED BY <1>2, <1>3 DEF Providers

\* The provider of the turn is one of the list.
LEMMA CurrentType ==
  ASSUME TypeOK, NEW n \in Nodes, at[n] <= Len(plan[n])
  PROVE  at[n] \in DOMAIN plan[n] /\ Current(n) \in Providers
BY DEF TypeOK, Current

LEMMA TurnType ==
  ASSUME TypeOK, NEW n \in Nodes,
         pc[n] \in {"ensure", "switch", "deep", "quick", "call"}
  PROVE  Current(n) \in Providers /\ circuit[Current(n)] \in Circuit
<1>1. at[n] \in DOMAIN plan[n] /\ plan[n] \in Seq(Providers)
  BY DEF TypeOK
<1>2. Current(n) \in Providers
  BY <1>1 DEF Current
<1> QED BY <1>2, CircuitType

-----------------------------------------------------------------------------
LEMMA ShapeInit == Init => Shape
<1> SUFFICES ASSUME Init PROVE Shape
  OBVIOUS
<1>1. Primary \in Providers
  BY DEF Providers
<1>2. down \subseteq Providers
  BY FallbackAssumption DEF Init
<1>3. << >> \in Seq(Providers)
  OBVIOUS
<1>4. TypeOK
  <2>1. circuit \in [Providers -> Circuit]
    BY DEF Init, Circuit
  <2>2. openings \in [Providers -> Nat] /\ lookedAt \in [Nodes -> Nat]
    BY DEF Init
  <2>3. plan \in [Nodes -> Seq(Providers)] /\ at \in [Nodes -> Nat \ {0}]
    BY <1>3 DEF Init
  <2> QED BY <1>1, <1>2, <2>1, <2>2, <2>3 DEF Init, TypeOK, Circuit
<1>5. Listing
  BY DEF Init, Listing
<1> QED BY <1>4, <1>5 DEF Shape

\* The steps that choose and try a provider.
LEMMA ShapeChooses ==
  ASSUME Shape, NEW n \in Nodes,
         Begin(n) \/ Lists(n) \/ Skips(n) \/ Tries(n) \/ Ensure(n)
  PROVE  Shape'
<1> USE DEF Shape
<1>1. CASE Begin(n)
  <2>1. <<active>> \in Seq(Providers) /\ Len(<<active>>) = 1
    BY DEF TypeOK
  <2>2. Len(Fallbacks) = 0 => Fallbacks = << >>
    BY FallbacksType
  <2>3. at[n] = 1
    BY <1>1 DEF Begin, Goes, Listing
  <2>4. pc'[n] = "list" => at[n] \in 1..Len(Fallbacks)
    BY <1>1, <2>2, <2>3, FallbacksType DEF Begin, Goes, TypeOK
  <2>5. TypeOK'
    BY <1>1, <2>1 DEF Begin, Goes, TypeOK, breaker, llms
  <2>6. Listing'
    BY <1>1, <2>1, <2>3, <2>4 DEF Begin, Goes, TypeOK, Listing
  <2> QED BY <2>5, <2>6
<1>2. CASE Lists(n)
  <2> DEFINE next == Fallbacks[at[n]]
  <2>1. at[n] \in 1..Len(Fallbacks) /\ next \in Range(Fallbacks) /\ next \in Providers
    BY <1>2, FallbacksType DEF Lists, Goes, Listing
  <2>2. /\ plan[n] \in Seq(Providers) /\ Len(plan[n]) > 0 /\ Len(plan[n]) \in Nat
        /\ DOMAIN plan[n] = 1..Len(plan[n])
    <3>1. plan[n] \in Seq(Providers)
      BY DEF TypeOK
    <3>2. Len(plan[n]) > 0
      BY <1>2 DEF Lists, Goes, Listing
    <3> QED BY <3>1, <3>2
  <2> HIDE DEF next
  <2>3. plan'[n] = plan[n] \/ plan'[n] = Append(plan[n], next)
    BY <1>2 DEF Lists, TypeOK, next
  <2>4. /\ plan'[n] \in Seq(Providers) /\ Len(plan'[n]) > 0
        /\ DOMAIN plan'[n] = 1..Len(plan'[n])
        /\ \A i \in DOMAIN plan'[n] : i > 1 => plan'[n][i] \in Range(Fallbacks)
    <3>1. CASE plan'[n] = plan[n]
      BY <2>2, <3>1 DEF Listing
    <3>2. CASE plan'[n] = Append(plan[n], next)
      <4>1. /\ Len(plan'[n]) = Len(plan[n]) + 1
            /\ DOMAIN plan'[n] = 1..(Len(plan[n]) + 1)
            /\ plan'[n] \in Seq(Providers)
            /\ \A i \in 1..Len(plan[n]) : plan'[n][i] = plan[n][i]
            /\ plan'[n][Len(plan[n]) + 1] = next
        BY <2>1, <2>2, <3>2
      <4>2. \A i \in 1..(Len(plan[n]) + 1) :
              i \in 1..Len(plan[n]) \/ i = Len(plan[n]) + 1
        BY <2>2
      <4>3. \A i \in 1..Len(plan[n]) : i > 1 => plan[n][i] \in Range(Fallbacks)
        BY <2>2 DEF Listing
      <4> QED BY <2>1, <2>2, <4>1, <4>2, <4>3
    <3> QED BY <2>3, <3>1, <3>2
  <2>5. /\ plan' \in [Nodes -> Seq(Providers)]
        /\ \A m \in Nodes \ {n} : plan'[m] = plan[m] /\ at'[m] = at[m] /\ pc'[m] = pc[m]
    BY <1>2, <2>4 DEF Lists, Goes, TypeOK
  <2>6. /\ at' \in [Nodes -> Nat \ {0}] /\ pc'[n] \in {"list", "look"}
        /\ pc'[n] = "list" => at'[n] \in 1..Len(Fallbacks)
    <3>1. at'[n] = IF at[n] = Len(Fallbacks) THEN 1 ELSE at[n] + 1
      BY <1>2 DEF Lists, TypeOK
    <3>2. pc'[n] = IF at[n] = Len(Fallbacks) THEN "look" ELSE "list"
      BY <1>2 DEF Lists, Goes, TypeOK
    <3>3. at[n] \in Nat /\ Len(Fallbacks) \in Nat
      BY FallbacksType DEF TypeOK
    <3>4. at'[n] \in Nat \ {0}
      BY <3>1, <3>3
    <3>5. at' \in [Nodes -> Nat \ {0}]
      BY <1>2, <3>1, <3>4 DEF Lists, TypeOK
    <3> QED BY <2>1, <3>1, <3>2, <3>3, <3>5
  <2>7. /\ pc' \in [Nodes -> {"new", "list", "look", "ensure", "switch", "deep",
                              "quick", "call", "done"}]
        /\ UNCHANGED <<breaker, llms, used, missed, failed, bound, outcome, down, disturbed,
                       rivals, excused, lookedAt>>
        /\ pc[n] = "list"
    BY <1>2 DEF Lists, Goes, TypeOK
  <2>8. TypeOK'
    BY <2>5, <2>6, <2>7 DEF TypeOK, breaker, llms
  <2>9. Listing'
    BY <2>4, <2>5, <2>6, <2>7 DEF Listing, TypeOK
  <2> QED BY <2>8, <2>9
<1>3. CASE Skips(n)
  <2>1. at[n] + 1 \in Nat \ {0}
    BY DEF TypeOK
  <2> QED BY <1>3, <2>1 DEF Skips, TypeOK, Listing, breaker, llms
<1>4. CASE Tries(n)
  <2>1. at[n] \in DOMAIN plan[n] /\ Current(n) \in Providers
    BY <1>4, CurrentType DEF Tries
  <2>2. circuit' \in [Providers -> Circuit] /\ cooled' \subseteq Providers
        /\ openings' \in [Providers -> Nat]
    <3>1. [circuit EXCEPT ![Current(n)] = LookedAt(Current(n))] \in [Providers -> Circuit]
      BY <2>1, CircuitType DEF TypeOK, Circuit
    <3> QED BY <1>4, <3>1, ChangesType DEF Tries
  <2>3. lookedAt' \in [Nodes -> Nat]
    BY <1>4, <2>1 DEF Tries, TypeOK
  <2>4. /\ pc[n] = "look" /\ pc' = [pc EXCEPT ![n] = IF at[n] = 1 THEN "call" ELSE "ensure"]
        /\ UNCHANGED <<llms, plan, at, used, missed, failed, bound, outcome, down, disturbed,
                       rivals, excused>>
    BY <1>4 DEF Tries, Goes
  <2>5. TypeOK'
    BY <2>1, <2>2, <2>3, <2>4 DEF TypeOK, llms, Circuit
  <2>6. Listing'
    BY <2>4 DEF Listing, TypeOK
  <2> QED BY <2>5, <2>6
<1>5. CASE Ensure(n)
  <2> DEFINE wanted == {p \in Range(Fallbacks) \ (cached \cup {active}) : ~IsOpen(p)}
             mapped == wanted \ Unmapped
             now(refused) == [p \in Providers |->
                      IF p \in refused THEN Failed(LookedAt(p))
                      ELSE IF p \in wanted THEN LookedAt(p) ELSE circuit[p]]
  <2>1. PICK refused \in SUBSET mapped :
          /\ cached' = cached \cup (mapped \ refused)
          /\ excused' = excused \cup refused
          /\ Changes(now(refused), refused)
    BY <1>5 DEF Ensure
  <2>2. mapped \subseteq Range(Fallbacks) /\ Range(Fallbacks) \subseteq Providers
    BY FallbacksType
  <2>3. circuit' \in [Providers -> Circuit] /\ cooled' \subseteq Providers
        /\ openings' \in [Providers -> Nat]
    <3>1. now(refused) \in [Providers -> Circuit]
      BY CircuitType
    <3> QED BY <2>1, <3>1, ChangesType
  <2> HIDE DEF mapped, now
  <2>4. /\ pc[n] = "ensure" /\ pc' = [pc EXCEPT ![n] = "switch"]
        /\ UNCHANGED <<active, deep, quick, plan, at, used, missed, failed, bound, outcome,
                       down, disturbed, rivals, lookedAt>>
    BY <1>5 DEF Ensure, Goes
  <2>5. TypeOK'
    BY <2>1, <2>2, <2>3, <2>4 DEF TypeOK, Circuit
  <2>6. Listing'
    BY <2>4 DEF Listing, TypeOK
  <2> QED BY <2>5, <2>6
<1> QED BY <1>1, <1>2, <1>3, <1>4, <1>5

\* The steps that switch to a provider and call it.
LEMMA ShapeCalls ==
  ASSUME Shape, NEW n \in Nodes,
         Switch(n) \/ CannotSwitch(n) \/ SetDeep(n) \/ SetQuick(n)
         \/ Asks(n) \/ Calls(n)
  PROVE  Shape'
<1> USE DEF Shape
<1>1. CASE Switch(n)
  <2>1. Current(n) \in Providers
    BY <1>1, FallbacksType DEF Switch, TypeOK
  <2> QED BY <1>1, <2>1 DEF Switch, Goes, TypeOK, Listing, breaker
<1>2. CASE CannotSwitch(n)
  <2>1. at[n] + 1 \in Nat \ {0}
    BY DEF TypeOK
  <2> QED BY <1>2, <2>1 DEF CannotSwitch, Goes, TypeOK, Listing, breaker, llms
<1>3. CASE SetDeep(n) \/ SetQuick(n)
  <2>1. Current(n) \in Providers
    <3>1. pc[n] \in {"deep", "quick"}
      BY <1>3 DEF SetDeep, SetQuick, Goes
    <3> QED BY <3>1 DEF TypeOK, Current
  <2> QED BY <1>3, <2>1 DEF SetDeep, SetQuick, Goes, Disturbs, TypeOK, Listing, breaker
<1>4. CASE Asks(n)
  BY <1>4 DEF Asks, TypeOK, Listing, breaker, llms
<1>5. CASE Calls(n)
  <2>1. deep \in Providers /\ quick \in Providers
    BY DEF TypeOK
  <2>2. TypeOK'
    BY <1>5, <2>1 DEF Calls, TypeOK, breaker, llms
  <2>3. Listing'
    BY <1>5 DEF Calls, TypeOK, Listing
  <2> QED BY <2>2, <2>3
<1> QED BY <1>1, <1>2, <1>3, <1>4, <1>5

\* What is recorded leaves circuits.
LEMMA RecordsType ==
  ASSUME Shape, NEW n \in Nodes, pc[n] = "call", NEW after \in Circuit,
         Records(n, after)
  PROVE  /\ circuit' \in [Providers -> Circuit] /\ cooled' \subseteq Providers
         /\ openings' \in [Providers -> Nat] /\ Current(n) \in Providers
<1>1. Current(n) \in Providers
  BY DEF Shape, TypeOK, Current
<1>2. [circuit EXCEPT ![Current(n)] = after] \in [Providers -> Circuit]
  BY <1>1 DEF Shape, TypeOK, Circuit
<1> QED BY <1>1, <1>2, ChangesType DEF Records, Shape

\* The steps that end an attempt, and the passing of a window.
LEMMA ShapeEnds ==
  ASSUME Shape, NEW n \in Nodes,
         Succeeds(n) \/ Fails(n) \/ Raises(n) \/ GivesUp(n)
  PROVE  Shape'
<1> USE DEF Shape
<1>1. CASE Succeeds(n) \/ Raises(n)
  <2>1. pc[n] = "call"
    BY <1>1 DEF Succeeds, Raises, Returns, Goes
  <2>2. PICK after \in Circuit : Records(n, after)
    <3>1. circuit[Current(n)] \in Circuit
      BY <2>1, TurnType
    <3> QED BY <1>1, <3>1, CircuitType DEF Succeeds, Raises
  <2>3. /\ circuit' \in [Providers -> Circuit] /\ cooled' \subseteq Providers
        /\ openings' \in [Providers -> Nat] /\ Current(n) \in Providers
    BY <2>1, <2>2, RecordsType
  <2>4. /\ pc' = [pc EXCEPT ![n] = "done"] /\ plan' = [plan EXCEPT ![n] = << >>]
        /\ at' = [at EXCEPT ![n] = 1] /\ used' = [used EXCEPT ![n] = {}]
        /\ missed' = missed \ {n} /\ bound' = [bound EXCEPT ![n] = "unasked"]
        /\ lookedAt' = [lookedAt EXCEPT ![n] = 0] /\ disturbed' = disturbed \ {n}
        /\ failed' = failed \ {n} /\ UNCHANGED <<llms, down, rivals>>
        /\ excused' \in {excused, excused \cup {Current(n)}}
        /\ outcome' \in [Nodes -> {"none", "result", "error", "nothing"}]
    BY <1>1 DEF Succeeds, Raises, Returns, Goes, Forgets, TypeOK
  <2>5. << >> \in Seq(Providers)
    OBVIOUS
  <2>6. /\ plan' \in [Nodes -> Seq(Providers)] /\ at' \in [Nodes -> Nat \ {0}]
        /\ \A m \in Nodes \ {n} : plan'[m] = plan[m] /\ at'[m] = at[m]
                                 /\ pc'[m] = pc[m]
        /\ pc'[n] = "done" /\ excused' \subseteq Providers
    BY <2>3, <2>4, <2>5 DEF TypeOK
  <2>7. TypeOK'
    BY <2>3, <2>4, <2>6 DEF TypeOK, llms, Circuit
  <2>8. Listing'
    BY <2>4, <2>5 DEF TypeOK, Listing
  <2> QED BY <2>7, <2>8
<1>2. CASE Fails(n)
  <2>1. pc[n] = "call"
    BY <1>2 DEF Fails, Goes
  <2>2. circuit[Current(n)] \in Circuit
    BY <2>1, TurnType
  <2>3. /\ circuit' \in [Providers -> Circuit] /\ cooled' \subseteq Providers
        /\ openings' \in [Providers -> Nat] /\ Current(n) \in Providers
    BY <1>2, <2>1, <2>2, RecordsType, CircuitType DEF Fails
  <2>4. /\ pc' = [pc EXCEPT ![n] = "look"] /\ at' = [at EXCEPT ![n] = @ + 1]
        /\ used' = [used EXCEPT ![n] = {}]
        /\ missed' = missed \ {n} /\ bound' = [bound EXCEPT ![n] = "unasked"]
        /\ lookedAt' = [lookedAt EXCEPT ![n] = 0] /\ disturbed' = disturbed \ {n}
        /\ failed' = failed \cup {n} /\ UNCHANGED <<llms, plan, outcome, down, rivals>>
        /\ excused' \in {excused, excused \cup {Current(n)}}
    BY <1>2 DEF Fails, Goes, Forgets
  <2>5. at[n] + 1 \in Nat \ {0}
    BY DEF TypeOK
  <2>6. TypeOK'
    BY <2>3, <2>4, <2>5 DEF TypeOK, llms, Circuit
  <2>7. Listing'
    BY <2>1, <2>4, <2>5 DEF TypeOK, Listing
  <2> QED BY <2>6, <2>7
<1>3. CASE GivesUp(n)
  BY <1>3 DEF GivesUp, Goes, TypeOK, Listing, breaker, llms
<1> QED BY <1>1, <1>2, <1>3

LEMMA ShapeOther ==
  ASSUME Shape, (\E p \in Providers : WindowPasses(p)) \/ UNCHANGED vars
  PROVE  Shape'
<1>1. CASE \E p \in Providers : WindowPasses(p)
  BY <1>1 DEF WindowPasses, Shape, TypeOK, Listing, llms
<1>2. CASE UNCHANGED vars
  BY <1>2 DEF vars, breaker, llms, Shape, TypeOK, Listing
<1> QED BY <1>1, <1>2

LEMMA ShapeNext == Shape /\ [Next]_vars => Shape'
BY ShapeChooses, ShapeCalls, ShapeEnds, ShapeOther DEF Next, Step

\* Type correctness.
THEOREM TypeCorrect == Spec => []TypeOK
<1>1. Shape => TypeOK
  BY DEF Shape
<1> QED BY ShapeInit, ShapeNext, <1>1, PTL DEF Spec

-----------------------------------------------------------------------------
(* What a step of one node leaves of the others *)

LEMMA OthersKeep ==
  ASSUME Shape, NEW n \in Nodes, NEW m \in Nodes \ {n}, Step(n)
  PROVE  /\ pc'[m] = pc[m] /\ plan'[m] = plan[m] /\ at'[m] = at[m]
         /\ used'[m] = used[m] /\ lookedAt'[m] = lookedAt[m]
         /\ outcome'[m] = outcome[m] /\ (m \in failed' <=> m \in failed)
         /\ Current(m)' = Current(m)
<1>1. CASE Begin(n) \/ Lists(n) \/ Skips(n) \/ Tries(n) \/ Ensure(n)
  BY <1>1 DEF Begin, Lists, Skips, Tries, Ensure, Goes, Shape, TypeOK, Current
<1>2. CASE Switch(n) \/ CannotSwitch(n) \/ SetDeep(n) \/ SetQuick(n)
           \/ Asks(n) \/ Calls(n)
  BY <1>2 DEF Switch, CannotSwitch, SetDeep, SetQuick, Asks, Calls, Goes, Shape,
              TypeOK, Current
<1>3. CASE Succeeds(n) \/ Raises(n)
  <2>1. /\ pc' = [pc EXCEPT ![n] = "done"] /\ plan' = [plan EXCEPT ![n] = << >>]
        /\ at' = [at EXCEPT ![n] = 1] /\ used' = [used EXCEPT ![n] = {}]
        /\ lookedAt' = [lookedAt EXCEPT ![n] = 0] /\ failed' = failed \ {n}
        /\ \E what : outcome' = [outcome EXCEPT ![n] = what]
    BY <1>3 DEF Succeeds, Raises, Returns, Goes, Forgets
  <2> QED BY <2>1 DEF Shape, TypeOK, Current
<1>4. CASE Fails(n) \/ GivesUp(n)
  BY <1>4 DEF Fails, GivesUp, Forgets, Goes, Shape, TypeOK, Current
<1> QED BY <1>1, <1>2, <1>3, <1>4 DEF Step

-----------------------------------------------------------------------------
(* The LLMs follow the active provider *)

\* The active provider, and those the switches under way set the LLMs to, are
\* among the last; an LLM that is not yet among them will be set.
Agree ==
  /\ active \in rivals
  /\ \A n \in Switching : Current(n) \in rivals
  /\ deep \in rivals \/ \E n \in Nodes : pc[n] = "deep"
  /\ quick \in rivals \/ Switching # {}

\* Only the steps of a switch touch what Agree speaks of.
LEMMA SwitchesAlone ==
  ASSUME Shape, NEW n \in Nodes, Step(n),
         ~Switch(n), ~SetDeep(n), ~SetQuick(n)
  PROVE  /\ UNCHANGED <<active, deep, quick, rivals>>
         /\ n \notin Switching /\ n \notin Switching'
<1>1. UNCHANGED <<active, deep, quick, rivals>>
  BY DEF Step, Begin, Lists, Skips, Tries, Ensure, CannotSwitch, Asks, Calls,
         Succeeds, Fails, Raises, GivesUp, llms
<1>2. n \notin Switching /\ n \notin Switching'
  <2>1. pc[n] \in {"new", "list", "look", "ensure", "switch", "call"}
        /\ pc'[n] \in {"list", "look", "ensure", "switch", "call", "done"}
    <3>1. CASE Begin(n) \/ Lists(n) \/ Tries(n) \/ Ensure(n) \/ CannotSwitch(n)
      BY <3>1 DEF Begin, Lists, Tries, Ensure, CannotSwitch, Goes, Shape, TypeOK
    <3>2. CASE Skips(n) \/ Asks(n) \/ Calls(n)
      BY <3>2 DEF Skips, Asks, Calls
    <3>3. CASE Succeeds(n) \/ Fails(n) \/ Raises(n) \/ GivesUp(n)
      BY <3>3 DEF Succeeds, Fails, Raises, GivesUp, Returns, Goes, Shape, TypeOK
    <3> QED BY <3>1, <3>2, <3>3 DEF Step
  <2> QED BY <2>1 DEF Switching
<1> QED BY <1>1, <1>2

LEMMA AgreeNext == ASSUME Shape, Agree, [Next]_vars PROVE Agree'
<1>1. ASSUME NEW n \in Nodes, Step(n) PROVE Agree'
  <2>0. \A m \in Nodes \ {n} : pc'[m] = pc[m] /\ Current(m)' = Current(m)
    BY <1>1, OthersKeep
  <2>1. CASE Switch(n)
    <3>1. /\ pc'[n] = "deep" /\ active' = Current(n) /\ Current(n)' = Current(n)
          /\ Current(n) \in rivals' /\ pc[n] = "switch"
          /\ Switching # {} => rivals \subseteq rivals'
      BY <2>1 DEF Switch, Goes, Shape, TypeOK, Current
    <3>2. \A m \in Switching' \ {n} : m \in Switching /\ m \in Nodes \ {n}
      BY <2>0 DEF Switching
    <3>3. \A m \in Switching' \ {n} : Current(m)' \in rivals'
      <4> SUFFICES ASSUME NEW m \in Switching' \ {n} PROVE Current(m)' \in rivals'
        OBVIOUS
      <4>1. Current(m) \in rivals /\ rivals \subseteq rivals'
        BY <3>1, <3>2 DEF Agree
      <4> QED BY <2>0, <3>2, <4>1
    <3>4. n \in Switching'
      BY <3>1 DEF Switching
    <3>5. \A m \in Switching' : Current(m)' \in rivals'
      BY <3>1, <3>3
    <3> QED BY <3>1, <3>4, <3>5 DEF Agree
  <2>2. CASE SetDeep(n)
    <3>1. /\ pc[n] = "deep" /\ pc'[n] = "quick" /\ deep' = Current(n)
          /\ Current(n)' = Current(n) /\ UNCHANGED <<active, quick, rivals>>
      BY <2>2 DEF SetDeep, Goes, Shape, TypeOK, Current
    <3>2. Switching' = Switching /\ n \in Switching /\ Switching \subseteq Nodes
      BY <2>0, <3>1 DEF Switching
    <3>3. \A m \in Switching' : Current(m)' \in rivals'
      <4> SUFFICES ASSUME NEW m \in Switching PROVE Current(m)' \in rivals
        BY <3>1, <3>2
      <4>1. Current(m) \in rivals
        BY DEF Agree
      <4> QED BY <2>0, <3>1, <3>2, <4>1
    <3>4. deep' \in rivals' /\ active' \in rivals'
      BY <3>1, <3>2 DEF Agree
    <3> QED BY <3>1, <3>2, <3>3, <3>4 DEF Agree
  <2>3. CASE SetQuick(n)
    <3>1. /\ pc[n] = "quick" /\ pc'[n] = "call" /\ quick' = Current(n)
          /\ UNCHANGED <<active, deep, rivals>>
      BY <2>3 DEF SetQuick, Goes, Shape, TypeOK
    <3>2. /\ n \in Switching /\ Switching' \subseteq Switching \ {n}
          /\ Switching \subseteq Nodes
      BY <2>0, <3>1 DEF Switching
    <3>3. \A m \in Switching' : Current(m)' \in rivals'
      <4> SUFFICES ASSUME NEW m \in Switching \ {n} PROVE Current(m)' \in rivals
        BY <3>1, <3>2
      <4>1. Current(m) \in rivals
        BY DEF Agree
      <4> QED BY <2>0, <3>2, <4>1
    <3>4. quick' \in rivals' /\ active' \in rivals'
      BY <3>1, <3>2 DEF Agree
    <3>5. deep' \in rivals' \/ \E m \in Nodes : pc'[m] = "deep"
      <4>1. CASE deep \in rivals
        BY <3>1, <4>1
      <4>2. CASE \E m \in Nodes : pc[m] = "deep"
        BY <2>0, <3>1, <4>2
      <4> QED BY <4>1, <4>2 DEF Agree
    <3> QED BY <3>3, <3>4, <3>5 DEF Agree
  <2>4. CASE ~Switch(n) /\ ~SetDeep(n) /\ ~SetQuick(n)
    <3>1. /\ UNCHANGED <<active, deep, quick, rivals>>
          /\ n \notin Switching /\ n \notin Switching'
      BY <1>1, <2>4, SwitchesAlone
    <3>2. Switching' = Switching
      BY <2>0, <3>1 DEF Switching
    <3> QED BY <2>0, <3>1, <3>2 DEF Agree, Switching
  <2> QED BY <2>1, <2>2, <2>3, <2>4
<1>2. ASSUME NEW p \in Providers, WindowPasses(p) PROVE Agree'
  BY <1>2 DEF WindowPasses, llms, Agree, Switching, Current
<1>3. CASE UNCHANGED vars
  BY <1>3 DEF vars, llms, Agree, Switching, Current
<1> QED BY <1>1, <1>2, <1>3 DEF Next

LEMMA AgreeInit == Init => Agree
BY DEF Init, Agree, Switching

\* When no switch is under way the LLMs are those of the last switches that
\* overlapped; of the last one, when none did.
THEOREM ActiveUsed == Spec => []ActiveIsUsed
<1>1. Agree => ActiveIsUsed
  BY DEF Agree, ActiveIsUsed, Switching
<1> QED BY ShapeInit, ShapeNext, AgreeInit, AgreeNext, <1>1, PTL DEF Spec

-----------------------------------------------------------------------------
(* A node that nobody disturbs works with the provider it believes in *)

Steady(n) ==
  n \notin disturbed =>
    /\ pc[n] = "list" \/ (pc[n] = "look" /\ at[n] = 1) =>
         deep = plan[n][1] /\ quick = plan[n][1]
    /\ pc[n] = "quick" => deep = Current(n)
    /\ pc[n] = "call" => /\ deep = Current(n) /\ quick = Current(n)
                         /\ used[n] \subseteq {Current(n)}

\* A step leaves the other nodes steady: a switch disturbs them.
LEMMA SteadyOthers ==
  ASSUME Shape, NEW n \in Nodes, NEW m \in Nodes \ {n}, Step(n), Steady(m)
  PROVE  Steady(m)'
<1>0. /\ pc'[m] = pc[m] /\ plan'[m] = plan[m] /\ at'[m] = at[m]
      /\ used'[m] = used[m] /\ Current(m)' = Current(m)
  BY OthersKeep
<1>1. CASE Switch(n) \/ SetDeep(n) \/ SetQuick(n)
  <2>1. pc[m] \in {"new", "done"} \/ m \in disturbed'
    BY <1>1 DEF Switch, SetDeep, SetQuick, Disturbs
  <2> QED BY <1>0, <2>1 DEF Steady
<1>2. CASE ~Switch(n) /\ ~SetDeep(n) /\ ~SetQuick(n)
  <2>1. UNCHANGED <<deep, quick>>
    BY <1>2, SwitchesAlone
  <2>2. m \in disturbed' <=> m \in disturbed
    BY <1>2 DEF Step, Begin, Lists, Skips, Tries, Ensure, CannotSwitch, Asks,
                Calls, Succeeds, Fails, Raises, GivesUp, Forgets
  <2> QED BY <1>0, <2>1, <2>2 DEF Steady
<1> QED BY <1>1, <1>2

\* And itself.
LEMMA SteadyItself ==
  ASSUME Shape, Agree, NEW n \in Nodes, Step(n), Steady(n)
  PROVE  Steady(n)'
<1>1. CASE Begin(n)
  <2>1. /\ pc'[n] \in {"list", "look"} /\ plan'[n] = <<active>>
        /\ UNCHANGED <<deep, quick>>
        /\ Switching # {} \/ rivals # {active} => n \in disturbed'
    BY <1>1 DEF Begin, Goes, Shape, TypeOK, llms
  <2>2. n \notin disturbed' => deep = active /\ quick = active
    BY <2>1 DEF Agree, Switching
  <2> QED BY <2>1, <2>2 DEF Steady
<1>2. CASE Lists(n)
  <2>1. /\ pc[n] = "list" /\ pc'[n] \in {"list", "look"}
        /\ UNCHANGED <<deep, quick, disturbed>>
        /\ plan'[n] = plan[n] \/ plan'[n] = Append(plan[n], Fallbacks[at[n]])
    BY <1>2 DEF Lists, Goes, Shape, TypeOK, llms
  <2>2. plan[n] \in Seq(Providers) /\ Len(plan[n]) > 0
    BY <2>1 DEF Shape, TypeOK, Listing
  <2>3. plan'[n][1] = plan[n][1]
    BY <2>1, <2>2
  <2> QED BY <2>1, <2>3 DEF Steady
<1>3. CASE Skips(n)
  BY <1>3 DEF Skips, Steady, Shape, TypeOK
<1>4. CASE Tries(n)
  <2>1. /\ pc[n] = "look" /\ pc'[n] = (IF at[n] = 1 THEN "call" ELSE "ensure")
        /\ UNCHANGED <<deep, quick, plan, at, used, disturbed>>
    BY <1>4 DEF Tries, Goes, Shape, TypeOK, llms
  <2>2. used[n] = {} /\ Current(n)' = Current(n)
    BY <2>1 DEF Shape, Listing, Current
  <2>3. at[n] = 1 => Current(n) = plan[n][1]
    BY DEF Current
  <2> QED BY <2>1, <2>2, <2>3 DEF Steady
<1>5. CASE Ensure(n) \/ Switch(n)
  <2>1. pc'[n] \in {"switch", "deep"}
    BY <1>5 DEF Ensure, Switch, Goes, Shape, TypeOK
  <2> QED BY <2>1 DEF Steady
<1>6. CASE CannotSwitch(n) \/ Fails(n)
  <2>1. pc'[n] = "look" /\ at'[n] = at[n] + 1 /\ at[n] \in Nat \ {0}
    BY <1>6 DEF CannotSwitch, Fails, Goes, Shape, TypeOK
  <2> QED BY <2>1 DEF Steady
<1>7. CASE SetDeep(n)
  BY <1>7 DEF SetDeep, Goes, Steady, Shape, TypeOK, Current
<1>8. CASE SetQuick(n)
  <2>1. /\ pc[n] = "quick" /\ pc'[n] = "call" /\ quick' = Current(n)
        /\ UNCHANGED <<deep, plan, at, used>> /\ Current(n)' = Current(n)
        /\ disturbed \subseteq disturbed'
    BY <1>8 DEF SetQuick, Goes, Disturbs, Shape, TypeOK, Current
  <2>2. used[n] = {}
    BY <2>1 DEF Shape, Listing
  <2> QED BY <2>1, <2>2 DEF Steady
<1>9. CASE Asks(n) \/ Calls(n)
  <2>1. /\ pc[n] = "call" /\ UNCHANGED <<pc, deep, quick, plan, at, disturbed>>
        /\ used'[n] \subseteq used[n] \cup {deep, quick}
    BY <1>9 DEF Asks, Calls, Shape, TypeOK, llms
  <2> QED BY <2>1 DEF Steady, Current
<1>10. CASE Succeeds(n) \/ Raises(n) \/ GivesUp(n)
  <2>1. pc'[n] = "done"
    BY <1>10 DEF Succeeds, Raises, GivesUp, Returns, Goes, Shape, TypeOK
  <2> QED BY <2>1 DEF Steady
<1> QED BY <1>1, <1>2, <1>3, <1>4, <1>5, <1>6, <1>7, <1>8, <1>9, <1>10 DEF Step

AllSteady == \A n \in Nodes : Steady(n)

LEMMA SteadyNext == ASSUME Shape, Agree, AllSteady, [Next]_vars PROVE AllSteady'
<1>1. ASSUME NEW n \in Nodes, Step(n) PROVE AllSteady'
  BY <1>1, SteadyOthers, SteadyItself DEF AllSteady
<1>2. CASE (\E p \in Providers : WindowPasses(p)) \/ UNCHANGED vars
  BY <1>2 DEF WindowPasses, vars, llms, AllSteady, Steady, Current
<1> QED BY <1>1, <1>2 DEF Next

LEMMA SteadyInit == Init => AllSteady
BY DEF Init, AllSteady, Steady

\* The free text a node gets is that of the provider it is charged to, unless
\* a switch of another node met its attempt.
THEOREM AttributedAlways == Spec => []Attributed
<1>1. AllSteady => Attributed
  BY DEF AllSteady, Steady, Attributed
<1> QED BY ShapeInit, ShapeNext, AgreeInit, AgreeNext, SteadyInit, SteadyNext,
           <1>1, PTL DEF Spec

\* A provider that answers has no failure on its circuit, unless one was
\* charged to it for another fault.
LEMMA FaultsNext ==
  ASSUME Shape, AllSteady, OnlyFaultsCount, [Next]_vars PROVE OnlyFaultsCount'
<1> DEFINE fresh == [state |-> "closed", failures |-> 0]
<1>1. ASSUME NEW n \in Nodes, Step(n) PROVE OnlyFaultsCount'
  <2> SUFFICES ASSUME NEW p \in Providers \ (down' \cup excused')
               PROVE  circuit'[p] = fresh
    BY DEF OnlyFaultsCount
  <2>1. CASE Ensure(n)
    <3>1. PICK refused :
            /\ excused' = excused \cup refused /\ down' = down
            /\ circuit'[p] \in {circuit[p], LookedAt(p)} \/ p \in refused
      BY <2>1 DEF Ensure, Changes
    <3>2. circuit[p] = fresh
      BY <3>1 DEF OnlyFaultsCount
    <3>3. LookedAt(p) = fresh
      BY <3>2 DEF LookedAt
    <3> QED BY <3>1, <3>2, <3>3
  <2>2. CASE Tries(n)
    <3>1. excused' = excused /\ down' = down
          /\ circuit'[p] \in {circuit[p], LookedAt(p)}
      BY <2>2 DEF Tries, Changes, Shape, TypeOK
    <3>2. circuit[p] = fresh
      BY <3>1 DEF OnlyFaultsCount
    <3>3. LookedAt(p) = fresh
      BY <3>2 DEF LookedAt
    <3> QED BY <3>1, <3>2, <3>3
  <2>3. CASE Succeeds(n)
    BY <2>3 DEF Succeeds, Records, Changes, Succeeded, OnlyFaultsCount, Shape, TypeOK
  <2>4. CASE Fails(n)
    <3>1. pc[n] = "call" /\ down' = down
      BY <2>4 DEF Fails, Goes
    <3>2. p # Current(n) => circuit'[p] = circuit[p]
      BY <2>4 DEF Fails, Records, Changes, Shape, TypeOK
    <3>3. excused \subseteq excused'
      BY <2>4 DEF Fails
    <3>4. CASE n \in disturbed
      <4>1. Current(n) \in excused'
        BY <2>4, <3>4 DEF Fails
      <4> QED BY <3>1, <3>2, <3>3, <4>1 DEF OnlyFaultsCount
    <3>5. CASE n \notin disturbed
      <4>1. used[n] \subseteq {Current(n)}
        BY <3>1, <3>5 DEF AllSteady, Steady
      <4>2. used[n] \cap down # {}
        BY <2>4 DEF Fails, Shape, Listing
      <4>3. Current(n) \in down
        BY <4>1, <4>2
      <4> QED BY <3>1, <3>2, <3>3, <4>3 DEF OnlyFaultsCount
    <3> QED BY <3>4, <3>5
  <2>5. CASE Raises(n)
    BY <2>5 DEF Raises, Records, Changes, OnlyFaultsCount, Shape, TypeOK
  <2>6. CASE ~(Ensure(n) \/ Tries(n) \/ Succeeds(n) \/ Fails(n) \/ Raises(n))
    <3>1. UNCHANGED <<circuit, down, excused>>
      BY <1>1, <2>6 DEF Step, Begin, Lists, Skips, Switch, CannotSwitch, SetDeep,
                        SetQuick, Asks, Calls, GivesUp, breaker
    <3> QED BY <3>1 DEF OnlyFaultsCount
  <2> QED BY <2>1, <2>2, <2>3, <2>4, <2>5, <2>6
<1>2. CASE (\E p \in Providers : WindowPasses(p)) \/ UNCHANGED vars
  BY <1>2 DEF WindowPasses, vars, breaker, OnlyFaultsCount
<1> QED BY <1>1, <1>2 DEF Next

\* A provider that answers every call has a clean circuit, unless its client
\* could not be made, an error of another kind was charged to it, or a switch
\* met the attempt.
THEOREM FaultsOnly == Spec => []OnlyFaultsCount
<1>1. Init => OnlyFaultsCount
  BY DEF Init, OnlyFaultsCount
<1> QED BY ShapeInit, ShapeNext, AgreeInit, AgreeNext, SteadyInit, SteadyNext,
           <1>1, FaultsNext, PTL DEF Spec

-----------------------------------------------------------------------------
(* Circuits that open *)

\* What a step records: openings are counted, and nothing kept is dropped.
LEMMA Breakers ==
  ASSUME Shape, NEW n \in Nodes, Step(n), NEW p \in Providers
  PROVE  /\ openings[p] \in Nat /\ openings'[p] \in Nat
         /\ openings'[p] >= openings[p]
         /\ circuit'[p].state = "open" =>
              circuit[p].state = "open" \/ openings'[p] > openings[p]
         /\ cached \subseteq cached' /\ excused \subseteq excused'
<1>1. openings[p] \in Nat
  BY DEF Shape, TypeOK
<1>2. ASSUME NEW now, NEW F, Changes(now, F)
      PROVE  /\ openings'[p] \in Nat /\ openings'[p] >= openings[p]
             /\ circuit'[p].state = "open" =>
                  circuit[p].state = "open" \/ openings'[p] > openings[p]
  BY <1>1, <1>2 DEF Changes
<1>3. CASE Tries(n)
  BY <1>1, <1>2, <1>3 DEF Tries, llms
<1>4. CASE Ensure(n)
  <2>1. PICK now, F : Changes(now, F)
    BY <1>4 DEF Ensure
  <2>2. cached \subseteq cached' /\ excused \subseteq excused'
    BY <1>4 DEF Ensure
  <2> QED BY <1>1, <1>2, <2>1, <2>2
<1>5. CASE Succeeds(n) \/ Fails(n) \/ Raises(n)
  <2>1. PICK now, F : Changes(now, F)
    BY <1>5 DEF Succeeds, Fails, Raises, Records
  <2>2. cached \subseteq cached' /\ excused \subseteq excused'
    BY <1>5 DEF Succeeds, Fails, Raises, llms
  <2> QED BY <1>1, <1>2, <2>1, <2>2
<1>6. CASE ~(Tries(n) \/ Ensure(n) \/ Succeeds(n) \/ Fails(n) \/ Raises(n))
  <2>1. UNCHANGED <<circuit, openings, cached, excused>>
    BY <1>6 DEF Step, Begin, Lists, Skips, Switch, CannotSwitch, SetDeep,
                SetQuick, Asks, Calls, GivesUp, breaker, llms
  <2> QED BY <1>1, <2>1
<1> QED BY <1>3, <1>4, <1>5, <1>6

\* An attempt whose circuit is open looked at it before it opened.
Shield(n) ==
  pc[n] \in {"ensure", "switch", "deep", "quick", "call"} =>
    /\ lookedAt[n] <= openings[Current(n)]
    /\ circuit[Current(n)].state = "open" => lookedAt[n] < openings[Current(n)]

LEMMA ShieldStep ==
  ASSUME Shape, NEW n \in Nodes, NEW m \in Nodes, Step(n), Shield(m)
  PROVE  Shield(m)'
<1> DEFINE under == {"ensure", "switch", "deep", "quick", "call"}
<1>1. CASE /\ pc[m] \in under /\ Current(m)' = Current(m)
           /\ lookedAt'[m] = lookedAt[m]
  <2>1. Current(m) \in Providers /\ lookedAt[m] \in Nat
    BY <1>1, TurnType DEF Shape, TypeOK
  <2>2. /\ openings[Current(m)] \in Nat /\ openings'[Current(m)] \in Nat
        /\ openings'[Current(m)] >= openings[Current(m)]
        /\ circuit'[Current(m)].state = "open" =>
             \/ circuit[Current(m)].state = "open"
             \/ openings'[Current(m)] > openings[Current(m)]
    BY <2>1, Breakers
  <2> QED BY <1>1, <2>1, <2>2 DEF Shield
<1>2. CASE pc'[m] \notin under
  BY <1>2 DEF Shield
<1>3. CASE m # n
  BY <1>1, <1>2, <1>3, OthersKeep
<1>4. CASE m = n /\ Tries(n)
  <2> DEFINE p == Current(n)
  <2>1. p \in Providers /\ Current(n)' = p
    BY <1>4, CurrentType DEF Tries, Shape, Current
  <2>2. ~IsOpen(p) /\ lookedAt'[n] = openings[p]
    BY <1>4 DEF Tries, Shape, TypeOK
  <2>3. circuit'[p] = LookedAt(p)
    BY <1>4, <2>1 DEF Tries, Changes, Shape, TypeOK
  <2>4. circuit'[p].state # "open"
    <3>1. CASE circuit[p].state = "open" /\ p \in cooled
      <4>1. LookedAt(p) = [circuit[p] EXCEPT !.state = "half_open"]
        BY <3>1 DEF LookedAt
      <4>2. circuit[p] \in Circuit
        BY <2>1, CircuitType DEF Shape
      <4> QED BY <2>3, <4>1, <4>2 DEF Circuit
    <3>2. CASE circuit[p].state # "open"
      BY <2>3, <3>2 DEF LookedAt
    <3> QED BY <2>2, <3>1, <3>2 DEF IsOpen
  <2>5. openings[p] \in Nat /\ openings'[p] \in Nat /\ openings'[p] >= openings[p]
    BY <2>1, Breakers
  <2> QED BY <1>4, <2>1, <2>2, <2>4, <2>5 DEF Shield
<1>5. CASE m = n /\ ~Tries(n)
  <2>1. CASE Begin(n) \/ Lists(n) \/ Skips(n)
    <3>1. pc'[n] \in {"list", "look"}
      BY <2>1 DEF Begin, Lists, Skips, Goes, Shape, TypeOK
    <3> QED BY <1>2, <1>5, <3>1
  <2>2. CASE CannotSwitch(n) \/ Succeeds(n) \/ Fails(n) \/ Raises(n) \/ GivesUp(n)
    <3>1. pc'[n] \in {"look", "done"}
      BY <2>2 DEF CannotSwitch, Succeeds, Fails, Raises, GivesUp, Returns, Goes,
                  Shape, TypeOK
    <3> QED BY <1>2, <1>5, <3>1
  <2>3. CASE Ensure(n) \/ Switch(n) \/ SetDeep(n) \/ SetQuick(n)
            \/ Asks(n) \/ Calls(n)
    <3>1. pc[n] \in under /\ Current(n)' = Current(n) /\ lookedAt'[n] = lookedAt[n]
      BY <2>3 DEF Ensure, Switch, SetDeep, SetQuick, Asks, Calls, Goes, Current
    <3> QED BY <1>1, <1>5, <3>1
  <2> QED BY <1>5, <2>1, <2>2, <2>3 DEF Step
<1> QED BY <1>3, <1>4, <1>5

AllShielded == \A n \in Nodes : Shield(n)

LEMMA ShieldNext == ASSUME Shape, AllShielded, [Next]_vars PROVE AllShielded'
<1>1. ASSUME NEW n \in Nodes, Step(n) PROVE AllShielded'
  BY <1>1, ShieldStep DEF AllShielded
<1>2. CASE (\E p \in Providers : WindowPasses(p)) \/ UNCHANGED vars
  BY <1>2 DEF WindowPasses, vars, breaker, AllShielded, Shield, Current
<1> QED BY <1>1, <1>2 DEF Next

\* While a circuit is open the only attempts under way looked before it opened.
THEOREM Shielded == Spec => []OpenShields
<1>1. Init => AllShielded
  BY DEF Init, AllShielded, Shield
<1>2. AllShielded => OpenShields
  BY DEF AllShielded, Shield, OpenShields, IsOpen
<1> QED BY ShapeInit, ShapeNext, <1>1, ShieldNext, <1>2, PTL DEF Spec

-----------------------------------------------------------------------------
(* A node that ends without having tried anything *)

Tripped(p) == openings[p] > 0 \/ p \in Unmapped \cup excused

\* An open circuit has opened, and the active provider has a client.
Opened ==
  /\ \A p \in Providers : circuit[p].state = "open" => openings[p] > 0
  /\ active \in {Primary} \cup cached

\* What a node without an error has passed over had tripped.
Passed(n) ==
  /\ n \notin failed /\ pc[n] \notin {"new", "list", "done"} =>
       \A i \in DOMAIN plan[n] : i < at[n] => Tripped(plan[n][i])
  /\ pc[n] = "switch" => Current(n) \in cached \/ Tripped(Current(n))
  /\ outcome[n] # "none" => pc[n] = "done"
  /\ outcome[n] = "nothing" => \A i \in DOMAIN plan[n] : Tripped(plan[n][i])

\* What has tripped stays so.
LEMMA TrippedStays ==
  ASSUME Shape, NEW n \in Nodes, Step(n), NEW p \in Providers, Tripped(p)
  PROVE  openings'[p] > 0 \/ p \in Unmapped \cup excused'
<1>1. openings[p] > 0 => openings'[p] > 0
  BY Breakers
<1>2. excused \subseteq excused'
  BY Breakers
<1> QED BY <1>1, <1>2 DEF Tripped

LEMMA OpenedStep == ASSUME Shape, Opened, NEW n \in Nodes, Step(n) PROVE Opened'
<1>1. \A p \in Providers : circuit'[p].state = "open" => openings'[p] > 0
  <2> SUFFICES ASSUME NEW p \in Providers, circuit'[p].state = "open"
               PROVE  openings'[p] > 0
    OBVIOUS
  <2> QED BY Breakers DEF Opened
<1>2. active' \in {Primary} \cup cached'
  <2>1. CASE Switch(n)
    BY <2>1 DEF Switch
  <2>2. CASE ~Switch(n)
    <3>1. active' = active
      BY <2>2 DEF Step, Begin, Lists, Skips, Tries, Ensure, CannotSwitch, SetDeep,
                  SetQuick, Asks, Calls, Succeeds, Fails, Raises, GivesUp, llms
    <3>2. cached \subseteq cached'
      BY FallbacksType, Breakers
    <3> QED BY <3>1, <3>2 DEF Opened
  <2> QED BY <2>1, <2>2
<1> QED BY <1>1, <1>2 DEF Opened

\* ensure_fallback_llms makes a client of the provider of the turn, unless its
\* circuit has opened or the client cannot be made.
LEMMA EnsureTrips ==
  ASSUME Shape, Opened, NEW n \in Nodes, Ensure(n)
  PROVE  Current(n) \in cached' \/ Tripped(Current(n))'
<1> DEFINE p == Current(n)
           wanted == {q \in Range(Fallbacks) \ (cached \cup {active}) : ~IsOpen(q)}
<1>1. PICK refused \in SUBSET (wanted \ Unmapped) :
        /\ cached' = cached \cup ((wanted \ Unmapped) \ refused)
        /\ excused' = excused \cup refused
  BY DEF Ensure
<1>2. pc[n] = "ensure" /\ Current(n)' = p
  BY DEF Ensure, Goes, Current
<1>3. p \in Range(Fallbacks) /\ p \in Providers
  <2>1. at[n] \in DOMAIN plan[n] /\ at[n] > 1
    BY <1>2 DEF Shape, TypeOK, Listing
  <2> QED BY <2>1, FallbacksType DEF Shape, Listing, Current
<1>4. Step(n)
  BY DEF Step
<1>5. CASE p \in cached
  BY <1>1, <1>5
<1>6. CASE p = active
  BY <1>1, <1>3, <1>6, FallbackAssumption DEF Opened
<1>7. CASE IsOpen(p)
  <2>1. Tripped(p)
    BY <1>3, <1>7 DEF IsOpen, Opened, Tripped
  <2>2. openings'[p] > 0 \/ p \in Unmapped \cup excused'
    BY <1>3, <1>4, <2>1, TrippedStays
  <2> QED BY <1>2, <2>2 DEF Tripped
<1>8. CASE p \in wanted
  <2> HIDE DEF p
  <2>1. CASE p \in Unmapped \cup refused
    <3>1. p \in Unmapped \cup excused'
      BY <1>1, <2>1
    <3> QED BY <1>2, <3>1 DEF Tripped, p
  <2>2. CASE p \notin Unmapped \cup refused
    BY <1>1, <1>8, <2>2 DEF p
  <2> QED BY <2>1, <2>2
<1> QED BY <1>3, <1>5, <1>6, <1>7, <1>8

LEMMA PassedOthers ==
  ASSUME Shape, NEW n \in Nodes, NEW m \in Nodes \ {n}, Step(n), Passed(m)
  PROVE  Passed(m)'
<1>1. /\ pc'[m] = pc[m] /\ plan'[m] = plan[m] /\ at'[m] = at[m]
      /\ outcome'[m] = outcome[m] /\ (m \in failed' <=> m \in failed)
      /\ Current(m)' = Current(m)
  BY OthersKeep
<1>2. \A i \in DOMAIN plan[m] : plan[m][i] \in Providers
  <2>1. plan[m] \in Seq(Providers)
    BY DEF Shape, TypeOK
  <2> QED BY <2>1
<1>3. \A i \in DOMAIN plan[m] : Tripped(plan[m][i]) => Tripped(plan[m][i])'
  <2> SUFFICES ASSUME NEW i \in DOMAIN plan[m], Tripped(plan[m][i])
               PROVE  openings'[plan[m][i]] > 0
                      \/ plan[m][i] \in Unmapped \cup excused'
    BY <1>1 DEF Tripped
  <2>1. plan[m][i] \in Providers
    BY <1>2
  <2> QED BY <2>1, TrippedStays
<1>4. pc[m] = "switch" => (Tripped(Current(m)) => Tripped(Current(m))')
                          /\ cached \subseteq cached'
  <2> SUFFICES ASSUME pc[m] = "switch"
               PROVE  (Tripped(Current(m)) => Tripped(Current(m))')
                      /\ cached \subseteq cached'
    OBVIOUS
  <2>1. at[m] \in DOMAIN plan[m] /\ Current(m) = plan[m][at[m]]
    BY DEF Shape, TypeOK, Current
  <2>2. Current(m) \in Providers
    BY <1>2, <2>1
  <2>3. Tripped(Current(m)) => Tripped(Current(m))'
    BY <1>1, <1>3, <2>1 DEF Current
  <2> QED BY <2>2, <2>3, Breakers
<1> QED BY <1>1, <1>3, <1>4 DEF Passed

LEMMA PassedItself ==
  ASSUME Shape, Opened, NEW n \in Nodes, Step(n), Passed(n)
  PROVE  Passed(n)'
<1> DEFINE before(k) == \A i \in DOMAIN plan[n] : i < k => Tripped(plan[n][i])
<1>0. /\ plan[n] \in Seq(Providers) /\ DOMAIN plan[n] = 1..Len(plan[n])
      /\ Len(plan[n]) \in Nat /\ at[n] \in Nat \ {0}
      /\ \A i \in DOMAIN plan[n] : plan[n][i] \in Providers
  <2>1. plan[n] \in Seq(Providers) /\ at[n] \in Nat \ {0}
    BY DEF Shape, TypeOK
  <2> QED BY <2>1
\* What has tripped stays so, in the list of the node.
<1>1. \A i \in DOMAIN plan[n] : Tripped(plan[n][i]) =>
        openings'[plan[n][i]] > 0 \/ plan[n][i] \in Unmapped \cup excused'
  BY <1>0, TrippedStays
\* The node moves on, and the rest of what Passed says follows.
<1>2. ASSUME plan'[n] = plan[n], outcome'[n] = outcome[n], n \in failed => n \in failed',
             pc[n] \notin {"new", "list", "done"},
             pc'[n] \notin {"switch", "done"},
             \/ at'[n] = at[n]
             \/ at'[n] = at[n] + 1
                /\ (n \notin failed' => at[n] \in DOMAIN plan[n] /\ Tripped(plan[n][at[n]]))
      PROVE  Passed(n)'
  <2>1. n \notin failed' => \A i \in DOMAIN plan[n] : i < at'[n] => Tripped(plan[n][i])
    <3> SUFFICES ASSUME n \notin failed', NEW i \in DOMAIN plan[n], i < at'[n]
                 PROVE  Tripped(plan[n][i])
      OBVIOUS
    <3>1. i \in Nat
      BY <1>0
    <3>2. i < at[n] \/ i = at[n]
      BY <1>0, <1>2, <3>1
    <3>3. CASE i < at[n]
      BY <1>2, <3>3 DEF Passed
    <3>4. CASE i = at[n] /\ ~(i < at[n])
      BY <1>0, <1>2, <3>4
    <3> QED BY <3>2, <3>3, <3>4
  <2>2. outcome'[n] = "none"
    BY <1>2 DEF Passed, Shape, TypeOK
  <2>3. n \notin failed' =>
          \A i \in DOMAIN plan'[n] : i < at'[n] => Tripped(plan[n][i])'
    BY <1>1, <1>2, <2>1 DEF Tripped
  <2> QED BY <1>2, <2>2, <2>3 DEF Passed
<1>3. CASE Begin(n)
  <2>1. /\ pc[n] = "new" /\ at'[n] = at[n] /\ outcome'[n] = outcome[n]
        /\ pc'[n] \in {"list", "look"}
    BY <1>3 DEF Begin, Goes, Shape, TypeOK
  <2>2. at'[n] = 1 /\ outcome'[n] = "none"
    BY <2>1 DEF Shape, Listing, Passed
  <2>3. plan'[n] \in Seq(Providers)
    BY ShapeChooses, <1>3 DEF Shape, TypeOK
  <2>4. \A i \in DOMAIN plan'[n] : ~(i < 1)
    BY <2>3
  <2> QED BY <2>1, <2>2, <2>4 DEF Passed
<1>4. CASE Lists(n)
  <2>1. /\ pc[n] = "list" /\ outcome'[n] = outcome[n]
        /\ pc'[n] = "list" \/ (pc'[n] = "look" /\ at'[n] = 1)
    BY <1>4 DEF Lists, Goes, Shape, TypeOK
  <2>2. outcome'[n] = "none"
    BY <2>1 DEF Passed
  <2>3. plan'[n] \in Seq(Providers)
    BY ShapeChooses, <1>4 DEF Shape, TypeOK
  <2>4. \A i \in DOMAIN plan'[n] : ~(i < 1)
    BY <2>3
  <2> QED BY <2>1, <2>2, <2>4 DEF Passed
<1>5. CASE Skips(n)
  <2>1. /\ pc[n] = "look" /\ at[n] <= Len(plan[n]) /\ IsOpen(Current(n))
        /\ UNCHANGED <<pc, plan, outcome, failed>> /\ at'[n] = at[n] + 1
    BY <1>5 DEF Skips, Shape, TypeOK
  <2>2. at[n] \in DOMAIN plan[n] /\ plan[n][at[n]] \in Providers
    BY <1>0, <2>1
  <2>3. Tripped(plan[n][at[n]])
    BY <2>1, <2>2 DEF IsOpen, Opened, Tripped, Current
  <2> QED BY <1>2, <2>1, <2>2, <2>3
<1>6. CASE Tries(n) \/ SetDeep(n) \/ SetQuick(n) \/ Switch(n) \/ Asks(n) \/ Calls(n)
  <2>1. /\ pc[n] \in {"look", "deep", "quick", "switch", "call"}
        /\ pc'[n] \in {"call", "ensure", "quick", "deep"}
        /\ UNCHANGED <<plan, outcome, failed, at>>
    BY <1>6 DEF Tries, SetDeep, SetQuick, Switch, Asks, Calls, Goes, Shape, TypeOK
  <2> QED BY <1>2, <2>1
<1>7. CASE Ensure(n)
  <2>1. /\ pc[n] = "ensure" /\ pc'[n] = "switch"
        /\ UNCHANGED <<plan, outcome, failed, at>>
    BY <1>7 DEF Ensure, Goes, Shape, TypeOK
  <2>2. Current(n)' \in cached' \/ Tripped(Current(n))'
    <3>1. Current(n) \in cached' \/ Tripped(Current(n))'
      BY <1>7, EnsureTrips
    <3>2. Current(n)' = Current(n)
      BY <2>1 DEF Current
    <3> QED BY <3>1, <3>2
  <2>3. n \notin failed =>
          \A i \in DOMAIN plan'[n] : i < at'[n] => Tripped(plan[n][i])'
    BY <1>1, <2>1 DEF Passed, Tripped
  <2>4. outcome'[n] = "none"
    BY <2>1 DEF Passed
  <2> QED BY <2>1, <2>2, <2>3, <2>4 DEF Passed
<1>8. CASE CannotSwitch(n)
  <2>1. /\ pc[n] = "switch" /\ pc'[n] = "look" /\ Current(n) \notin cached
        /\ UNCHANGED <<plan, outcome, failed>> /\ at'[n] = at[n] + 1
    BY <1>8 DEF CannotSwitch, Goes, Shape, TypeOK
  <2>2. at[n] \in DOMAIN plan[n]
    BY <2>1 DEF Shape, TypeOK
  <2>3. Tripped(plan[n][at[n]])
    BY <2>1 DEF Passed, Current
  <2> QED BY <1>2, <2>1, <2>2, <2>3
<1>9. CASE Fails(n)
  <2>1. /\ pc[n] = "call" /\ pc'[n] = "look" /\ n \in failed'
        /\ UNCHANGED <<plan, outcome>> /\ at'[n] = at[n] + 1
    BY <1>9 DEF Fails, Goes, Shape, TypeOK
  <2> QED BY <1>2, <2>1
<1>10. CASE Succeeds(n) \/ Raises(n)
  <2>1. pc'[n] = "done" /\ outcome'[n] \in {"result", "error"}
    BY <1>10 DEF Succeeds, Raises, Returns, Goes, Shape, TypeOK
  <2> QED BY <2>1 DEF Passed
<1>11. CASE GivesUp(n)
  <2>1. /\ pc[n] = "look" /\ pc'[n] = "done" /\ plan'[n] = plan[n]
        /\ at[n] > Len(plan[n])
        /\ outcome'[n] = "nothing" => n \notin failed
        /\ \A p \in Providers : openings'[p] = openings[p]
        /\ excused' = excused
    BY <1>11 DEF GivesUp, Goes, Shape, TypeOK, breaker
  <2>2. n \notin failed => \A i \in DOMAIN plan[n] : Tripped(plan[n][i])
    BY <1>0, <2>1 DEF Passed
  <2>3. n \notin failed => \A i \in DOMAIN plan'[n] : Tripped(plan[n][i])'
    BY <1>1, <2>1, <2>2 DEF Tripped
  <2> QED BY <2>1, <2>3 DEF Passed
<1> QED BY <1>3, <1>4, <1>5, <1>6, <1>7, <1>8, <1>9, <1>10, <1>11 DEF Step

AllPassed == Opened /\ \A n \in Nodes : Passed(n)

LEMMA PassedNext == ASSUME Shape, AllPassed, [Next]_vars PROVE AllPassed'
<1>1. ASSUME NEW n \in Nodes, Step(n) PROVE AllPassed'
  BY <1>1, OpenedStep, PassedOthers, PassedItself DEF AllPassed
<1>2. CASE (\E p \in Providers : WindowPasses(p)) \/ UNCHANGED vars
  BY <1>2 DEF WindowPasses, vars, breaker, llms, AllPassed, Opened, Passed,
              Tripped, Current
<1> QED BY <1>1, <1>2 DEF Next

\* raise None is reached only when all circuits of the list have opened or the
\* clients cannot be made.
THEOREM NothingTried == Spec => []NothingTriedMeansTripped
<1>1. Init => AllPassed
  BY DEF Init, AllPassed, Opened, Passed
<1>2. AllPassed => NothingTriedMeansTripped
  BY DEF AllPassed, Passed, Tripped, NothingTriedMeansTripped, Range
<1> QED BY ShapeInit, ShapeNext, <1>1, PassedNext, <1>2, PTL DEF Spec
=============================================================================
