-------------------------- MODULE ProviderPoolProofs --------------------------
(***************************************************************************)
(* Theorems about ProviderPool, for any calls, chain, retries and          *)
(* configurations: its type, the conservation of the permits, that nothing *)
(* that was submitted waits for a thread, and what the answer of a call    *)
(* says of what was tried.                                                 *)
(***************************************************************************)
EXTENDS ProviderPool, FiniteSetTheorems, TLAPS

\* The attempt of a call is behind it, or is the one it is at.
Behind(a) == \/ a[2] < turn[a[1]]
             \/ a[2] = turn[a[1]] /\ a[3] < try[a[1]]
Present(a) == a = Mine(a[1])

\* Where an attempt is known: not before it was submitted, queued or heard of
\* only while its call waits for it.
Futures ==
  /\ \A a \in Attempts : future[a] \in Alive <=> home[a] # None
  /\ \A a \in Attempts : future[a] # "none" =>
       Behind(a) \/ (Present(a) /\ pc[a[1]] \in {"wait", "done"})
  /\ \A a \in Attempts : future[a] = "queued" =>
       Present(a) /\ pc[a[1]] = "wait" /\ home[a] = current
  /\ \A a \in Attempts : future[a] = "running" /\ a \notin failed =>
       Present(a) /\ pc[a[1]] = "wait"
  /\ \A c \in Calls : pc[c] = "wait" /\ result[c] # "none" =>
       future[Mine(c)] \notin {"queued", "running"}
  /\ \A c \in Calls : pc[c] \notin {"wait", "done"} => result[c] = "none"

\* A pool was made by an attempt that is past the step that makes pools.
Old(p) == Behind(p) \/ (Present(p) /\ pc[p[1]] \in {"permit", "submit", "wait", "done"})
Used(p) == \/ p = current \/ (\E c \in Calls : pool[c] = p)
           \/ \E a \in Attempts : home[a] = p
PoolsAreOld == \A p \in Attempts : Used(p) => Old(p)

Few == \A p \in Attempts : IsFiniteSet(InFlight(p))

Inv == TypeOK /\ Futures /\ PoolsAreOld /\ Few /\ PermitsAreKept

-----------------------------------------------------------------------------
(* Lemmas about attempts *)

LEMMA AttemptType ==
  /\ \A a \in Attempts : /\ a[1] \in Calls /\ a[2] \in 1..Len(Chain)
                         /\ a[3] \in 1..(Retries + 1)
                         /\ a = <<a[1], a[2], a[3]>>
  /\ Len(Chain) \in Nat /\ Retries \in Nat
<1>1. Len(Chain) \in Nat /\ Retries \in Nat
  BY ProviderPoolAssumption
<1> QED BY <1>1 DEF Attempts

LEMMA NoneIsNoAttempt == None \notin Attempts
BY DEF None, Attempts

\* The attempt a call is at.
LEMMA MineType ==
  ASSUME TypeOK, NEW c \in Calls, turn[c] <= Len(Chain)
  PROVE  Mine(c) \in Attempts /\ Mine(c)[1] = c /\ Mine(c)[2] = turn[c]
         /\ Mine(c)[3] = try[c]
<1>1. turn[c] \in 1..Len(Chain) /\ try[c] \in 1..(Retries + 1)
  BY AttemptType DEF TypeOK
<1> QED BY <1>1 DEF Mine, Attempts

LEMMA SizeType == ASSUME TypeOK, NEW p \in Attempts PROVE Size(p) \in Nat \ {0}
BY AttemptType, ProviderPoolAssumption DEF TypeOK, Size

LEMMA InvInit == Init => Inv
<1> SUFFICES ASSUME Init PROVE Inv
  OBVIOUS
<1>1. \A p \in Attempts : InFlight(p) = {}
  BY NoneIsNoAttempt DEF Init, InFlight
<1>2. TypeOK
  BY NoneIsNoAttempt, AttemptType DEF Init, TypeOK, Alive
<1>3. Futures
  BY DEF Init, Futures, Alive
<1>4. PoolsAreOld
  BY NoneIsNoAttempt DEF Init, PoolsAreOld, Used
<1>5. Few
  BY <1>1, FS_EmptySet DEF Few
<1>6. PermitsAreKept
  BY <1>1, NoneIsNoAttempt DEF Init, PermitsAreKept
<1> QED BY <1>2, <1>3, <1>4, <1>5, <1>6 DEF Inv

-----------------------------------------------------------------------------
(* Steps of a call, by what they do to its place in the chain *)

\* What a step leaves alone.
Others(c) == /\ pc' \in [Calls -> {"new", "vendor", "pool", "permit", "submit", "wait", "done"}]
             /\ \A d \in Calls \ {c} :
                  /\ pc'[d] = pc[d] /\ turn'[d] = turn[d] /\ try'[d] = try[d]
                  /\ pool'[d] = pool[d]

\* The call stays at its attempt.
Stays(c) == Others(c) /\ turn'[c] = turn[c] /\ try'[c] = try[c]

\* The call leaves its attempt, if it has one, behind.
Leaves(c) == /\ Others(c)
             /\ \/ turn'[c] = turn[c] /\ try'[c] = try[c] + 1
                \/ turn'[c] = turn[c] + 1

LEMMA StaysThere ==
  ASSUME TypeOK, NEW c \in Calls, Stays(c)
  PROVE  /\ \A d \in Calls : Mine(d)' = Mine(d)
         /\ \A a \in Attempts : (Behind(a)' <=> Behind(a)) /\ (Present(a)' <=> Present(a))
<1>1. \A d \in Calls : turn'[d] = turn[d] /\ try'[d] = try[d]
  BY DEF Stays, Others
<1> QED BY <1>1, AttemptType DEF Mine, Behind, Present

LEMMA LeavesBehind ==
  ASSUME TypeOK, NEW c \in Calls, Leaves(c)
  PROVE  /\ \A d \in Calls \ {c} : Mine(d)' = Mine(d)
         /\ \A a \in Attempts : Behind(a) => Behind(a)'
         /\ \A a \in Attempts : Present(a) /\ a[1] = c => Behind(a)'
         /\ \A a \in Attempts : Present(a) /\ a[1] # c => Present(a)'
<1>1. /\ turn[c] \in Nat /\ try[c] \in Nat
      /\ \A d \in Calls : turn[d] \in Nat /\ try[d] \in Nat
  BY AttemptType DEF TypeOK
<1>2. \A d \in Calls \ {c} : Mine(d)' = Mine(d)
  BY DEF Leaves, Others, Mine
<1>3. \A a \in Attempts : a[1] # c => (Behind(a)' <=> Behind(a))
  BY AttemptType DEF Leaves, Others, Behind
<1>4. \A a \in Attempts : a[1] = c /\ (Behind(a) \/ Present(a)) => Behind(a)'
  <2> SUFFICES ASSUME NEW a \in Attempts, a[1] = c, Behind(a) \/ Present(a)
               PROVE  Behind(a)'
    OBVIOUS
  <2>1. a[2] \in Nat /\ a[3] \in Nat
    BY AttemptType
  <2>2. a[2] < turn[c] \/ (a[2] = turn[c] /\ a[3] <= try[c])
    BY <1>1, <2>1 DEF Behind, Present, Mine
  <2> QED BY <1>1, <2>1, <2>2 DEF Leaves, Behind
<1>5. \A a \in Attempts : Present(a) /\ a[1] # c => Present(a)'
  BY <1>2, AttemptType DEF Present
<1> QED BY <1>2, <1>3, <1>4, <1>5

LEMMA GivesUpLeaves ==
  ASSUME TypeOK, NEW c \in Calls, pc[c] \in {"permit", "wait"}, GivesUp(c)
  PROVE  /\ Leaves(c) /\ pc'[c] \in {"pool", "vendor"} /\ pool'[c] = None
         /\ result' = [result EXCEPT ![c] = "none"]
         /\ failed' = failed \cup {Mine(c)} /\ Mine(c) \in Attempts
         /\ config' = config /\ answer' = answer
         /\ turn' \in [Calls -> 1..(Len(Chain) + 1)] /\ try' \in [Calls -> 1..(Retries + 1)]
         /\ pool' \in [Calls -> Attempts \cup {None}]
         /\ pc'[c] = "pool" => turn'[c] <= Len(Chain)
<1>0. Len(Chain) \in Nat /\ Retries \in Nat
  BY AttemptType
<1>1. turn[c] \in Nat /\ turn[c] >= 1 /\ turn[c] <= Len(Chain)
  <2>1. turn[c] \in 1..(Len(Chain) + 1)
    BY DEF TypeOK
  <2>2. pc[c] \notin {"new", "vendor", "done"}
    OBVIOUS
  <2>3. turn[c] <= Len(Chain)
    BY <2>2 DEF TypeOK
  <2> QED BY <1>0, <2>1, <2>3
<1>2. Mine(c) \in Attempts
  BY <1>1, MineType
<1>t. try[c] \in 1..(Retries + 1)
  BY DEF TypeOK
<1>3. CASE try[c] <= Retries /\ UNCHANGED <<config, turn, answer>> /\ pc' = [pc EXCEPT ![c] = "pool"]
           /\ try' = [try EXCEPT ![c] = @ + 1]
  <2>1. try' \in [Calls -> 1..(Retries + 1)]
    BY <1>0, <1>t, <1>3 DEF TypeOK
  <2>2. Leaves(c)
    BY <1>3 DEF GivesUp, TypeOK, Leaves, Others
  <2> QED BY <1>1, <1>2, <1>3, <2>1, <2>2 DEF GivesUp, TypeOK
<1>4. CASE try[c] > Retries /\ NextVendor(c)
  <2>1. turn' \in [Calls -> 1..(Len(Chain) + 1)] /\ try' \in [Calls -> 1..(Retries + 1)]
    BY <1>0, <1>1, <1>4 DEF NextVendor, TypeOK
  <2>2. Leaves(c)
    BY <1>4 DEF GivesUp, NextVendor, TypeOK, Leaves, Others
  <2> QED BY <1>1, <1>2, <1>4, <2>1, <2>2 DEF GivesUp, NextVendor, TypeOK
<1> QED BY <1>3, <1>4 DEF GivesUp

-----------------------------------------------------------------------------
(* The permits *)

LEMMA Countable ==
  ASSUME TypeOK, Few, NEW p \in Attempts
  PROVE  /\ IsFiniteSet(Holders(p)) /\ Cardinality(Holders(p)) \in Nat
         /\ IsFiniteSet(InFlight(p)) /\ Cardinality(InFlight(p)) \in Nat
         /\ permits[p] \in Nat /\ Size(p) \in Nat \ {0}
<1>1. Holders(p) \subseteq Calls /\ IsFiniteSet(Calls)
  BY ProviderPoolAssumption DEF Holders
<1>2. IsFiniteSet(Holders(p))
  BY <1>1, FS_Subset
<1>3. IsFiniteSet(InFlight(p))
  BY DEF Few
<1>4. permits[p] \in Nat
  BY DEF TypeOK
<1> QED BY <1>2, <1>3, <1>4, SizeType, FS_CardinalityType

\* A step that gives and takes no permit.
LEMMA Quiet ==
  ASSUME Inv, NEW c \in Calls, Others(c), UNCHANGED <<config, current, permits, home>>,
         pc[c] # "submit", pc'[c] # "submit", pool'[c] \in {pool[c], None, current}
  PROVE  Few' /\ PermitsAreKept'
<1>1. \A p \in Attempts : /\ Holders(p)' = Holders(p) /\ InFlight(p)' = InFlight(p)
                          /\ Size(p)' = Size(p)
  BY DEF Others, Holders, InFlight, Size
<1>2. Few'
  BY <1>1 DEF Inv, Few
<1>3. \A p \in Attempts : (p # current /\ \A d \in Calls : pool[d] # p)
                          => \A d \in Calls : pool'[d] # p
  BY NoneIsNoAttempt DEF Others
<1>4. PermitsAreKept'
  BY <1>1, <1>3 DEF Inv, PermitsAreKept
<1> QED BY <1>2, <1>4

\* A future that is over gives its permit back.
LEMMA GivenBack ==
  ASSUME Inv, NEW a \in Attempts, home[a] # None, UNCHANGED <<config, current>>,
         home' = [home EXCEPT ![a] = None],
         permits' = [permits EXCEPT ![home[a]] = @ + 1],
         \A p \in Attempts : Holders(p)' = Holders(p),
         \A d \in Calls : pool'[d] \in {pool[d], None}
  PROVE  Few' /\ PermitsAreKept'
<1>0. home[a] \in Attempts
  BY DEF Inv, TypeOK
<1>q. PICK q \in Attempts : q = home[a]
  BY <1>0
<1>1. q \in Attempts /\ a \in InFlight(q) /\ TypeOK /\ Few
  BY <1>q DEF Inv, InFlight
<1>2. InFlight(q)' = InFlight(q) \ {a}
  BY <1>1, <1>q, NoneIsNoAttempt DEF TypeOK, InFlight
<1>3. \A p \in Attempts \ {q} : InFlight(p)' = InFlight(p) /\ permits'[p] = permits[p]
  BY <1>1, <1>q, NoneIsNoAttempt DEF TypeOK, InFlight
<1>4. permits'[q] = permits[q] + 1
  BY <1>1, <1>q DEF TypeOK
<1>5. IsFiniteSet(InFlight(q)') /\ Cardinality(InFlight(q)') = Cardinality(InFlight(q)) - 1
  BY <1>1, <1>2, Countable, FS_RemoveElement
<1>6. \A p \in Attempts : Size(p)' = Size(p)
  BY DEF Size
<1>7. Few'
  BY <1>1, <1>3, <1>5 DEF Few
<1>8. permits[q] + Cardinality(Holders(q)) + Cardinality(InFlight(q)) = Size(q)
  BY <1>1 DEF Inv, PermitsAreKept
<1>9. permits'[q] + Cardinality(Holders(q)') + Cardinality(InFlight(q)') = Size(q)'
  BY <1>1, <1>4, <1>5, <1>6, <1>8, Countable
<1>10. \A p \in Attempts \ {q} :
         \/ permits'[p] + Cardinality(Holders(p)') + Cardinality(InFlight(p)') = Size(p)'
         \/ /\ permits'[p] = 0 /\ InFlight(p)' = {}
            /\ p # current' /\ \A d \in Calls : pool'[d] # p
  BY <1>3, <1>6, NoneIsNoAttempt DEF Inv, PermitsAreKept
<1>11. PermitsAreKept'
  BY <1>9, <1>10 DEF PermitsAreKept
<1> QED BY <1>7, <1>11
-----------------------------------------------------------------------------
(* Where attempts and pools are, after each kind of step *)

\* A step of a call that stays at its attempt and touches no future.
LEMMA MovesOn ==
  ASSUME Inv, NEW c \in Calls, Stays(c), UNCHANGED <<failed, result, futures, current>>,
         pc[c] \notin {"permit", "submit", "done"}, pc'[c] \notin {"submit", "wait"},
         pc[c] = "wait" => result[c] # "none" /\ pc'[c] = "done",
         pool'[c] \in {pool[c], None, current}
  PROVE  Futures' /\ PoolsAreOld'
<1>1. /\ \A d \in Calls : Mine(d)' = Mine(d)
      /\ \A a \in Attempts : (Behind(a)' <=> Behind(a)) /\ (Present(a)' <=> Present(a))
  BY StaysThere DEF Inv
<1>2. \A d \in Calls \ {c} : pc'[d] = pc[d] /\ pool'[d] = pool[d]
  BY DEF Stays, Others
<1>3. \A a \in Attempts : a[1] \in Calls
  BY AttemptType
<1>4. \A a \in Attempts : Present(a) /\ a[1] = c => a = Mine(c)
  BY DEF Present
<1>5. Futures'
  <2>1. \A a \in Attempts : future'[a] \in Alive <=> home'[a] # None
    BY DEF futures, Inv, Futures
  <2>2. \A a \in Attempts : future'[a] # "none" =>
          Behind(a)' \/ (Present(a)' /\ pc'[a[1]] \in {"wait", "done"})
    BY <1>1, <1>2, <1>3 DEF futures, Inv, Futures
  <2>3. pc[c] = "wait" => future[Mine(c)] \notin {"queued", "running"}
    BY DEF Inv, Futures
  <2>4. \A a \in Attempts : Present(a) /\ pc[a[1]] = "wait" /\
                            future[a] \in {"queued", "running"} =>
          Present(a)' /\ pc'[a[1]] = "wait"
    BY <1>1, <1>2, <1>3, <1>4, <2>3
  <2>5. \A a \in Attempts : future'[a] = "queued" =>
          Present(a)' /\ pc'[a[1]] = "wait" /\ home'[a] = current'
    BY <2>4 DEF futures, Inv, Futures
  <2>6. \A a \in Attempts : future'[a] = "running" /\ a \notin failed' =>
          Present(a)' /\ pc'[a[1]] = "wait"
    BY <2>4 DEF futures, Inv, Futures
  <2>7. \A d \in Calls : pc'[d] = "wait" /\ result'[d] # "none" =>
          future'[Mine(d)'] \notin {"queued", "running"}
    BY <1>1, <1>2 DEF futures, Inv, Futures
  <2>8. \A d \in Calls : pc'[d] \notin {"wait", "done"} => result'[d] = "none"
    BY <1>2 DEF Inv, Futures
  <2> QED BY <2>1, <2>2, <2>5, <2>6, <2>7, <2>8 DEF Futures
<1>6. \A p \in Attempts : Used(p)' => Used(p)
  BY <1>2, NoneIsNoAttempt DEF Used, futures
<1>7. \A p \in Attempts : Old(p) => Old(p)'
  BY <1>1, <1>2, <1>3 DEF Old
<1>8. PoolsAreOld'
  BY <1>6, <1>7 DEF Inv, PoolsAreOld
<1> QED BY <1>5, <1>8

\* A step of a call that leaves its attempt, which may be over with it.
LEMMA MovesAway ==
  ASSUME Inv, NEW c \in Calls, Leaves(c), UNCHANGED current,
         pc[c] \in {"vendor", "permit", "wait"}, pc'[c] \in {"pool", "vendor"},
         pool'[c] \in {pool[c], None},
         \A d \in Calls : result'[d] = IF d = c THEN "none" ELSE result[d],
         failed \subseteq failed',
         pc[c] = "wait" => Mine(c) \in failed' /\ future'[Mine(c)] # "queued",
         \A a \in Attempts :
           \/ future'[a] = future[a] /\ home'[a] = home[a]
           \/ future'[a] = "over" /\ home'[a] = None /\ future[a] # "none"
  PROVE  Futures' /\ PoolsAreOld'
<1>1. /\ \A d \in Calls \ {c} : Mine(d)' = Mine(d)
      /\ \A a \in Attempts : Behind(a) => Behind(a)'
      /\ \A a \in Attempts : Present(a) /\ a[1] = c => Behind(a)'
      /\ \A a \in Attempts : Present(a) /\ a[1] # c => Present(a)'
  BY LeavesBehind DEF Inv
<1>2. \A d \in Calls \ {c} : pc'[d] = pc[d] /\ pool'[d] = pool[d]
  BY DEF Leaves, Others
<1>3. \A a \in Attempts : a[1] \in Calls
  BY AttemptType
<1>4. \A a \in Attempts : Present(a) /\ a[1] = c => a = Mine(c)
  BY DEF Present
<1>5. Futures'
  <2>1. \A a \in Attempts : future'[a] \in Alive <=> home'[a] # None
    BY DEF Alive, Inv, Futures
  <2>2. \A a \in Attempts : future'[a] # "none" =>
          Behind(a)' \/ (Present(a)' /\ pc'[a[1]] \in {"wait", "done"})
    BY <1>1, <1>2, <1>3 DEF Inv, Futures
  <2>3. \A a \in Attempts : Present(a) /\ pc[a[1]] = "wait" /\ a[1] # c =>
          Present(a)' /\ pc'[a[1]] = "wait"
    BY <1>1, <1>2, <1>3
  <2>5. \A a \in Attempts : future'[a] = "queued" =>
          Present(a)' /\ pc'[a[1]] = "wait" /\ home'[a] = current'
    BY <1>4, <2>3 DEF Inv, Futures
  <2>6. \A a \in Attempts : future'[a] = "running" /\ a \notin failed' =>
          Present(a)' /\ pc'[a[1]] = "wait"
    BY <1>4, <2>3 DEF Inv, Futures
  <2>7. \A d \in Calls : pc'[d] = "wait" /\ result'[d] # "none" =>
          future'[Mine(d)'] \notin {"queued", "running"}
    <3> SUFFICES ASSUME NEW d \in Calls, pc'[d] = "wait", result'[d] # "none"
                 PROVE  future'[Mine(d)'] \notin {"queued", "running"}
      OBVIOUS
    <3>1. d # c /\ pc[d] = "wait" /\ result[d] # "none"
      BY <1>2
    <3>2. Mine(d)' = Mine(d) /\ future[Mine(d)] \notin {"queued", "running"}
      BY <1>1, <3>1 DEF Inv, Futures
    <3>3. Mine(d) \in Attempts
      <4>1. pc[d] \notin {"new", "vendor", "done"}
        BY <3>1
      <4>2. turn[d] <= Len(Chain)
        BY <4>1 DEF Inv, TypeOK
      <4> QED BY <4>2, MineType DEF Inv
    <3> QED BY <3>2, <3>3
  <2>8. \A d \in Calls : pc'[d] \notin {"wait", "done"} => result'[d] = "none"
    BY <1>2 DEF Inv, Futures
  <2> QED BY <2>1, <2>2, <2>5, <2>6, <2>7, <2>8 DEF Futures
<1>6. \A p \in Attempts : Used(p)' => Used(p)
  BY <1>2, NoneIsNoAttempt DEF Used
<1>7. \A p \in Attempts : Old(p) => Old(p)'
  BY <1>1, <1>2, <1>3 DEF Old
<1>8. PoolsAreOld'
  BY <1>6, <1>7 DEF Inv, PoolsAreOld
<1> QED BY <1>5, <1>8
-----------------------------------------------------------------------------
(* The steps that take a permit, pass it on or give it back *)

LEMMA AtVendor ==
  ASSUME Inv, NEW c \in Calls, pc[c] \in {"pool", "permit", "submit", "wait"}
  PROVE  /\ turn[c] <= Len(Chain)
         /\ Mine(c) \in Attempts /\ Mine(c)[1] = c
         /\ Mine(c)[2] = turn[c] /\ Mine(c)[3] = try[c]
         /\ Present(Mine(c)) /\ ~Behind(Mine(c))
<1>1. pc[c] \notin {"new", "vendor", "done"}
  OBVIOUS
<1>2. turn[c] <= Len(Chain)
  BY <1>1 DEF Inv, TypeOK
<1>3. turn[c] \in Nat /\ try[c] \in Nat
  BY AttemptType DEF Inv, TypeOK
<1> QED BY <1>2, <1>3, MineType DEF Inv, Present, Behind

LEMMA TakesPermitKeeps ==
  ASSUME Inv, NEW c \in Calls, TakesPermit(c)
  PROVE  Inv'
<1>p. PICK q \in Attempts : q = pool[c]
  BY DEF TakesPermit, Goes, Inv, TypeOK
<1>0. pc[c] = "permit" /\ pc' = [pc EXCEPT ![c] = "submit"] /\ permits[q] > 0
      /\ permits' = [permits EXCEPT ![q] = @ - 1]
  BY <1>p DEF TakesPermit, Goes
<1>s. Stays(c) /\ UNCHANGED <<config, turn, try, pool, answer, failed, result, current, futures>>
  BY DEF TakesPermit, Goes, Stays, Others, Inv, TypeOK
<1>1. /\ \A d \in Calls : Mine(d)' = Mine(d)
      /\ \A a \in Attempts : (Behind(a)' <=> Behind(a)) /\ (Present(a)' <=> Present(a))
  BY <1>s, StaysThere DEF Inv
<1>t. permits[q] \in Nat
  BY DEF Inv, TypeOK
<1>2. TypeOK'
  <2>1. permits' \in [Attempts -> Nat]
    BY <1>0, <1>t DEF Inv, TypeOK
  <2>2. pc' \in [Calls -> {"new", "vendor", "pool", "permit", "submit", "wait", "done"}]
    BY <1>s DEF Stays, Others
  <2>3. \A d \in Calls : pc'[d] \notin {"new", "vendor", "done"} => turn'[d] <= Len(Chain)
    BY <1>0, <1>s DEF Inv, TypeOK
  <2>4. \A d \in Calls : pc'[d] \in {"permit", "submit", "wait"} => pool'[d] \in Attempts
    BY <1>0, <1>s, <1>p DEF Inv, TypeOK
  <2> QED BY <1>s, <2>1, <2>2, <2>3, <2>4 DEF Inv, TypeOK, Size, futures
<1>3. \A a \in Attempts : a[1] \in Calls
  BY AttemptType
<1>4. \A d \in Calls : /\ pc'[d] = "wait" <=> pc[d] = "wait"
                       /\ pc'[d] = "done" <=> pc[d] = "done"
  BY <1>0 DEF Inv, TypeOK
<1>5. Futures'
  BY <1>s, <1>1, <1>3, <1>4 DEF Inv, Futures, futures
<1>6. \A p \in Attempts : (Used(p)' <=> Used(p)) /\ (Old(p) => Old(p)')
  BY <1>0, <1>s, <1>1, <1>3 DEF Inv, TypeOK, Used, Old, futures
<1>7. PoolsAreOld'
  BY <1>6 DEF Inv, PoolsAreOld
<1>8. \A p \in Attempts : InFlight(p)' = InFlight(p) /\ Size(p)' = Size(p)
  BY <1>s DEF InFlight, Size, futures
<1>9. Few'
  BY <1>8 DEF Inv, Few
<1>10. Holders(q)' = Holders(q) \cup {c} /\ c \notin Holders(q)
  BY <1>0, <1>s, <1>p DEF Inv, TypeOK, Holders
<1>11. \A p \in Attempts \ {q} : Holders(p)' = Holders(p) /\ permits'[p] = permits[p]
  BY <1>0, <1>s, <1>p DEF Inv, TypeOK, Holders
<1>12. Cardinality(Holders(q)') = Cardinality(Holders(q)) + 1
  BY <1>10, Countable, FS_AddElement DEF Inv
<1>13. permits'[q] = permits[q] - 1
  BY <1>0 DEF Inv, TypeOK
<1>14. permits[q] + Cardinality(Holders(q)) + Cardinality(InFlight(q)) = Size(q)
  BY <1>0, <1>p DEF Inv, PermitsAreKept
<1>15. permits'[q] + Cardinality(Holders(q)') + Cardinality(InFlight(q)') = Size(q)'
  BY <1>8, <1>12, <1>13, <1>14, Countable DEF Inv
<1>16. PermitsAreKept'
  BY <1>s, <1>8, <1>11, <1>15 DEF Inv, PermitsAreKept
<1> QED BY <1>2, <1>5, <1>7, <1>9, <1>16 DEF Inv

LEMMA SubmitsKeeps ==
  ASSUME Inv, NEW c \in Calls, Submits(c)
  PROVE  Inv'
<1>0. pc[c] = "submit" /\ pc' = [pc EXCEPT ![c] = "wait"] /\ pool[c] = current
  BY DEF Submits, Goes
<1>a. PICK b \in Attempts : b = Mine(c)
  BY <1>0, AtVendor
<1>b. Present(b) /\ ~Behind(b) /\ b[1] = c /\ turn[c] <= Len(Chain)
  BY <1>0, <1>a, AtVendor
<1>p. PICK q \in Attempts : q = pool[c]
  BY <1>0 DEF Inv, TypeOK
<1>f. future' = [future EXCEPT ![b] = "queued"] /\ home' = [home EXCEPT ![b] = q]
  BY <1>a, <1>p DEF Submits
<1>s. Stays(c) /\ UNCHANGED <<config, turn, try, pool, answer, failed, result, current, permits>>
  BY DEF Submits, Goes, Stays, Others, Inv, TypeOK
<1>1. /\ \A d \in Calls : Mine(d)' = Mine(d)
      /\ \A a \in Attempts : (Behind(a)' <=> Behind(a)) /\ (Present(a)' <=> Present(a))
  BY <1>s, StaysThere DEF Inv
<1>n. future[b] = "none" /\ home[b] = None
  BY <1>b, <1>0 DEF Inv, Futures, Alive
<1>2. TypeOK'
  <2>1. pc' \in [Calls -> {"new", "vendor", "pool", "permit", "submit", "wait", "done"}]
    BY <1>s DEF Stays, Others
  <2>2. \A d \in Calls : pc'[d] \notin {"new", "vendor", "done"} => turn'[d] <= Len(Chain)
    BY <1>0, <1>b, <1>s DEF Inv, TypeOK
  <2>3. \A d \in Calls : pc'[d] \in {"permit", "submit", "wait"} => pool'[d] \in Attempts
    BY <1>0, <1>s, <1>p DEF Inv, TypeOK
  <2>4. /\ future' \in [Attempts -> {"none", "queued", "running", "finished", "over"}]
        /\ home' \in [Attempts -> Attempts \cup {None}]
        /\ \A a \in Attempts : future'[a] \in Alive => home'[a] \in Attempts
    BY <1>f DEF Inv, TypeOK
  <2> QED BY <1>s, <2>1, <2>2, <2>3, <2>4 DEF Inv, TypeOK
<1>3. \A a \in Attempts : a[1] \in Calls
  BY AttemptType
<1>c. \A d \in Calls \ {c} : pc'[d] = pc[d]
  BY <1>s DEF Stays, Others
<1>r. pc'[c] = "wait" /\ result[c] = "none"
  <2>1. pc[c] \notin {"wait", "done"}
    BY <1>0
  <2>2. result[c] = "none"
    BY <2>1 DEF Inv, Futures
  <2> QED BY <1>0, <2>2 DEF Inv, TypeOK
<1>4. \A d \in Calls : /\ d # c => pc'[d] = pc[d]
                       /\ pc'[c] = "wait" /\ result[c] = "none"
  BY <1>c, <1>r
<1>5. Futures'
  <2>1. \A a \in Attempts : future'[a] \in Alive <=> home'[a] # None
    BY <1>f, NoneIsNoAttempt DEF Inv, TypeOK, Futures, Alive
  <2>2. \A a \in Attempts : future'[a] # "none" =>
          Behind(a)' \/ (Present(a)' /\ pc'[a[1]] \in {"wait", "done"})
    BY <1>b, <1>f, <1>1, <1>3, <1>4 DEF Inv, TypeOK, Futures
  <2>3. \A a \in Attempts : future'[a] = "queued" =>
          Present(a)' /\ pc'[a[1]] = "wait" /\ home'[a] = current'
    BY <1>b, <1>f, <1>p, <1>0, <1>s, <1>1, <1>3, <1>4 DEF Inv, TypeOK, Futures
  <2>4. \A a \in Attempts : future'[a] = "running" /\ a \notin failed' =>
          Present(a)' /\ pc'[a[1]] = "wait"
    BY <1>f, <1>s, <1>1, <1>3, <1>4 DEF Inv, TypeOK, Futures
  <2>5. \A d \in Calls : pc'[d] = "wait" /\ result'[d] # "none" =>
          future'[Mine(d)'] \notin {"queued", "running"}
    <3> SUFFICES ASSUME NEW d \in Calls, pc'[d] = "wait", result'[d] # "none"
                 PROVE  future'[Mine(d)] \notin {"queued", "running"}
      BY <1>1
    <3>1. d # c /\ pc[d] = "wait" /\ result[d] # "none"
      BY <1>s, <1>4
    <3>2. Mine(d) \in Attempts /\ Mine(d) # b
      BY <3>1, <1>b, AtVendor
    <3> QED BY <3>1, <3>2, <1>f DEF Inv, TypeOK, Futures
  <2>6. \A d \in Calls : pc'[d] \notin {"wait", "done"} => result'[d] = "none"
    BY <1>s, <1>4 DEF Inv, Futures
  <2> QED BY <2>1, <2>2, <2>3, <2>4, <2>5, <2>6 DEF Futures
<1>6. \A p \in Attempts : (Used(p)' => Used(p)) /\ (Old(p) => Old(p)')
  BY <1>0, <1>s, <1>1, <1>3, <1>4, <1>f, <1>p DEF Inv, TypeOK, Used, Old
<1>7. PoolsAreOld'
  BY <1>6 DEF Inv, PoolsAreOld
<1>8. \A p \in Attempts : Size(p)' = Size(p)
  BY <1>s DEF Size
<1>10. Holders(q)' = Holders(q) \ {c} /\ c \in Holders(q)
  BY <1>0, <1>s, <1>p DEF Inv, TypeOK, Holders
<1>11. InFlight(q)' = InFlight(q) \cup {b} /\ b \notin InFlight(q)
  BY <1>f, <1>n, NoneIsNoAttempt DEF Inv, TypeOK, InFlight
<1>12. \A p \in Attempts \ {q} : Holders(p)' = Holders(p) /\ InFlight(p)' = InFlight(p)
  BY <1>0, <1>s, <1>p, <1>f, <1>n, NoneIsNoAttempt DEF Inv, TypeOK, Holders, InFlight
<1>13. Cardinality(Holders(q)') = Cardinality(Holders(q)) - 1
  BY <1>10, Countable, FS_RemoveElement DEF Inv
<1>14. /\ IsFiniteSet(InFlight(q)')
       /\ Cardinality(InFlight(q)') = Cardinality(InFlight(q)) + 1
  BY <1>11, Countable, FS_AddElement DEF Inv
<1>15. permits[q] + Cardinality(Holders(q)) + Cardinality(InFlight(q)) = Size(q)
  BY <1>0, <1>p DEF Inv, PermitsAreKept
<1>16. permits'[q] + Cardinality(Holders(q)') + Cardinality(InFlight(q)') = Size(q)'
  BY <1>s, <1>8, <1>13, <1>14, <1>15, Countable DEF Inv
<1>17. Few'
  BY <1>12, <1>14 DEF Inv, Few
<1>18. PermitsAreKept'
  BY <1>s, <1>8, <1>12, <1>16 DEF Inv, PermitsAreKept
<1> QED BY <1>2, <1>5, <1>7, <1>17, <1>18 DEF Inv

LEMMA CannotSubmitKeeps ==
  ASSUME Inv, NEW c \in Calls, CannotSubmit(c)
  PROVE  Inv'
<1>p. PICK q \in Attempts : q = pool[c]
  BY DEF CannotSubmit, Inv, TypeOK
<1>0. pc[c] = "submit" /\ pc' = [pc EXCEPT ![c] = "done"]
      /\ permits' = [permits EXCEPT ![q] = @ + 1] /\ pool' = [pool EXCEPT ![c] = None]
      /\ answer' = [answer EXCEPT ![c] = "fatal"]
  BY <1>p DEF CannotSubmit, Ends
<1>s. Stays(c) /\ UNCHANGED <<config, turn, try, failed, result, current, futures>>
  BY DEF CannotSubmit, Ends, Stays, Others, Inv, TypeOK
<1>1. /\ \A d \in Calls : Mine(d)' = Mine(d)
      /\ \A a \in Attempts : (Behind(a)' <=> Behind(a)) /\ (Present(a)' <=> Present(a))
  BY <1>s, StaysThere DEF Inv
<1>2. TypeOK'
  <2>1. pc' \in [Calls -> {"new", "vendor", "pool", "permit", "submit", "wait", "done"}]
    BY <1>s DEF Stays, Others
  <2>2. \A d \in Calls : pc'[d] \notin {"new", "vendor", "done"} => turn'[d] <= Len(Chain)
    BY <1>0, <1>s DEF Inv, TypeOK
  <2>3. \A d \in Calls : pc'[d] \in {"permit", "submit", "wait"} => pool'[d] \in Attempts
    BY <1>0, <1>s DEF Inv, TypeOK
  <2>4. permits' \in [Attempts -> Nat]
    BY <1>0 DEF Inv, TypeOK
  <2>5. /\ pool' \in [Calls -> Attempts \cup {None}]
        /\ answer' \in [Calls -> {"none", "data", "fatal", "policy", "unavailable"}]
    BY <1>0 DEF Inv, TypeOK
  <2> QED BY <1>s, <2>1, <2>2, <2>3, <2>4, <2>5 DEF Inv, TypeOK, futures
<1>3. \A a \in Attempts : a[1] \in Calls
  BY AttemptType
<1>4. \A d \in Calls \ {c} : pc'[d] = pc[d] /\ pool'[d] = pool[d]
  BY <1>s DEF Stays, Others
<1>5. pc'[c] = "done"
  BY <1>0 DEF Inv, TypeOK
<1>6. Futures'
  <2>1. \A a \in Attempts : future'[a] \in Alive <=> home'[a] # None
    BY <1>s DEF Inv, Futures, futures
  <2>2. \A a \in Attempts : future'[a] # "none" =>
          Behind(a)' \/ (Present(a)' /\ pc'[a[1]] \in {"wait", "done"})
    BY <1>s, <1>1, <1>3, <1>4, <1>5 DEF Inv, Futures, futures
  <2>3. \A a \in Attempts : future'[a] = "queued" =>
          Present(a)' /\ pc'[a[1]] = "wait" /\ home'[a] = current'
    BY <1>0, <1>s, <1>1, <1>3, <1>4 DEF Inv, Futures, futures
  <2>4. \A a \in Attempts : future'[a] = "running" /\ a \notin failed' =>
          Present(a)' /\ pc'[a[1]] = "wait"
    BY <1>0, <1>s, <1>1, <1>3, <1>4 DEF Inv, Futures, futures
  <2>5. \A d \in Calls : pc'[d] = "wait" /\ result'[d] # "none" =>
          future'[Mine(d)'] \notin {"queued", "running"}
    BY <1>s, <1>1, <1>4, <1>5 DEF Inv, Futures, futures
  <2>6. \A d \in Calls : pc'[d] \notin {"wait", "done"} => result'[d] = "none"
    BY <1>s, <1>4, <1>5 DEF Inv, Futures
  <2> QED BY <2>1, <2>2, <2>3, <2>4, <2>5, <2>6 DEF Futures
<1>o. pool'[c] = None
  BY <1>0 DEF Inv, TypeOK
<1>7. \A p \in Attempts : Used(p)' => Used(p)
  BY <1>s, <1>4, <1>o, NoneIsNoAttempt DEF Used, futures
<1>8. \A p \in Attempts : Old(p) => Old(p)'
  BY <1>1, <1>3, <1>4, <1>5 DEF Old
<1>9. PoolsAreOld'
  BY <1>7, <1>8 DEF Inv, PoolsAreOld
<1>10. \A p \in Attempts : InFlight(p)' = InFlight(p) /\ Size(p)' = Size(p)
  BY <1>s DEF InFlight, Size, futures
<1>11. Few'
  BY <1>10 DEF Inv, Few
<1>12. Holders(q)' = Holders(q) \ {c} /\ c \in Holders(q)
  BY <1>0, <1>4, <1>5, <1>p DEF Holders
<1>13. \A p \in Attempts \ {q} : Holders(p)' = Holders(p) /\ permits'[p] = permits[p]
  BY <1>0, <1>4, <1>5, <1>p DEF Inv, TypeOK, Holders
<1>14. Cardinality(Holders(q)') = Cardinality(Holders(q)) - 1
  BY <1>12, Countable, FS_RemoveElement DEF Inv
<1>15. permits'[q] = permits[q] + 1
  BY <1>0 DEF Inv, TypeOK
<1>16. permits[q] + Cardinality(Holders(q)) + Cardinality(InFlight(q)) = Size(q)
  BY <1>p DEF Inv, PermitsAreKept
<1>17. permits'[q] + Cardinality(Holders(q)') + Cardinality(InFlight(q)') = Size(q)'
  BY <1>10, <1>14, <1>15, <1>16, Countable DEF Inv
<1>18. \A p \in Attempts : (\A d \in Calls : pool[d] # p) => \A d \in Calls : pool'[d] # p
  BY <1>4, <1>o, NoneIsNoAttempt
<1>19. PermitsAreKept'
  BY <1>s, <1>10, <1>13, <1>17, <1>18 DEF Inv, PermitsAreKept
<1> QED BY <1>2, <1>6, <1>9, <1>11, <1>19 DEF Inv

LEMMA ReplacesPoolKeeps ==
  ASSUME Inv, NEW c \in Calls, ReplacesPool(c)
  PROVE  Inv'
<1>0. pc[c] = "pool" /\ pc' = [pc EXCEPT ![c] = "permit"]
  BY DEF ReplacesPool, Goes
<1>a. PICK b \in Attempts : b = Mine(c)
  BY <1>0, AtVendor
<1>b. Present(b) /\ ~Behind(b) /\ b[1] = c /\ turn[c] <= Len(Chain)
  BY <1>0, <1>a, AtVendor
<1>s. Stays(c) /\ UNCHANGED <<config, turn, try, answer, failed>>
  BY DEF ReplacesPool, Goes, Stays, Others, Inv, TypeOK
<1>1. /\ \A d \in Calls : Mine(d)' = Mine(d)
      /\ \A a \in Attempts : (Behind(a)' <=> Behind(a)) /\ (Present(a)' <=> Present(a))
  BY <1>s, StaysThere DEF Inv
<1>q. PICK K : K = Queued(current)
  OBVIOUS
<1>f. /\ pool' = [pool EXCEPT ![c] = b] /\ current' = b
      /\ permits' = [p \in Attempts |-> IF p = b THEN config[c].workers
                                        ELSE IF p = current THEN permits[p] + Cardinality(K)
                                        ELSE permits[p]]
      /\ future' = [a \in Attempts |-> IF a \in K THEN "over" ELSE future[a]]
      /\ home' = [a \in Attempts |-> IF a \in K THEN None ELSE home[a]]
      /\ result' = [d \in Calls |-> IF Mine(d) \in K THEN "cancelled" ELSE result[d]]
  BY <1>a, <1>q DEF ReplacesPool
<1>k. K = {a \in Attempts : future[a] = "queued"}
      /\ \A a \in K : a \in Attempts /\ home[a] = current
  BY <1>q DEF Inv, Futures, Queued
<1>u. ~Used(b)
  <2>1. ~Old(b)
    BY <1>0, <1>b DEF Old
  <2> QED BY <2>1 DEF Inv, PoolsAreOld
<1>c. \A d \in Calls \ {c} : pc'[d] = pc[d] /\ pool'[d] = pool[d]
  BY <1>0, <1>f DEF Inv, TypeOK
<1>d. pc'[c] = "permit" /\ pool'[c] = b
  BY <1>0, <1>f DEF Inv, TypeOK
<1>3. \A a \in Attempts : a[1] \in Calls
  BY AttemptType
<1>h. Size(b) = config[c].workers /\ \A p \in Attempts : Size(p)' = Size(p) /\ Size(p) \in Nat
  BY <1>b, <1>s, SizeType DEF Inv, Size
<1>w. K \subseteq InFlight(current)
  BY <1>k DEF InFlight
<1>n. current \in Attempts => IsFiniteSet(K) /\ Cardinality(K) \in Nat
  BY <1>w, Countable, FS_Subset, FS_CardinalityType DEF Inv
<1>2. TypeOK'
  <2>1. pc' \in [Calls -> {"new", "vendor", "pool", "permit", "submit", "wait", "done"}]
    BY <1>s DEF Stays, Others
  <2>2. \A d \in Calls : pc'[d] \notin {"new", "vendor", "done"} => turn'[d] <= Len(Chain)
    BY <1>b, <1>c, <1>s DEF Inv, TypeOK
  <2>3. \A d \in Calls : pc'[d] \in {"permit", "submit", "wait"} => pool'[d] \in Attempts
    BY <1>c, <1>d DEF Inv, TypeOK
  <2>4. permits' \in [Attempts -> Nat]
    BY <1>f, <1>h, <1>n DEF Inv, TypeOK
  <2>5. /\ pool' \in [Calls -> Attempts \cup {None}]
        /\ current' \in Attempts \cup {None}
    BY <1>f DEF Inv, TypeOK
  <2>6. /\ future' \in [Attempts -> {"none", "queued", "running", "finished", "over"}]
        /\ home' \in [Attempts -> Attempts \cup {None}]
        /\ \A a \in Attempts : future'[a] \in Alive => home'[a] \in Attempts
    BY <1>f DEF Inv, TypeOK, Alive
  <2>7. result' \in [Calls -> Results \cup {"none", "cancelled"}]
    BY <1>f DEF Inv, TypeOK
  <2> QED BY <1>s, <2>1, <2>2, <2>3, <2>4, <2>5, <2>6, <2>7 DEF Inv, TypeOK
<1>4. \A d \in Calls : Mine(d) \in K => pc[d] = "wait"
  <2> SUFFICES ASSUME NEW d \in Calls, Mine(d) \in K PROVE pc[d] = "wait"
    OBVIOUS
  <2>1. Mine(d) \in Attempts /\ future[Mine(d)] = "queued"
    BY <1>k
  <2>2. pc[Mine(d)[1]] = "wait"
    BY <2>1 DEF Inv, Futures
  <2> QED BY <2>2 DEF Mine
<1>5. Futures'
  <2>1. \A a \in Attempts : future'[a] \in Alive <=> home'[a] # None
    BY <1>f DEF Inv, Futures, Alive
  <2>2. \A a \in Attempts : future'[a] # "none" =>
          Behind(a)' \/ (Present(a)' /\ pc'[a[1]] \in {"wait", "done"})
    BY <1>0, <1>f, <1>k, <1>1, <1>3, <1>c DEF Inv, Futures
  <2>3. \A a \in Attempts : future'[a] = "queued" =>
          Present(a)' /\ pc'[a[1]] = "wait" /\ home'[a] = current'
    BY <1>f, <1>k
  <2>4. \A a \in Attempts : future'[a] = "running" /\ a \notin failed' =>
          Present(a)' /\ pc'[a[1]] = "wait"
    BY <1>0, <1>f, <1>s, <1>1, <1>3, <1>c DEF Inv, Futures
  <2>5. \A d \in Calls : pc'[d] = "wait" /\ result'[d] # "none" =>
          future'[Mine(d)'] \notin {"queued", "running"}
    <3> SUFFICES ASSUME NEW d \in Calls, pc'[d] = "wait", result'[d] # "none"
                 PROVE  future'[Mine(d)] \notin {"queued", "running"}
      BY <1>1
    <3>1. d # c /\ pc[d] = "wait"
      BY <1>c, <1>d
    <3>2. Mine(d) \in Attempts
      BY <3>1, AtVendor
    <3>3. CASE Mine(d) \in K
      BY <3>2, <3>3, <1>f
    <3>4. CASE Mine(d) \notin K
      <4>1. result[d] # "none" /\ future'[Mine(d)] = future[Mine(d)]
        BY <3>2, <3>4, <1>f
      <4> QED BY <4>1, <3>1 DEF Inv, Futures
    <3> QED BY <3>3, <3>4
  <2>6. \A d \in Calls : pc'[d] \notin {"wait", "done"} => result'[d] = "none"
    BY <1>0, <1>4, <1>c, <1>f DEF Inv, Futures
  <2> QED BY <2>1, <2>2, <2>3, <2>4, <2>5, <2>6 DEF Futures
<1>6. \A p \in Attempts : Used(p)' => Used(p) \/ p = b
  BY <1>f, <1>c, <1>d, NoneIsNoAttempt DEF Used
<1>7. \A p \in Attempts : Old(p) => Old(p)'
  BY <1>0, <1>1, <1>3, <1>c DEF Old
<1>8. Old(b)'
  BY <1>b, <1>1, <1>d DEF Old
<1>9. PoolsAreOld'
  BY <1>6, <1>7, <1>8 DEF Inv, PoolsAreOld
<1>10. \A p \in Attempts : Holders(p)' = Holders(p)
  BY <1>0, <1>c, <1>d DEF Holders
<1>11. Holders(b) = {} /\ InFlight(b) = {} /\ current # b
  BY <1>u DEF Used, Holders, InFlight
<1>12. \A p \in Attempts : InFlight(p)' = IF p = current THEN InFlight(p) \ K ELSE InFlight(p)
  BY <1>f, <1>k, NoneIsNoAttempt DEF InFlight
<1>13. Few'
  <2>1. \A p \in Attempts : InFlight(p)' \subseteq InFlight(p)
    BY <1>12
  <2> QED BY <2>1, FS_Subset DEF Inv, Few
<1>14. permits'[b] + Cardinality(Holders(b)') + Cardinality(InFlight(b)') = Size(b)'
  <2>1. Holders(b)' = {} /\ InFlight(b)' = {} /\ permits'[b] = Size(b)
    BY <1>f, <1>h, <1>10, <1>11, <1>12
  <2> QED BY <2>1, <1>h, FS_EmptySet
<1>15. \A o \in Attempts : o = current =>
         permits'[o] + Cardinality(Holders(o)') + Cardinality(InFlight(o)') = Size(o)'
  <2> SUFFICES ASSUME NEW o \in Attempts, o = current
               PROVE  permits'[o] + Cardinality(Holders(o)') + Cardinality(InFlight(o)') = Size(o)'
    OBVIOUS
  <2>1. permits[o] + Cardinality(Holders(o)) + Cardinality(InFlight(o)) = Size(o)
    BY DEF Inv, PermitsAreKept
  <2>2. permits'[o] = permits[o] + Cardinality(K)
    BY <1>f, <1>11
  <2>3. InFlight(o)' = InFlight(o) \ K /\ K \cap InFlight(o) = K
    BY <1>12, <1>w
  <2>4. Cardinality(InFlight(o)') = Cardinality(InFlight(o)) - Cardinality(K)
    <3>1. IsFiniteSet(InFlight(o))
      BY DEF Inv, Few
    <3> QED BY <2>3, <3>1, FS_Difference
  <2>5. Holders(o)' = Holders(o) /\ Size(o)' = Size(o)
    BY <1>10, <1>h
  <2> QED BY <2>1, <2>2, <2>4, <2>5, <1>n, Countable DEF Inv
<1>16. \A p \in Attempts : p # b /\ p # current =>
         \/ permits'[p] + Cardinality(Holders(p)') + Cardinality(InFlight(p)') = Size(p)'
         \/ /\ permits'[p] = 0 /\ InFlight(p)' = {}
            /\ p # current' /\ \A d \in Calls : pool'[d] # p
  <2>1. \A p \in Attempts : p # b /\ p # current =>
          /\ permits'[p] = permits[p] /\ InFlight(p)' = InFlight(p)
          /\ Holders(p)' = Holders(p) /\ Size(p)' = Size(p) /\ p # current'
          /\ (\A d \in Calls : pool[d] # p) => \A d \in Calls : pool'[d] # p
    BY <1>f, <1>10, <1>12, <1>h, <1>c, <1>d
  <2> QED BY <2>1 DEF Inv, PermitsAreKept
<1>17. PermitsAreKept'
  BY <1>14, <1>15, <1>16 DEF PermitsAreKept
<1> QED BY <1>2, <1>5, <1>9, <1>13, <1>17 DEF Inv

-----------------------------------------------------------------------------
(* The other steps *)

LEMMA MovesOnKeeps ==
  ASSUME Inv, NEW c \in Calls,
         Starts(c) \/ RunsOut(c) \/ RefusesVendor(c) \/ RefusesRequest(c) \/ TriesVendor(c)
           \/ GetsPool(c) \/ GetsData(c) \/ FindsLookahead(c) \/ GetsFatal(c)
  PROVE  Inv'
<1>1. /\ Stays(c) /\ UNCHANGED <<failed, result, futures, current, config, permits>>
      /\ turn' = turn /\ try' = try
  BY DEF Starts, RunsOut, RefusesVendor, RefusesRequest, TriesVendor, GetsPool, GetsData,
         FindsLookahead, GetsFatal, Goes, Ends, pools, futures, Stays, Others, Inv, TypeOK
<1>2. /\ pc[c] \notin {"permit", "submit", "done"} /\ pc'[c] \notin {"submit", "wait"}
      /\ pc[c] = "wait" => result[c] # "none" /\ pc'[c] = "done"
  BY DEF Starts, RunsOut, RefusesVendor, RefusesRequest, TriesVendor, GetsPool, GetsData,
         FindsLookahead, GetsFatal, Goes, Ends, Inv, TypeOK
<1>3. /\ pool' \in [Calls -> Attempts \cup {None}] /\ pool'[c] \in {pool[c], None, current}
      /\ pc'[c] = "permit" => pool'[c] \in Attempts
      /\ pc'[c] \in {"pool", "permit"} => turn[c] <= Len(Chain)
      /\ answer' \in [Calls -> {"none", "data", "fatal", "policy", "unavailable"}]
  <2>1. CASE GetsPool(c)
    <3>1. pool' = [pool EXCEPT ![c] = current] /\ current \in Attempts /\ answer' = answer
      BY <2>1 DEF GetsPool, Keeps, Inv, TypeOK
    <3>2. turn[c] <= Len(Chain)
      BY <2>1, AtVendor DEF GetsPool, Goes
    <3> QED BY <3>1, <3>2 DEF Inv, TypeOK
  <2>2. CASE TriesVendor(c)
    BY <2>2 DEF TriesVendor, Goes, Inv, TypeOK
  <2>3. CASE Starts(c)
    BY <2>3 DEF Starts, Goes, Inv, TypeOK
  <2>4. CASE RunsOut(c) \/ RefusesVendor(c) \/ RefusesRequest(c) \/ GetsData(c)
               \/ FindsLookahead(c) \/ GetsFatal(c)
    <3>1. PICK w \in {"data", "fatal", "policy", "unavailable"} : Ends(c, w)
      BY <2>4 DEF RunsOut, RefusesVendor, RefusesRequest, GetsData, FindsLookahead, GetsFatal
    <3>2. pc'[c] = "done" /\ pool' = [pool EXCEPT ![c] = None]
          /\ answer' = [answer EXCEPT ![c] = w]
      BY <3>1 DEF Ends, Inv, TypeOK
    <3> QED BY <3>2 DEF Inv, TypeOK
  <2> QED BY <2>1, <2>2, <2>3, <2>4
<1>4. Futures' /\ PoolsAreOld'
  BY <1>1, <1>2, <1>3, MovesOn
<1>5. Few' /\ PermitsAreKept'
  BY <1>1, <1>2, <1>3, Quiet DEF Stays, futures
<1>6. TypeOK'
  <2>0. /\ pc' \in [Calls -> {"new", "vendor", "pool", "permit", "submit", "wait", "done"}]
        /\ \A d \in Calls \ {c} : pc'[d] = pc[d] /\ pool'[d] = pool[d]
    BY <1>1 DEF Stays, Others
  <2>1. \A d \in Calls : pc'[d] \notin {"new", "vendor", "done"} => turn'[d] <= Len(Chain)
    BY <1>1, <1>2, <1>3, <2>0 DEF Inv, TypeOK
  <2>2. \A d \in Calls : pc'[d] \in {"permit", "submit", "wait"} => pool'[d] \in Attempts
    BY <1>2, <1>3, <2>0 DEF Inv, TypeOK
  <2> QED BY <1>1, <1>3, <2>0, <2>1, <2>2 DEF Inv, TypeOK, futures
<1> QED BY <1>4, <1>5, <1>6 DEF Inv

LEMMA SkipsVendorKeeps ==
  ASSUME Inv, NEW c \in Calls, SkipsVendor(c)
  PROVE  Inv'
<1>0. pc[c] = "vendor" /\ turn[c] <= Len(Chain) /\ result[c] = "none"
  BY DEF SkipsVendor, Inv, Futures
<1>1. pc' = [pc EXCEPT ![c] = "vendor"] /\ turn' = [turn EXCEPT ![c] = @ + 1]
      /\ try' = [try EXCEPT ![c] = 1]
      /\ UNCHANGED <<config, answer, pool, failed, result, current, permits, future, home>>
  BY DEF SkipsVendor, NextVendor, pools, futures
<1>2. turn[c] \in Nat /\ turn[c] >= 1 /\ Len(Chain) \in Nat /\ Retries \in Nat
  BY AttemptType DEF Inv, TypeOK
<1>3. Leaves(c) /\ pc'[c] = "vendor"
  BY <1>1 DEF Inv, TypeOK, Leaves, Others
<1>4. TypeOK'
  <2>1. turn' \in [Calls -> 1..(Len(Chain) + 1)] /\ try' \in [Calls -> 1..(Retries + 1)]
    BY <1>0, <1>1, <1>2 DEF Inv, TypeOK
  <2>2. \A d \in Calls : pc'[d] \notin {"new", "vendor", "done"} => turn'[d] <= Len(Chain)
    BY <1>1, <1>3 DEF Inv, TypeOK
  <2> QED BY <1>1, <2>1, <2>2 DEF Inv, TypeOK
<1>5. Futures' /\ PoolsAreOld'
  BY <1>0, <1>1, <1>3, MovesAway
<1>6. Few' /\ PermitsAreKept'
  BY <1>0, <1>1, <1>3, Quiet DEF Leaves
<1> QED BY <1>4, <1>5, <1>6 DEF Inv

\* What giving up does to the type, when no future or one's own is over.
LEMMA GivesUpType ==
  ASSUME Inv, NEW c \in Calls, pc[c] \in {"permit", "wait"}, GivesUp(c), current' = current,
         permits' \in [Attempts -> Nat],
         future' \in [Attempts -> {"none", "queued", "running", "finished", "over"}],
         home' \in [Attempts -> Attempts \cup {None}],
         \A a \in Attempts : future'[a] \in Alive => home'[a] \in Attempts
  PROVE  TypeOK'
<1>1. /\ Leaves(c) /\ pc'[c] \in {"pool", "vendor"} /\ pool'[c] = None
      /\ result' = [result EXCEPT ![c] = "none"]
      /\ failed' = failed \cup {Mine(c)} /\ Mine(c) \in Attempts
      /\ config' = config /\ answer' = answer
      /\ turn' \in [Calls -> 1..(Len(Chain) + 1)] /\ try' \in [Calls -> 1..(Retries + 1)]
      /\ pool' \in [Calls -> Attempts \cup {None}]
      /\ pc'[c] = "pool" => turn'[c] <= Len(Chain)
  BY GivesUpLeaves DEF Inv
<1>2. /\ pc' \in [Calls -> {"new", "vendor", "pool", "permit", "submit", "wait", "done"}]
      /\ \A d \in Calls \ {c} : pc'[d] = pc[d] /\ pool'[d] = pool[d] /\ turn'[d] = turn[d]
  BY <1>1 DEF Leaves, Others
<1>3. \A d \in Calls : pc'[d] \notin {"new", "vendor", "done"} => turn'[d] <= Len(Chain)
  BY <1>1, <1>2 DEF Inv, TypeOK
<1>4. \A d \in Calls : pc'[d] \in {"permit", "submit", "wait"} => pool'[d] \in Attempts
  BY <1>1, <1>2 DEF Inv, TypeOK
<1>5. result' \in [Calls -> Results \cup {"none", "cancelled"}] /\ failed' \subseteq Attempts
  BY <1>1 DEF Inv, TypeOK
<1>6. config' \in Configs /\ answer' \in [Calls -> {"none", "data", "fatal", "policy", "unavailable"}]
      /\ current' \in Attempts \cup {None}
  BY <1>1 DEF Inv, TypeOK
<1> QED BY <1>1, <1>2, <1>3, <1>4, <1>5, <1>6 DEF TypeOK

LEMMA GivesUpKeeps ==
  ASSUME Inv, NEW c \in Calls,
         FindsItSaturated(c) \/ GetsRetryable(c) \/ TimesOut(c)
  PROVE  Inv'
<1>0. pc[c] \in {"permit", "wait"} /\ GivesUp(c)
      /\ UNCHANGED <<current, permits, future, home>>
  BY DEF FindsItSaturated, GetsRetryable, TimesOut, pools, futures
<1>q. pc[c] = "wait" => future[Mine(c)] # "queued"
  <2>1. pc[c] = "wait" => GetsRetryable(c) \/ TimesOut(c)
    BY DEF FindsItSaturated
  <2> QED BY <2>1 DEF GetsRetryable, TimesOut, Inv, Futures
<1>1. /\ Leaves(c) /\ pc'[c] \in {"pool", "vendor"} /\ pool'[c] = None
      /\ result' = [result EXCEPT ![c] = "none"]
      /\ failed' = failed \cup {Mine(c)} /\ Mine(c) \in Attempts /\ config' = config
  BY <1>0, GivesUpLeaves DEF Inv
<1>2. TypeOK'
  BY <1>0, GivesUpType DEF Inv, TypeOK
<1>3. \A d \in Calls : result'[d] = IF d = c THEN "none" ELSE result[d]
  BY <1>1 DEF Inv, TypeOK
<1>4. Futures' /\ PoolsAreOld'
  BY <1>0, <1>1, <1>3, <1>q, MovesAway
<1>5. Few' /\ PermitsAreKept'
  BY <1>0, <1>1, Quiet DEF Leaves
<1> QED BY <1>2, <1>4, <1>5 DEF Inv

LEMMA TimesOutQueuedKeeps ==
  ASSUME Inv, NEW c \in Calls, TimesOutQueued(c)
  PROVE  Inv'
<1>0. pc[c] = "wait" /\ GivesUp(c) /\ current' = current
  BY DEF TimesOutQueued
<1>a. PICK b \in Attempts : b = Mine(c)
  BY <1>0, AtVendor
<1>f. /\ future[b] = "queued" /\ future' = [future EXCEPT ![b] = "over"]
      /\ permits' = [permits EXCEPT ![home[b]] = @ + 1]
      /\ home' = [home EXCEPT ![b] = None]
  BY <1>a DEF TimesOutQueued
<1>h. home[b] # None
  BY <1>f DEF Inv, Futures, Alive
<1>g. home[b] \in Attempts
  BY <1>h DEF Inv, TypeOK
<1>1. /\ Leaves(c) /\ pc'[c] \in {"pool", "vendor"} /\ pool'[c] = None
      /\ result' = [result EXCEPT ![c] = "none"]
      /\ failed' = failed \cup {Mine(c)} /\ config' = config
  BY <1>0, GivesUpLeaves DEF Inv
<1>2. TypeOK'
  <2>1. permits' \in [Attempts -> Nat]
    BY <1>f, <1>g DEF Inv, TypeOK
  <2>2. /\ future' \in [Attempts -> {"none", "queued", "running", "finished", "over"}]
        /\ home' \in [Attempts -> Attempts \cup {None}]
        /\ \A a \in Attempts : future'[a] \in Alive => home'[a] \in Attempts
    BY <1>f DEF Inv, TypeOK, Alive
  <2> QED BY <1>0, <2>1, <2>2, GivesUpType
<1>3. \A d \in Calls : result'[d] = IF d = c THEN "none" ELSE result[d]
  BY <1>1 DEF Inv, TypeOK
<1>4. Futures' /\ PoolsAreOld'
  <2>1. \A a \in Attempts :
          \/ future'[a] = future[a] /\ home'[a] = home[a]
          \/ future'[a] = "over" /\ home'[a] = None /\ future[a] # "none"
    BY <1>f DEF Inv, TypeOK
  <2>2. Mine(c) \in failed' /\ future'[Mine(c)] # "queued"
    BY <1>1, <1>a, <1>f DEF Inv, TypeOK
  <2> QED BY <1>0, <1>1, <1>3, <2>1, <2>2, MovesAway
<1>5. Few' /\ PermitsAreKept'
  <2>1. \A d \in Calls \ {c} : pc'[d] = pc[d] /\ pool'[d] = pool[d]
    BY <1>1 DEF Leaves, Others
  <2>2. \A p \in Attempts : Holders(p)' = Holders(p)
    BY <1>0, <1>1, <2>1 DEF Holders
  <2>3. \A d \in Calls : pool'[d] \in {pool[d], None}
    BY <1>1, <2>1
  <2> QED BY <1>0, <1>1, <1>f, <1>h, <2>2, <2>3, GivenBack
<1> QED BY <1>2, <1>4, <1>5 DEF Inv

-----------------------------------------------------------------------------
(* The threads *)

LEMMA CallsAreStill ==
  ASSUME UNCHANGED calls
  PROVE  /\ \A d \in Calls : Mine(d)' = Mine(d)
         /\ \A a \in Attempts : /\ Behind(a)' = Behind(a) /\ Present(a)' = Present(a)
                                /\ Old(a)' = Old(a)
         /\ \A p \in Attempts : Holders(p)' = Holders(p) /\ Size(p)' = Size(p)
BY DEF calls, Mine, Behind, Present, Old, Holders, Size

LEMMA ThreadKeeps ==
  ASSUME Inv, NEW a \in Attempts, Thread(a)
  PROVE  Inv'
<1>1. UNCHANGED <<calls, current>>
  BY DEF Thread, Runs, Finishes, Releases
<1>2. /\ \A d \in Calls : Mine(d)' = Mine(d)
      /\ \A x \in Attempts : Behind(x)' = Behind(x) /\ Present(x)' = Present(x) /\ Old(x)' = Old(x)
      /\ \A p \in Attempts : Holders(p)' = Holders(p) /\ Size(p)' = Size(p)
  BY <1>1, CallsAreStill
<1>t. a[1] \in Calls
  BY AttemptType
<1>c. UNCHANGED <<config, pc, turn, try, pool, answer, failed>>
  BY <1>1 DEF calls
<1>3. CASE Runs(a) \/ Finishes(a)
  <2>1. UNCHANGED <<permits, home>> /\ \E s \in {"running", "finished"} :
          /\ future' = [future EXCEPT ![a] = s]
          /\ s = "running" => future[a] = "queued" /\ result' = result
          /\ s = "finished" => future[a] = "running"
    BY <1>3 DEF Runs, Finishes
  <2>r. \/ result' = result
        \/ /\ future' = [future EXCEPT ![a] = "finished"] /\ future[a] = "running"
           /\ a \notin failed /\ \E r \in Results : result' = [result EXCEPT ![a[1]] = r]
    BY <1>3 DEF Runs, Finishes
  <2>2. TypeOK'
    <3>1. future' \in [Attempts -> {"none", "queued", "running", "finished", "over"}]
      BY <2>1 DEF Inv, TypeOK
    <3>2. result' \in [Calls -> Results \cup {"none", "cancelled"}]
      BY <2>r DEF Inv, TypeOK
    <3>3. \A x \in Attempts : future'[x] \in Alive => home'[x] \in Attempts
      BY <2>1 DEF Inv, TypeOK, Alive
    <3> QED BY <1>1, <1>c, <2>1, <3>1, <3>2, <3>3 DEF Inv, TypeOK
  <2>3. Futures'
    <3>1. \A x \in Attempts : future'[x] \in Alive <=> home'[x] # None
      BY <2>1 DEF Inv, TypeOK, Futures, Alive
    <3>2. \A x \in Attempts : future'[x] # "none" =>
            Behind(x)' \/ (Present(x)' /\ pc'[x[1]] \in {"wait", "done"})
      BY <1>2, <1>c, <2>1 DEF Inv, TypeOK, Futures
    <3>3. \A x \in Attempts : future'[x] = "queued" =>
            Present(x)' /\ pc'[x[1]] = "wait" /\ home'[x] = current'
      BY <1>1, <1>2, <1>c, <2>1 DEF Inv, TypeOK, Futures
    <3>4. \A x \in Attempts : future'[x] = "running" /\ x \notin failed' =>
            Present(x)' /\ pc'[x[1]] = "wait"
      BY <1>2, <1>c, <2>1 DEF Inv, TypeOK, Futures
    <3>5. \A d \in Calls : pc'[d] = "wait" /\ result'[d] # "none" =>
            future'[Mine(d)'] \notin {"queued", "running"}
      <4> SUFFICES ASSUME NEW d \in Calls, pc'[d] = "wait", result'[d] # "none"
                   PROVE  future'[Mine(d)] \notin {"queued", "running"}
        BY <1>2
      <4>1. Mine(d) \in Attempts
        BY <1>c, AtVendor
      <4>2. CASE result'[d] = result[d]
        <5>1. future[Mine(d)] \notin {"queued", "running"}
          BY <4>2, <1>c DEF Inv, Futures
        <5> QED BY <5>1, <4>1, <2>1 DEF Inv, TypeOK
      <4>3. CASE result'[d] # result[d]
        <5>1. future' = [future EXCEPT ![a] = "finished"] /\ d = a[1]
              /\ future[a] = "running" /\ a \notin failed
          BY <4>3, <2>r DEF Inv, TypeOK
        <5>2. Present(a)
          BY <5>1 DEF Inv, Futures
        <5> QED BY <5>1, <5>2 DEF Present, Inv, TypeOK
      <4> QED BY <4>2, <4>3
    <3>6. \A d \in Calls : pc'[d] \notin {"wait", "done"} => result'[d] = "none"
      <4> SUFFICES ASSUME NEW d \in Calls, pc'[d] \notin {"wait", "done"}
                   PROVE  result'[d] = "none"
        OBVIOUS
      <4>1. result'[d] = result[d]
        <5>1. CASE d = a[1] /\ future[a] = "running" /\ a \notin failed
          BY <5>1, <1>c DEF Inv, Futures
        <5>2. CASE ~(d = a[1] /\ future[a] = "running" /\ a \notin failed)
          BY <5>2, <2>r DEF Inv, TypeOK
        <5> QED BY <5>1, <5>2
      <4> QED BY <4>1, <1>c DEF Inv, Futures
    <3> QED BY <3>1, <3>2, <3>3, <3>4, <3>5, <3>6 DEF Futures
  <2>4. \A p \in Attempts : Used(p)' = Used(p) /\ InFlight(p)' = InFlight(p)
    BY <1>1, <1>c, <2>1 DEF Used, InFlight
  <2>5. PoolsAreOld' /\ Few'
    BY <1>2, <2>4 DEF Inv, PoolsAreOld, Few
  <2>6. PermitsAreKept'
    BY <1>1, <1>2, <1>c, <2>1, <2>4 DEF Inv, PermitsAreKept
  <2> QED BY <2>2, <2>3, <2>5, <2>6 DEF Inv
<1>4. CASE Releases(a)
  <2>1. /\ future[a] = "finished" /\ future' = [future EXCEPT ![a] = "over"]
        /\ permits' = [permits EXCEPT ![home[a]] = @ + 1]
        /\ home' = [home EXCEPT ![a] = None] /\ result' = result
    BY <1>4 DEF Releases
  <2>h. home[a] # None
    BY <2>1 DEF Inv, Futures, Alive
  <2>2. TypeOK'
    <3>0. home[a] \in Attempts
      BY <2>h DEF Inv, TypeOK
    <3>1. permits' \in [Attempts -> Nat]
      BY <2>1, <3>0 DEF Inv, TypeOK
    <3>2. /\ future' \in [Attempts -> {"none", "queued", "running", "finished", "over"}]
          /\ home' \in [Attempts -> Attempts \cup {None}]
          /\ \A x \in Attempts : future'[x] \in Alive => home'[x] \in Attempts
      BY <2>1 DEF Inv, TypeOK, Alive
    <3> QED BY <1>1, <1>c, <2>1, <3>1, <3>2 DEF Inv, TypeOK
  <2>3. Futures'
    <3>1. \A x \in Attempts : future'[x] \in Alive <=> home'[x] # None
      BY <2>1 DEF Inv, TypeOK, Futures, Alive
    <3>2. \A x \in Attempts : future'[x] # "none" =>
            Behind(x)' \/ (Present(x)' /\ pc'[x[1]] \in {"wait", "done"})
      BY <1>2, <1>c, <2>1 DEF Inv, TypeOK, Futures
    <3>3. \A x \in Attempts : future'[x] = "queued" =>
            Present(x)' /\ pc'[x[1]] = "wait" /\ home'[x] = current'
      BY <1>1, <1>2, <1>c, <2>1 DEF Inv, TypeOK, Futures
    <3>4. \A x \in Attempts : future'[x] = "running" /\ x \notin failed' =>
            Present(x)' /\ pc'[x[1]] = "wait"
      BY <1>2, <1>c, <2>1 DEF Inv, TypeOK, Futures
    <3>5. \A d \in Calls : pc'[d] = "wait" /\ result'[d] # "none" =>
            future'[Mine(d)'] \notin {"queued", "running"}
      <4> SUFFICES ASSUME NEW d \in Calls, pc'[d] = "wait", result'[d] # "none"
                   PROVE  future'[Mine(d)] \notin {"queued", "running"}
        BY <1>2
      <4>1. Mine(d) \in Attempts
        BY <1>c, AtVendor
      <4> QED BY <4>1, <1>c, <2>1 DEF Inv, TypeOK, Futures
    <3>6. \A d \in Calls : pc'[d] \notin {"wait", "done"} => result'[d] = "none"
      BY <1>c, <2>1 DEF Inv, Futures
    <3> QED BY <3>1, <3>2, <3>3, <3>4, <3>5, <3>6 DEF Futures
  <2>4. \A p \in Attempts : Used(p)' => Used(p)
    BY <1>1, <1>c, <2>1, NoneIsNoAttempt DEF Inv, TypeOK, Used
  <2>5. PoolsAreOld'
    BY <1>2, <2>4 DEF Inv, PoolsAreOld
  <2>6. Few' /\ PermitsAreKept'
    BY <1>1, <1>2, <1>c, <2>1, <2>h, GivenBack
  <2> QED BY <2>2, <2>3, <2>5, <2>6 DEF Inv
<1> QED BY <1>3, <1>4 DEF Thread

-----------------------------------------------------------------------------
(* The theorems *)

LEMMA InvNext == Inv /\ [Next]_vars => Inv'
<1> SUFFICES ASSUME Inv, [Next]_vars PROVE Inv'
  OBVIOUS
<1>1. ASSUME NEW c \in Calls, Starts(c) \/ GoesOn(c) PROVE Inv'
  BY <1>1, MovesOnKeeps, SkipsVendorKeeps, GivesUpKeeps, TimesOutQueuedKeeps,
     TakesPermitKeeps, SubmitsKeeps, CannotSubmitKeeps, ReplacesPoolKeeps DEF GoesOn
<1>2. ASSUME NEW a \in Attempts, Thread(a) PROVE Inv'
  BY <1>2, ThreadKeeps
<1>3. CASE UNCHANGED vars
  <2>1. UNCHANGED <<config, pc, turn, try, pool, answer, failed, result, current, permits,
                    future, home>>
    BY <1>3 DEF vars, calls, futures
  <2>2. UNCHANGED calls
    BY <1>3 DEF vars
  <2>3. TypeOK'
    BY <2>1 DEF Inv, TypeOK
  <2>4. Futures'
    BY <2>1, <2>2, CallsAreStill DEF Inv, Futures
  <2>5. \A p \in Attempts : /\ Used(p)' = Used(p) /\ InFlight(p)' = InFlight(p)
                            /\ Old(p)' = Old(p) /\ Holders(p)' = Holders(p) /\ Size(p)' = Size(p)
    BY <2>1, <2>2, CallsAreStill DEF Used, InFlight
  <2>6. PoolsAreOld' /\ Few'
    BY <2>5 DEF Inv, PoolsAreOld, Few
  <2>7. PermitsAreKept'
    BY <2>1, <2>5 DEF Inv, PermitsAreKept
  <2> QED BY <2>3, <2>4, <2>6, <2>7 DEF Inv
<1> QED BY <1>1, <1>2, <1>3 DEF Next

\* What the invariant says of a pool that has something queued.
LEMMA InvWaits == Inv => NoneWaitsForAThread
<1> SUFFICES ASSUME Inv, NEW a \in Attempts, future[a] = "queued"
             PROVE  home[a] = current /\ Cardinality(Running(home[a])) < Size(home[a])
  BY DEF NoneWaitsForAThread
<1>1. home[a] = current
  BY DEF Inv, Futures
<1>q. PICK q \in Attempts : q = home[a]
  BY DEF Inv, TypeOK, Alive
<1>2. permits[q] + Cardinality(Holders(q)) + Cardinality(InFlight(q)) = Size(q)
  BY <1>1, <1>q DEF Inv, PermitsAreKept
<1>3. a \in InFlight(q) /\ Running(q) \subseteq InFlight(q) \ {a}
  BY <1>q DEF InFlight, Running
<1>4. /\ IsFiniteSet(InFlight(q) \ {a})
      /\ Cardinality(InFlight(q) \ {a}) = Cardinality(InFlight(q)) - 1
  BY <1>3, Countable, FS_RemoveElement DEF Inv
<1>5. IsFiniteSet(Running(q)) /\ Cardinality(Running(q)) <= Cardinality(InFlight(q) \ {a})
  BY <1>3, <1>4, FS_Subset
<1>6. Cardinality(Running(q)) \in Nat
  BY <1>5, FS_CardinalityType
<1>7. Cardinality(Running(q)) < Size(q)
  BY <1>2, <1>4, <1>5, <1>6, Countable DEF Inv
<1> QED BY <1>1, <1>7, <1>q

THEOREM InvHolds == Spec => []Inv
BY InvInit, InvNext, PTL DEF Spec

\* In every reachable state the calls, pools, permits and futures are of their
\* types, and a call that holds a pool or waits is at a vendor of the chain.
THEOREM PoolTyped == Spec => []TypeOK
<1>1. Inv => TypeOK
  BY DEF Inv
<1> QED BY <1>1, InvHolds, PTL

\* No permit is lost or made up, whatever calls time out, replace the pool or
\* are refused by it, and whenever abandoned attempts answer.
THEOREM PermitsKept == Spec => []PermitsAreKept
<1>1. Inv => PermitsAreKept
  BY DEF Inv
<1> QED BY <1>1, InvHolds, PTL

\* What was submitted has a thread to run on: none waits behind attempts that
\* were given up, and none is left in a pool that was replaced.
THEOREM NoWaitForAThread == Spec => []NoneWaitsForAThread
BY InvWaits, InvHolds, PTL

-----------------------------------------------------------------------------
(* Answers.  Whether an answer was earned needs to know that a call is only  *)
(* at vendors it may ask (Asks), that it has given up every attempt behind it *)
(* at such a vendor (Tried), and that it lost its pool only to a call with    *)
(* another number of workers (Displaced).                                    *)

At == {"pool", "permit", "submit", "wait"}

Asks == /\ \A c \in Calls : pc[c] \in At => MayAsk(c, Vendor(c)) /\ ~TooLate(c)
        /\ \A a \in Attempts : a \in failed \/ future[a] # "none" =>
             MayAsk(a[1], Chain[a[2]]) /\ ~TooLate(a[1])

Tried == \A a \in Attempts : Behind(a) /\ MayAsk(a[1], Chain[a[2]]) => a \in failed

HasOther(c) == \E d \in Calls : config[d].workers # config[c].workers

Displaced ==
  /\ \A c \in Calls : pc[c] \in {"permit", "submit", "wait"} /\ pool[c] # current =>
       HasOther(c)
  /\ \A c \in Calls : result[c] = "cancelled" => HasOther(c)

\* The answer of a call that has ended.
Earned(c) ==
  /\ answer[c] = "unavailable" =>
       \A a \in Attempts : a[1] = c /\ MayAsk(c, Chain[a[2]]) => a \in failed
  /\ answer[c] = "fatal" => result[c] = "fatal" \/ HasOther(c)
  /\ answer[c] = "data" =>
       result[c] = "data" \/ (config[c].mode = "live" /\ result[c] = "late data")
  /\ answer[c] = "policy" =>
       \/ result[c] = "late data" /\ config[c].mode # "live"
       \/ TooLate(c) \/ (config[c].mode = "strict" /\ Unfit(c))

EarnedInv ==
  /\ Inv /\ Asks /\ Tried /\ Displaced
  /\ \A c \in Calls : (answer[c] = "none" <=> pc[c] # "done") /\ Earned(c)

LEMMA EarnedImplies == EarnedInv => AnswersAreEarned
<1> SUFFICES ASSUME EarnedInv PROVE AnswersAreEarned
  OBVIOUS
<1>1. \A a \in Attempts : a \in failed \/ future[a] # "none" =>
        MayAsk(a[1], Chain[a[2]]) /\ ~TooLate(a[1])
  BY DEF EarnedInv, Asks
<1>2. ASSUME NEW c \in Calls
      PROVE  CASE answer[c] = "unavailable" ->
                    \A a \in Attempts : a[1] = c /\ MayAsk(c, Chain[a[2]]) => a \in failed
               [] answer[c] = "fatal" ->
                    result[c] = "fatal" \/ \E d \in Calls : config[d].workers # config[c].workers
               [] answer[c] = "data" ->
                    result[c] = "data" \/ (config[c].mode = "live" /\ result[c] = "late data")
               [] answer[c] = "policy" ->
                    \/ result[c] = "late data" /\ config[c].mode # "live"
                    \/ TooLate(c)
                    \/ config[c].mode = "strict" /\ Unfit(c)
               [] OTHER -> pc[c] # "done"
  <2>1. answer[c] \in {"none", "data", "fatal", "policy", "unavailable"}
    BY DEF EarnedInv, Inv, TypeOK
  <2>2. Earned(c) /\ (answer[c] = "none" => pc[c] # "done")
    BY DEF EarnedInv
  <2> QED BY <2>1, <2>2 DEF Earned, HasOther
<1> QED BY <1>1, <1>2 DEF AnswersAreEarned

LEMMA EarnedInit == Init => EarnedInv
<1> SUFFICES ASSUME Init PROVE EarnedInv
  OBVIOUS
<1>1. \A a \in Attempts : ~Behind(a)
  BY AttemptType DEF Init, Behind
<1> QED BY <1>1, InvInit DEF Init, EarnedInv, Asks, Tried, Displaced, At, Earned

\* What holds of the calls that a step leaves alone.
LEMMA OthersKeep ==
  ASSUME EarnedInv, NEW d \in Calls, UNCHANGED config, failed \subseteq failed',
         answer'[d] = answer[d], answer[d] # "none" => turn'[d] = turn[d],
         result'[d] = result[d] \/ answer[d] = "none"
  PROVE  Earned(d)'
<1>1. Earned(d)
  BY DEF EarnedInv
<1> QED BY <1>1 DEF Earned, HasOther, MayAsk, TooLate, Unfit, IsDisabled, IsRejected, Vendor

\* A step of a call that stays at its attempt and is not answered.
LEMMA StaysEarned ==
  ASSUME EarnedInv, NEW c \in Calls, Stays(c), pc[c] # "done", pc'[c] # "done",
         UNCHANGED <<config, answer, failed, result, current, future>>,
         pc'[c] \in At => MayAsk(c, Vendor(c)) /\ ~TooLate(c),
         pc'[c] \in {"permit", "submit", "wait"} => pool'[c] = current \/
           (pool'[c] = pool[c] /\ pc[c] \in {"permit", "submit", "wait"})
  PROVE  Asks' /\ Tried' /\ Displaced'
         /\ \A d \in Calls : (answer'[d] = "none" <=> pc'[d] # "done") /\ Earned(d)'
<1>1. /\ \A d \in Calls : Mine(d)' = Mine(d)
      /\ \A a \in Attempts : (Behind(a)' <=> Behind(a)) /\ (Present(a)' <=> Present(a))
  BY StaysThere DEF EarnedInv, Inv
<1>2. /\ \A d \in Calls \ {c} : pc'[d] = pc[d] /\ pool'[d] = pool[d] /\ turn'[d] = turn[d]
      /\ turn'[c] = turn[c]
  BY DEF Stays, Others
<1>3. \A d, v : MayAsk(d, v)' = MayAsk(d, v) /\ TooLate(d)' = TooLate(d)
  BY DEF MayAsk, TooLate
<1>4. \A d \in Calls : Vendor(d)' = Vendor(d)
  BY <1>2 DEF Vendor
<1>5. Asks'
  BY <1>2, <1>3, <1>4 DEF EarnedInv, Asks
<1>6. Tried'
  BY <1>1, <1>3 DEF EarnedInv, Tried
<1>7. Displaced'
  BY <1>2 DEF EarnedInv, Displaced, HasOther
<1>8. \A d \in Calls : (answer'[d] = "none" <=> pc'[d] # "done") /\ Earned(d)'
  BY <1>2, OthersKeep DEF EarnedInv
<1> QED BY <1>5, <1>6, <1>7, <1>8

LEMMA SubmitsEarned ==
  ASSUME EarnedInv, NEW c \in Calls, Submits(c)
  PROVE  Asks' /\ Tried' /\ Displaced'
         /\ \A d \in Calls : (answer'[d] = "none" <=> pc'[d] # "done") /\ Earned(d)'
<1>1. /\ pc[c] = "submit" /\ pc' = [pc EXCEPT ![c] = "wait"]
      /\ future' = [future EXCEPT ![Mine(c)] = "queued"]
      /\ UNCHANGED <<config, turn, try, pool, answer, failed, result, current>>
  BY DEF Submits, Goes
<1>2. turn[c] <= Len(Chain)
  BY <1>1 DEF EarnedInv, Inv, TypeOK
<1>3. Mine(c)[1] = c /\ Mine(c)[2] = turn[c]
  BY <1>2, MineType DEF EarnedInv, Inv
<1>4. MayAsk(c, Vendor(c)) /\ ~TooLate(c)
  BY <1>1 DEF EarnedInv, Asks, At
<1>5. \A d, v : MayAsk(d, v)' = MayAsk(d, v) /\ TooLate(d)' = TooLate(d)
  BY <1>1 DEF MayAsk, TooLate
<1>6. \A d \in Calls : Vendor(d)' = Vendor(d)
  BY <1>1 DEF Vendor
<1>7. \A d \in Calls : pc'[d] \in At => pc[d] \in At
  BY <1>1 DEF EarnedInv, Inv, TypeOK, At
<1>8. ASSUME NEW a \in Attempts, future'[a] # "none"
      PROVE  MayAsk(a[1], Chain[a[2]]) /\ ~TooLate(a[1])
  <2>1. CASE a = Mine(c)
    BY <2>1, <1>3, <1>4 DEF Vendor
  <2>2. CASE a # Mine(c)
    BY <2>2, <1>1, <1>8 DEF EarnedInv, Asks, Inv, TypeOK
  <2> QED BY <2>1, <2>2
<1>9. Asks'
  BY <1>1, <1>5, <1>6, <1>7, <1>8 DEF EarnedInv, Asks
<1>10. Tried'
  BY <1>1, <1>5 DEF EarnedInv, Tried, Behind
<1>11. Displaced'
  <2>1. \A d \in Calls : pc'[d] \in {"permit", "submit", "wait"} =>
                         pc[d] \in {"permit", "submit", "wait"}
    BY <1>1 DEF EarnedInv, Inv, TypeOK
  <2> QED BY <1>1, <2>1 DEF EarnedInv, Displaced, HasOther
<1>12. \A d \in Calls : (answer'[d] = "none" <=> pc'[d] # "done") /\ Earned(d)'
  BY <1>1, OthersKeep DEF EarnedInv, Inv, TypeOK
<1> QED BY <1>9, <1>10, <1>11, <1>12

\* Whoever replaces the pool, or made it, asks for another number of workers
\* than those who hold it.
LEMMA ReplacesEarned ==
  ASSUME EarnedInv, NEW c \in Calls, ReplacesPool(c)
  PROVE  Asks' /\ Tried' /\ Displaced'
         /\ \A d \in Calls : (answer'[d] = "none" <=> pc'[d] # "done") /\ Earned(d)'
<1>1. /\ pc[c] = "pool" /\ pc' = [pc EXCEPT ![c] = "permit"] /\ ~Keeps(c)
      /\ pool' = [pool EXCEPT ![c] = Mine(c)] /\ current' = Mine(c)
      /\ future' = [a \in Attempts |-> IF a \in Queued(current) THEN "over" ELSE future[a]]
      /\ result' = [d \in Calls |-> IF Mine(d) \in Queued(current) THEN "cancelled"
                                    ELSE result[d]]
      /\ UNCHANGED <<config, turn, try, answer, failed>>
  BY DEF ReplacesPool, Goes
<1>2. \A d, v : MayAsk(d, v)' = MayAsk(d, v) /\ TooLate(d)' = TooLate(d)
  BY <1>1 DEF MayAsk, TooLate
<1>3. \A d \in Calls : Vendor(d)' = Vendor(d) /\ HasOther(d)' = HasOther(d)
  BY <1>1 DEF Vendor, HasOther
<1>4. \A d \in Calls : pc'[d] \in At => pc[d] \in At
  BY <1>1 DEF EarnedInv, Inv, TypeOK, At
<1>5. \A a \in Attempts : future'[a] # "none" => future[a] # "none"
  BY <1>1 DEF Queued
<1>6. Asks'
  BY <1>1, <1>2, <1>3, <1>4, <1>5 DEF EarnedInv, Asks
<1>7. Tried'
  BY <1>1, <1>2 DEF EarnedInv, Tried, Behind
<1>8. current \in Attempts => \A d \in Calls : HasOther(d)
  <2> SUFFICES ASSUME current \in Attempts, NEW d \in Calls PROVE HasOther(d)
    OBVIOUS
  <2>1. current[1] \in Calls /\ config[current[1]].workers # config[c].workers
    BY <1>1, AttemptType, NoneIsNoAttempt DEF Keeps, Size
  <2> QED BY <2>1 DEF HasOther
<1>9. Displaced'
  <2>1. ASSUME NEW d \in Calls, pc'[d] \in {"permit", "submit", "wait"}, pool'[d] # current'
        PROVE  HasOther(d)
    <3>1. d # c
      BY <1>1, <2>1 DEF EarnedInv, Inv, TypeOK
    <3>2. pc'[d] = pc[d] /\ pool'[d] = pool[d]
      BY <1>1, <3>1
    <3>3. pool[d] \in Attempts
      BY <2>1, <3>2 DEF EarnedInv, Inv, TypeOK
    <3>4. CASE pool[d] = current
      BY <1>8, <3>3, <3>4
    <3>5. CASE pool[d] # current
      BY <2>1, <3>2, <3>5 DEF EarnedInv, Displaced
    <3> QED BY <3>4, <3>5
  <2>2. ASSUME NEW d \in Calls, result'[d] = "cancelled" PROVE HasOther(d)
    <3>1. CASE Mine(d) \in Queued(current)
      <4>1. current \in Attempts
        BY <3>1 DEF Queued, EarnedInv, Inv, TypeOK, Alive
      <4> QED BY <1>8, <4>1
    <3>2. CASE Mine(d) \notin Queued(current)
      BY <1>1, <2>2, <3>2 DEF EarnedInv, Displaced
    <3> QED BY <3>1, <3>2
  <2> QED BY <1>3, <2>1, <2>2 DEF Displaced
<1>10. ASSUME NEW d \in Calls
       PROVE  (answer'[d] = "none" <=> pc'[d] # "done") /\ Earned(d)'
  <2>1. pc'[d] = "done" <=> pc[d] = "done"
    BY <1>1 DEF EarnedInv, Inv, TypeOK
  <2>2. result'[d] = result[d] \/ answer[d] = "none"
    <3>1. CASE Mine(d) \in Queued(current)
      <4>1. Present(Mine(d)) /\ pc[Mine(d)[1]] = "wait"
        BY <3>1 DEF Queued, EarnedInv, Inv, Futures
      <4>2. Mine(d)[1] = d
        BY DEF Mine
      <4> QED BY <4>1, <4>2 DEF EarnedInv
    <3>2. CASE Mine(d) \notin Queued(current)
      BY <1>1, <3>2
    <3> QED BY <3>1, <3>2
  <2> QED BY <1>1, <2>1, <2>2, OthersKeep DEF EarnedInv
<1> QED BY <1>6, <1>7, <1>9, <1>10

LEMMA MovesEarned ==
  ASSUME EarnedInv, NEW c \in Calls,
         Starts(c) \/ TriesVendor(c) \/ GetsPool(c) \/ TakesPermit(c)
  PROVE  Asks' /\ Tried' /\ Displaced'
         /\ \A d \in Calls : (answer'[d] = "none" <=> pc'[d] # "done") /\ Earned(d)'
<1>1. /\ UNCHANGED <<config, turn, try, answer, failed, result, current, future>>
      /\ pool' = pool \/ (GetsPool(c) /\ pool' = [pool EXCEPT ![c] = current])
      /\ pc[c] \in {"new", "vendor", "pool", "permit"}
      /\ \E to \in {"vendor", "pool", "permit", "submit"} :
           /\ pc' = [pc EXCEPT ![c] = to]
           /\ to = "pool" => TriesVendor(c) /\ pc[c] = "vendor"
           /\ to = "permit" => GetsPool(c) /\ pc[c] = "pool"
           /\ to = "submit" => pc[c] = "permit" /\ pool' = pool
  BY DEF Starts, TriesVendor, GetsPool, TakesPermit, Goes, pools, futures
<1>2. Stays(c)
  BY <1>1 DEF EarnedInv, Inv, TypeOK, Stays, Others
<1>3. TriesVendor(c) => MayAsk(c, Vendor(c)) /\ ~TooLate(c)
  BY DEF TriesVendor, IsDisabled, IsRejected, MayAsk
<1>4. pc'[c] \in At => MayAsk(c, Vendor(c)) /\ ~TooLate(c)
  BY <1>1, <1>3 DEF EarnedInv, Asks, At, Inv, TypeOK
<1>5. pc'[c] \in {"permit", "submit", "wait"} => pool'[c] = current \/
        (pool'[c] = pool[c] /\ pc[c] \in {"permit", "submit", "wait"})
  BY <1>1 DEF EarnedInv, Inv, TypeOK, GetsPool
<1>6. pc[c] # "done" /\ pc'[c] # "done"
  BY <1>1 DEF EarnedInv, Inv, TypeOK
<1> QED BY <1>1, <1>2, <1>4, <1>5, <1>6, StaysEarned

\* All the attempts of a call that is past the last vendor are behind it.
LEMMA BeyondChain ==
  ASSUME TypeOK, NEW a \in Attempts, turn[a[1]] > Len(Chain)
  PROVE  Behind(a)
<1>1. /\ turn[a[1]] \in 1..(Len(Chain) + 1) /\ Len(Chain) \in Nat /\ a[2] \in 1..Len(Chain)
  BY AttemptType DEF TypeOK
<1>2. a[2] < turn[a[1]]
  BY <1>1
<1> QED BY <1>2 DEF Behind

\* A step with which a call is answered.
LEMMA AnswersEarned ==
  ASSUME EarnedInv, NEW c \in Calls, NEW with \in {"data", "fatal", "policy", "unavailable"},
         Ends(c, with), pc[c] # "done", UNCHANGED <<current, future>>,
         with = "unavailable" => turn[c] > Len(Chain),
         with = "fatal" => result[c] = "fatal" \/ HasOther(c),
         with = "data" =>
           result[c] = "data" \/ (config[c].mode = "live" /\ result[c] = "late data"),
         with = "policy" =>
           \/ result[c] = "late data" /\ config[c].mode # "live"
           \/ TooLate(c) \/ (config[c].mode = "strict" /\ Unfit(c))
  PROVE  Asks' /\ Tried' /\ Displaced'
         /\ \A d \in Calls : (answer'[d] = "none" <=> pc'[d] # "done") /\ Earned(d)'
<1>1. /\ pc' = [pc EXCEPT ![c] = "done"] /\ answer' = [answer EXCEPT ![c] = with]
      /\ pool' = [pool EXCEPT ![c] = None]
      /\ UNCHANGED <<config, turn, try, failed, result>>
  BY DEF Ends
<1>2. \A d, v : MayAsk(d, v)' = MayAsk(d, v) /\ TooLate(d)' = TooLate(d)
  BY <1>1 DEF MayAsk, TooLate
<1>3. \A d \in Calls : Vendor(d)' = Vendor(d) /\ HasOther(d)' = HasOther(d)
  BY <1>1 DEF Vendor, HasOther
<1>4. /\ \A d \in Calls \ {c} : pc'[d] = pc[d] /\ pool'[d] = pool[d] /\ answer'[d] = answer[d]
      /\ pc'[c] = "done" /\ answer'[c] = with
  BY <1>1 DEF EarnedInv, Inv, TypeOK
<1>5. Asks'
  BY <1>1, <1>2, <1>3, <1>4 DEF EarnedInv, Asks, At
<1>6. Tried'
  BY <1>1, <1>2 DEF EarnedInv, Tried, Behind
<1>7. Displaced'
  BY <1>1, <1>3, <1>4 DEF EarnedInv, Displaced
<1>8. ASSUME with = "unavailable", NEW a \in Attempts, a[1] = c, MayAsk(c, Chain[a[2]])
      PROVE  a \in failed
  <2>1. Behind(a)
    BY <1>8, BeyondChain DEF EarnedInv, Inv
  <2> QED BY <1>8, <2>1 DEF EarnedInv, Tried
<1>9. Earned(c)'
  <2>1. Unfit(c)' = Unfit(c)
    BY <1>1 DEF Unfit, IsDisabled, IsRejected, Vendor
  <2> QED BY <1>1, <1>2, <1>3, <1>4, <1>8, <2>1 DEF Earned
<1>10. \A d \in Calls : (answer'[d] = "none" <=> pc'[d] # "done") /\ Earned(d)'
  BY <1>1, <1>4, <1>9, OthersKeep DEF EarnedInv
<1> QED BY <1>5, <1>6, <1>7, <1>10

LEMMA EndsEarned ==
  ASSUME EarnedInv, NEW c \in Calls,
         \/ RunsOut(c) \/ RefusesVendor(c) \/ RefusesRequest(c) \/ CannotSubmit(c)
         \/ GetsData(c) \/ FindsLookahead(c) \/ GetsFatal(c)
  PROVE  Asks' /\ Tried' /\ Displaced'
         /\ \A d \in Calls : (answer'[d] = "none" <=> pc'[d] # "done") /\ Earned(d)'
<1>1. CASE RunsOut(c)
  BY <1>1, AnswersEarned DEF RunsOut, pools, futures
<1>2. CASE RefusesVendor(c)
  BY <1>2, AnswersEarned DEF RefusesVendor, Unfit, pools, futures
<1>3. CASE CannotSubmit(c)
  <2>1. HasOther(c)
    BY <1>3 DEF CannotSubmit, EarnedInv, Displaced
  <2> QED BY <1>3, <2>1, AnswersEarned DEF CannotSubmit, futures
<1>4. CASE GetsData(c)
  BY <1>4, AnswersEarned DEF GetsData, pools, futures
<1>5. CASE FindsLookahead(c)
  BY <1>5, AnswersEarned DEF FindsLookahead, pools, futures
<1>6. CASE GetsFatal(c)
  <2>1. result[c] = "fatal" \/ HasOther(c)
    BY <1>6 DEF GetsFatal, EarnedInv, Displaced
  <2> QED BY <1>6, <2>1, AnswersEarned DEF GetsFatal, pools, futures
<1>7. CASE RefusesRequest(c)
  BY <1>7, AnswersEarned DEF RefusesRequest, pools, futures
<1> QED BY <1>1, <1>2, <1>3, <1>4, <1>5, <1>6, <1>7

\* A step of a call that leaves its attempt, or its vendor, and is not answered.
LEMMA LeavesEarned ==
  ASSUME EarnedInv, NEW c \in Calls, pc[c] # "done",
         UNCHANGED <<config, answer, current>>, Others(c),
         \A a \in Attempts : future'[a] # "none" => future[a] # "none",
         \A d \in Calls \ {c} : result'[d] = result[d], result'[c] \in {result[c], "none"},
         failed \subseteq failed',
         \A a \in Attempts : a \in failed' => a \in failed \/ (MayAsk(a[1], Chain[a[2]]) /\ ~TooLate(a[1])),
         \A a \in Attempts : a[1] = c /\ Behind(a)' /\ MayAsk(c, Chain[a[2]]) => a \in failed',
         pc'[c] \in {"pool", "vendor"}, pc'[c] = "pool" =>
           MayAsk(c, Vendor(c)) /\ ~TooLate(c) /\ turn'[c] = turn[c]
  PROVE  Asks' /\ Tried' /\ Displaced'
         /\ \A d \in Calls : (answer'[d] = "none" <=> pc'[d] # "done") /\ Earned(d)'
<1>1. \A d, v : MayAsk(d, v)' = MayAsk(d, v) /\ TooLate(d)' = TooLate(d)
  BY DEF MayAsk, TooLate
<1>2. \A d \in Calls : HasOther(d)' = HasOther(d)
  BY DEF HasOther
<1>3. \A d \in Calls \ {c} : /\ pc'[d] = pc[d] /\ pool'[d] = pool[d] /\ turn'[d] = turn[d]
                            /\ try'[d] = try[d] /\ Vendor(d)' = Vendor(d)
  BY DEF Others, Vendor
<1>4. pc'[c] = "pool" => Vendor(c)' = Vendor(c)
  BY DEF Vendor
<1>5. Asks'
  BY <1>1, <1>3, <1>4 DEF EarnedInv, Asks, At
<1>6. Tried'
  <2> SUFFICES ASSUME NEW a \in Attempts, Behind(a)', MayAsk(a[1], Chain[a[2]])
               PROVE  a \in failed'
    BY <1>1 DEF Tried
  <2>1. CASE a[1] = c
    BY <2>1
  <2>2. CASE a[1] # c
    <3>1. a[1] \in Calls /\ Behind(a)
      BY <1>3, <2>2, AttemptType DEF Behind
    <3> QED BY <3>1 DEF EarnedInv, Tried
  <2> QED BY <2>1, <2>2
<1>7. Displaced'
  BY <1>2, <1>3 DEF EarnedInv, Displaced
<1>8. \A d \in Calls : (answer'[d] = "none" <=> pc'[d] # "done") /\ Earned(d)'
  BY <1>3, OthersKeep DEF EarnedInv
<1> QED BY <1>5, <1>6, <1>7, <1>8

LEMMA SkipsEarned ==
  ASSUME EarnedInv, NEW c \in Calls, SkipsVendor(c)
  PROVE  Asks' /\ Tried' /\ Displaced'
         /\ \A d \in Calls : (answer'[d] = "none" <=> pc'[d] # "done") /\ Earned(d)'
<1>1. /\ pc[c] = "vendor" /\ ~MayAsk(c, Vendor(c))
      /\ pc' = [pc EXCEPT ![c] = "vendor"] /\ turn' = [turn EXCEPT ![c] = @ + 1]
      /\ try' = [try EXCEPT ![c] = 1]
      /\ UNCHANGED <<config, answer, pool, failed, result, current, future>>
  BY DEF SkipsVendor, NextVendor, IsDisabled, IsRejected, MayAsk, pools, futures
<1>2. Others(c)
  BY <1>1 DEF Others, EarnedInv, Inv, TypeOK
<1>3. ASSUME NEW a \in Attempts, a[1] = c, Behind(a)', MayAsk(c, Chain[a[2]])
      PROVE  a \in failed
  <2>1. a[2] \in Nat /\ a[3] \in Nat /\ a[3] >= 1 /\ turn[c] \in Nat
    BY AttemptType DEF EarnedInv, Inv, TypeOK
  <2>2. a[2] < turn[c] + 1
    <3>1. turn'[c] = turn[c] + 1 /\ try'[c] = 1
      BY <1>1 DEF EarnedInv, Inv, TypeOK
    <3> QED BY <1>3, <2>1, <3>1 DEF Behind
  <2>3. a[2] # turn[c]
    BY <1>1, <1>3 DEF Vendor
  <2>4. Behind(a)
    BY <1>3, <2>1, <2>2, <2>3 DEF Behind
  <2> QED BY <1>3, <2>4 DEF EarnedInv, Tried
<1>4. pc'[c] = "vendor"
  BY <1>1 DEF EarnedInv, Inv, TypeOK
<1> QED BY <1>1, <1>2, <1>3, <1>4, LeavesEarned

LEMMA GivesUpEarned ==
  ASSUME EarnedInv, NEW c \in Calls,
         FindsItSaturated(c) \/ GetsRetryable(c) \/ TimesOut(c) \/ TimesOutQueued(c)
  PROVE  Asks' /\ Tried' /\ Displaced'
         /\ \A d \in Calls : (answer'[d] = "none" <=> pc'[d] # "done") /\ Earned(d)'
<1>1. /\ pc[c] \in {"permit", "wait"} /\ GivesUp(c) /\ current' = current
      /\ future' = future \/
           (future[Mine(c)] = "queued" /\ future' = [future EXCEPT ![Mine(c)] = "over"])
  BY DEF FindsItSaturated, GetsRetryable, TimesOut, TimesOutQueued, pools, futures
<1>2. /\ Leaves(c) /\ pc'[c] \in {"pool", "vendor"}
      /\ result' = [result EXCEPT ![c] = "none"]
      /\ failed' = failed \cup {Mine(c)} /\ Mine(c) \in Attempts
      /\ config' = config /\ answer' = answer
  BY <1>1, GivesUpLeaves DEF EarnedInv, Inv
<1>3. MayAsk(c, Vendor(c)) /\ ~TooLate(c)
  BY <1>1 DEF EarnedInv, Asks, At
<1>4. Mine(c)[1] = c /\ Mine(c)[2] = turn[c]
  BY DEF Mine
<1>5. \A a \in Attempts : a \in failed' => a \in failed \/ (MayAsk(a[1], Chain[a[2]]) /\ ~TooLate(a[1]))
  BY <1>2, <1>3, <1>4 DEF Vendor
<1>6. \A a \in Attempts : future'[a] # "none" => future[a] # "none"
  BY <1>1, <1>2 DEF EarnedInv, Inv, TypeOK
<1>7. ASSUME NEW a \in Attempts, a[1] = c, Behind(a)', MayAsk(c, Chain[a[2]])
      PROVE  a \in failed'
  <2>0. /\ turn[c] \in 1..(Len(Chain) + 1) /\ try[c] \in 1..(Retries + 1)
        /\ Len(Chain) \in Nat /\ Retries \in Nat
        /\ a[2] \in 1..Len(Chain) /\ a[3] \in 1..(Retries + 1)
    BY AttemptType DEF EarnedInv, Inv, TypeOK
  <2>1. /\ a[2] \in Nat /\ a[3] \in Nat /\ a[3] >= 1 /\ a[3] <= Retries + 1
        /\ turn[c] \in Nat /\ try[c] \in Nat /\ Retries \in Nat
    BY <2>0
  <2>2. Behind(a) \/ (a[2] = turn[c] /\ a[3] = try[c])
    <3>1. CASE try[c] <= Retries /\ turn' = turn /\ try' = [try EXCEPT ![c] = @ + 1]
      <4>1. turn'[c] = turn[c] /\ try'[c] = try[c] + 1
        BY <3>1 DEF EarnedInv, Inv, TypeOK
      <4> QED BY <1>7, <2>1, <4>1 DEF Behind
    <3>2. CASE try[c] > Retries /\ NextVendor(c)
      <4>1. turn'[c] = turn[c] + 1 /\ try'[c] = 1
        BY <3>2 DEF NextVendor, EarnedInv, Inv, TypeOK
      <4>2. a[2] <= turn[c] /\ a[3] <= try[c]
        BY <1>7, <2>1, <3>2, <4>1 DEF Behind
      <4> QED BY <1>7, <2>1, <4>2 DEF Behind
    <3> QED BY <1>1, <3>1, <3>2 DEF GivesUp
  <2>3. CASE Behind(a)
    BY <1>2, <1>7, <2>3 DEF EarnedInv, Tried
  <2>4. CASE a[2] = turn[c] /\ a[3] = try[c]
    <3>1. a = Mine(c)
      BY <1>7, <2>4, AttemptType DEF Mine
    <3> QED BY <1>2, <3>1
  <2> QED BY <2>2, <2>3, <2>4
<1>8. pc'[c] = "pool" => turn'[c] = turn[c]
  BY <1>1 DEF GivesUp, NextVendor, EarnedInv, Inv, TypeOK
<1>9. /\ \A d \in Calls \ {c} : result'[d] = result[d]
      /\ result'[c] \in {result[c], "none"} /\ failed \subseteq failed' /\ pc[c] # "done"
      /\ Others(c)
  BY <1>1, <1>2 DEF EarnedInv, Inv, TypeOK, Leaves
<1> QED BY <1>1, <1>2, <1>3, <1>5, <1>6, <1>7, <1>8, <1>9, LeavesEarned

LEMMA ThreadEarned ==
  ASSUME EarnedInv, NEW a \in Attempts, Thread(a)
  PROVE  Asks' /\ Tried' /\ Displaced'
         /\ \A d \in Calls : (answer'[d] = "none" <=> pc'[d] # "done") /\ Earned(d)'
<1>1. /\ UNCHANGED <<config, pc, turn, try, pool, answer, failed, current>>
      /\ future[a] # "none" /\ \E s : future' = [future EXCEPT ![a] = s]
      /\ \/ result' = result
         \/ /\ future[a] = "running" /\ a \notin failed
            /\ \E r \in Results : result' = [result EXCEPT ![a[1]] = r]
  BY DEF Thread, Runs, Finishes, Releases, calls
<1>2. \A d, v : MayAsk(d, v)' = MayAsk(d, v) /\ TooLate(d)' = TooLate(d)
  BY <1>1 DEF MayAsk, TooLate
<1>3. \A d \in Calls : Vendor(d)' = Vendor(d) /\ HasOther(d)' = HasOther(d)
  BY <1>1 DEF Vendor, HasOther
<1>4. \A x \in Attempts : future'[x] # "none" => future[x] # "none"
  BY <1>1 DEF EarnedInv, Inv, TypeOK
<1>5. \A d \in Calls : \/ result'[d] = result[d]
                       \/ answer[d] = "none" /\ result'[d] \in Results
  <2>1. CASE result' = result
    BY <2>1
  <2>2. CASE /\ future[a] = "running" /\ a \notin failed
             /\ \E r \in Results : result' = [result EXCEPT ![a[1]] = r]
    <3>1. pc[a[1]] = "wait" /\ a[1] \in Calls
      BY <2>2, AttemptType DEF EarnedInv, Inv, Futures
    <3>2. answer[a[1]] = "none"
      BY <3>1 DEF EarnedInv
    <3> QED BY <2>2, <3>2 DEF EarnedInv, Inv, TypeOK
  <2> QED BY <1>1, <2>1, <2>2
<1>6. Asks'
  BY <1>1, <1>2, <1>3, <1>4 DEF EarnedInv, Asks
<1>7. Tried'
  BY <1>1, <1>2 DEF EarnedInv, Tried, Behind
<1>8. "cancelled" \notin Results
  BY DEF Results
<1>9. Displaced'
  BY <1>1, <1>3, <1>5, <1>8 DEF EarnedInv, Displaced
<1>10. \A d \in Calls : (answer'[d] = "none" <=> pc'[d] # "done") /\ Earned(d)'
  BY <1>1, <1>5, OthersKeep DEF EarnedInv
<1> QED BY <1>6, <1>7, <1>9, <1>10

LEMMA EarnedNext == EarnedInv /\ [Next]_vars => EarnedInv'
<1> SUFFICES ASSUME EarnedInv, [Next]_vars PROVE EarnedInv'
  OBVIOUS
<1>1. Inv'
  BY InvNext DEF EarnedInv
<1>2. Asks' /\ Tried' /\ Displaced'
      /\ \A d \in Calls : (answer'[d] = "none" <=> pc'[d] # "done") /\ Earned(d)'
  <2>1. ASSUME NEW c \in Calls, Starts(c) \/ GoesOn(c)
        PROVE  Asks' /\ Tried' /\ Displaced'
               /\ \A d \in Calls : (answer'[d] = "none" <=> pc'[d] # "done") /\ Earned(d)'
    BY <2>1, MovesEarned, EndsEarned, SkipsEarned, GivesUpEarned, SubmitsEarned,
       ReplacesEarned DEF GoesOn
  <2>2. CASE UNCHANGED vars
    <3>1. UNCHANGED <<config, pc, turn, try, pool, answer, failed, result, current, future>>
      BY <2>2 DEF vars, calls, futures
    <3>2. Asks'
      BY <3>1 DEF EarnedInv, Asks, MayAsk, TooLate, Vendor
    <3>3. Tried'
      BY <3>1 DEF EarnedInv, Tried, Behind, MayAsk
    <3>4. Displaced'
      BY <3>1 DEF EarnedInv, Displaced, HasOther
    <3> QED BY <3>1, <3>2, <3>3, <3>4, OthersKeep DEF EarnedInv
  <2> QED BY <2>1, <2>2, ThreadEarned DEF Next
<1> QED BY <1>1, <1>2 DEF EarnedInv

\* A call gives up only when it has tried all it may ask, asks no other vendor,
\* and ends with an error of its own only if a vendor raised it or a call with
\* another number of workers took its pool away.
THEOREM AnswersEarnedHolds == Spec => []AnswersAreEarned
BY EarnedInit, EarnedNext, EarnedImplies, PTL DEF Spec
=============================================================================
