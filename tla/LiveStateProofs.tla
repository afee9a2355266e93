--------------------------- MODULE LiveStateProofs ---------------------------
(***************************************************************************)
(* Theorems about LiveState, for any number of refreshes, scenarios,       *)
(* prices and candles.                                                     *)
(*                                                                         *)
(* That an event is backed needs to know where it comes from: an event of  *)
(* a refresh that has not ended is one of the statuses that refresh found  *)
(* (Found), and a saved row is of a refresh that has ended (RowsAreDone),  *)
(* so that the row a refresh saves shows its own events and takes away     *)
(* only rows of others, which the refresh then counts as met.              *)
(*                                                                         *)
(* That a change is recorded needs to know, of every refresh that goes on, *)
(* how what it has read relates to what others saved since: it has met     *)
(* them (AllRecorded: Recorded, and Informed of each pending refresh).     *)
(* That a change is not reported twice needs, for refreshes that met no    *)
(* other, that each sees at least what the one before it saw, also when    *)
(* both have the same time (Alone).                                        *)
(***************************************************************************)
EXTENDS LiveState, SequenceTheorems, WellFoundedInduction, TLAPS

Shows(statuses, e) ==
  \E i \in DOMAIN statuses : /\ statuses[i].entity = e.entity
                             /\ statuses[i].status = e.to

Shape ==
  /\ pc \in [Refreshes -> {"new", "load", "stamp", "candles", "events", "save",
                           "done"}]
  /\ DOMAIN todo = Refreshes /\ DOMAIN now = Refreshes
  /\ DOMAIN state = Refreshes /\ DOMAIN met = Refreshes
  /\ \A e \in events : e.by \in Refreshes
  /\ \A x \in saved : x.by \in Refreshes

\* A row belongs to a refresh that has ended.
RowsAreDone == \A x \in saved : pc[x.by] = "done"

\* What is still to be saved is among what was found.
Left == \A r \in Refreshes : pc[r] = "events" => todo[r] \subseteq DOMAIN state[r][1]

\* An event of a refresh that has not ended is one of those it found.
Found ==
  \A e \in events : pc[e.by] # "done" =>
    /\ pc[e.by] \in {"events", "save"} /\ e.time = now[e.by]
    /\ Shows(state[e.by][1], e)

Backing == Shape /\ RowsAreDone /\ Left /\ Found /\ EventsAreBacked

-----------------------------------------------------------------------------
LEMMA BackingInit == Init => Backing
BY DEF Init, Backing, Shape, RowsAreDone, Left, Found, EventsAreBacked

\* The events of a refresh that has just found its state.
LEMMA BackingReadsCandles ==
  ASSUME Backing, NEW r \in Refreshes, ReadsCandles(r)
  PROVE  Backing'
<1> DEFINE view == View(seen[r], now[r])
           found == Statuses(scenario, view)
<1>1. /\ pc[r] = "candles"
      /\ pc' = [pc EXCEPT ![r] = IF Transitions(r, found) = {} THEN "save"
                                 ELSE "events"]
      /\ state' = [state EXCEPT ![r] = <<found, Action(scenario, view)>>]
      /\ todo' = [todo EXCEPT ![r] = Transitions(r, found)]
      /\ UNCHANGED <<events, saved, now, met, lost>>
  BY DEF ReadsCandles, Goes, rows
<1>2. Transitions(r, found) \subseteq DOMAIN found
  BY DEF Transitions
<1> HIDE DEF found, view
<1>3. \A e \in events : e.by # r
  BY <1>1 DEF Backing, Found
<1>4. \A x \in saved : x.by # r
  BY <1>1 DEF Backing, RowsAreDone
<1>5. Shape' /\ RowsAreDone' /\ Left'
  BY <1>1, <1>2, <1>4 DEF Backing, Shape, RowsAreDone, Left
<1>6. Found'
  BY <1>1, <1>3 DEF Backing, Shape, Found, Shows
<1>7. EventsAreBacked'
  BY <1>1, <1>3 DEF Backing, Shape, EventsAreBacked
<1> QED BY <1>5, <1>6, <1>7 DEF Backing

LEMMA BackingSavesEvent ==
  ASSUME Backing, NEW r \in Refreshes, SavesEvent(r)
  PROVE  Backing'
<1> PICK i \in todo[r] :
      /\ pc[r] = "events"
      /\ pc' = [pc EXCEPT ![r] = IF todo[r] = {i} THEN "save" ELSE "events"]
      /\ events' = Insert(events, Event(r, i))
      /\ todo' = [todo EXCEPT ![r] = @ \ {i}]
      /\ UNCHANGED <<saved, now, state, met, lost>>
  BY DEF SavesEvent, Goes
<1> DEFINE new == Event(r, i)
<1>1. /\ new.by = r /\ new.time = now[r] /\ Shows(state[r][1], new)
      /\ events' \subseteq events \cup {new}
  <2>1. i \in DOMAIN state[r][1]
    BY DEF Backing, Left
  <2>2. /\ new.by = r /\ new.time = now[r] /\ new.entity = state[r][1][i].entity
        /\ new.to = state[r][1][i].status
    BY DEF Event
  <2>3. events' \subseteq events \cup {new}
    BY DEF Insert
  <2> QED BY <2>1, <2>2, <2>3 DEF Shows
<1> HIDE DEF new
<1>2. Shape' /\ RowsAreDone' /\ Left'
  BY <1>1 DEF Backing, Shape, RowsAreDone, Left
<1>3. Found'
  BY <1>1 DEF Backing, Shape, Found, Shows
<1>4. EventsAreBacked'
  BY <1>1 DEF Backing, Shape, EventsAreBacked
<1> QED BY <1>2, <1>3, <1>4 DEF Backing

\* The row shows the events of its refresh, and a row it takes is of another,
\* which the refresh has met from now on.
LEMMA BackingSavesSnapshot ==
  ASSUME Backing, NEW r \in Refreshes, SavesSnapshot(r)
  PROVE  Backing'
<1> DEFINE old == {y \in saved : y.at = now[r]}
<1>1. PICK row :
        /\ row.at = now[r] /\ row.statuses = state[r][1] /\ row.by = r
        /\ saved' = (saved \ old) \cup {row}
  <2> DEFINE found == [at |-> now[r], statuses |-> state[r][1],
                       action |-> state[r][2], market |-> seen[r], by |-> r]
             kept == (CHOOSE y \in old : TRUE).market
             row == IF old = {} THEN found ELSE [found EXCEPT !.market = kept]
  <2>1. saved' = (saved \ old) \cup {row}
    BY DEF SavesSnapshot, Upsert
  <2>2. row.at = now[r] /\ row.statuses = state[r][1] /\ row.by = r
    <3> HIDE DEF kept
    <3> QED OBVIOUS
  <2> QED BY <2>1, <2>2
<1>2. /\ pc[r] = "save" /\ pc' = [pc EXCEPT ![r] = "done"]
      /\ met' = [met EXCEPT ![r] = @ \cup UNION {met[y.by] \cup {y.by} : y \in old}]
      /\ now' = [now EXCEPT ![r] = 0] /\ state' = [state EXCEPT ![r] = << >>]
      /\ todo' = [todo EXCEPT ![r] = {}] /\ UNCHANGED <<events, lost>>
  BY DEF SavesSnapshot, Goes, Forgets
<1>3. \A y \in old : y.by \in Refreshes \ {r}
  BY <1>2 DEF Backing, Shape, RowsAreDone
<1>4. Shape' /\ RowsAreDone' /\ Left'
  BY <1>1, <1>2 DEF Backing, Shape, RowsAreDone, Left
<1>5. Found'
  BY <1>2 DEF Backing, Shape, Found, Shows
<1>6. ASSUME NEW e \in events, e.by \notin lost, pc'[e.by] = "done"
      PROVE  \E x \in saved' : x.at = e.time /\
               IF x.by = e.by THEN Shows(x.statuses, e) ELSE met'[x.by] # {}
  <2>1. CASE e.by = r
    <3>1. row \in saved' /\ row.at = e.time /\ Shows(row.statuses, e)
      BY <1>1, <1>2, <2>1 DEF Backing, Found
    <3> QED BY <1>1, <2>1, <3>1
  <2>2. CASE e.by # r
    <3>1. PICK x \in saved : x.at = e.time /\
            IF x.by = e.by THEN Shows(x.statuses, e) ELSE met[x.by] # {}
      BY <1>2, <1>6, <2>2 DEF Backing, Shape, EventsAreBacked, Shows
    <3>2. CASE x \in old
      <4>1. row.at = e.time /\ row \in saved' /\ row.by # e.by
        BY <1>1, <2>2, <3>1, <3>2
      <4>2. x.by \in UNION {met[y.by] \cup {y.by} : y \in old}
        BY <3>2
      <4>3. met'[r] = met[r] \cup UNION {met[y.by] \cup {y.by} : y \in old}
        BY <1>2 DEF Backing, Shape
      <4>4. met'[r] # {}
        BY <4>2, <4>3
      <4> QED BY <1>1, <4>1, <4>4
    <3>3. CASE x \notin old
      <4>1. x \in saved' /\ met'[x.by] = met[x.by]
        BY <1>1, <1>2, <3>3 DEF Backing, Shape, RowsAreDone
      <4> QED BY <3>1, <4>1
    <3> QED BY <3>2, <3>3
  <2> QED BY <2>1, <2>2
<1>7. EventsAreBacked'
  BY <1>2, <1>6 DEF EventsAreBacked, Shows
<1> QED BY <1>4, <1>5, <1>7 DEF Backing

\* The other steps of a refresh save nothing.
LEMMA BackingOther ==
  ASSUME Backing, NEW r \in Refreshes,
         ReadsPrevious(r) \/ ReadsMarket(r) \/ Stamps(r) \/ Dies(r)
  PROVE  Backing'
<1>1. CASE ReadsPrevious(r)
  <2>1. /\ pc[r] = "new" /\ pc' = [pc EXCEPT ![r] = "load"]
        /\ DOMAIN met' = Refreshes /\ \A q \in Refreshes : met[q] \subseteq met'[q] \/ q = r
        /\ UNCHANGED <<events, saved, now, state, todo, lost>>
    BY <1>1 DEF ReadsPrevious, Goes, rows
  <2>2. Shape' /\ RowsAreDone' /\ Left' /\ Found'
    BY <2>1 DEF Backing, Shape, RowsAreDone, Left, Found, Shows
  <2>3. \A x \in saved : met[x.by] \subseteq met'[x.by]
    BY <2>1 DEF Backing, Shape, RowsAreDone
  <2>4. EventsAreBacked'
    BY <2>1, <2>3 DEF Backing, Shape, EventsAreBacked
  <2> QED BY <2>2, <2>4 DEF Backing
<1>2. CASE ReadsMarket(r)
  BY <1>2 DEF ReadsMarket, Goes, rows, Backing, Shape, RowsAreDone, Left, Found,
              Shows, EventsAreBacked
<1>3. CASE Stamps(r)
  <2>1. /\ pc[r] = "stamp" /\ pc' = [pc EXCEPT ![r] = "candles"]
        /\ now' = [now EXCEPT ![r] = clock]
        /\ UNCHANGED <<events, saved, state, todo, met, lost>>
    BY <1>3 DEF Stamps, Goes, rows
  <2>2. \A e \in events : e.by # r
    BY <2>1 DEF Backing, Found
  <2>3. Shape' /\ RowsAreDone' /\ Left' /\ Found'
    BY <2>1, <2>2 DEF Backing, Shape, RowsAreDone, Left, Found, Shows
  <2>4. EventsAreBacked'
    BY <2>1, <2>2 DEF Backing, Shape, EventsAreBacked
  <2> QED BY <2>3, <2>4 DEF Backing
<1>4. CASE Dies(r)
  <2>1. /\ pc' = [pc EXCEPT ![r] = "done"] /\ lost' = lost \cup {r}
        /\ now' = [now EXCEPT ![r] = 0] /\ state' = [state EXCEPT ![r] = << >>]
        /\ todo' = [todo EXCEPT ![r] = {}] /\ UNCHANGED <<events, saved, met>>
    BY <1>4 DEF Dies, Forgets, rows
  <2>2. Shape' /\ RowsAreDone' /\ Left' /\ Found'
    BY <2>1 DEF Backing, Shape, RowsAreDone, Left, Found, Shows
  <2>3. EventsAreBacked'
    BY <2>1 DEF Backing, Shape, EventsAreBacked
  <2> QED BY <2>2, <2>3 DEF Backing
<1> QED BY <1>1, <1>2, <1>3, <1>4

LEMMA BackingTick ==
  ASSUME Backing, Tick \/ UNCHANGED vars
  PROVE  Backing'
<1>1. UNCHANGED <<pc, events, saved, now, state, todo, met, lost>>
  BY DEF Tick, vars, rows
<1> QED BY <1>1 DEF Backing, Shape, RowsAreDone, Left, Found, Shows,
                    EventsAreBacked

LEMMA BackingNext == Backing /\ [Next]_vars => Backing'
BY BackingReadsCandles, BackingSavesEvent, BackingSavesSnapshot, BackingOther,
   BackingTick DEF Next, Refresh

\* Every event has the snapshot of its refresh, or of one that took its row.
THEOREM EventsBacked == Spec => []EventsAreBacked
<1>2. Backing => EventsAreBacked
  BY DEF Backing
<1> QED BY BackingInit, BackingNext, <1>2, PTL DEF Spec

-----------------------------------------------------------------------------
(* Types.  An event has the time of its refresh, which is stamped before it  *)
(* evaluates, and reports a place whose status differs from the one before.  *)

Typed ==
  /\ TypeOK
  /\ market \in Seq([price : Prices, captured : Nat]) /\ clock \in Nat \ {0}
  /\ DOMAIN prev = Refreshes /\ DOMAIN state = Refreshes /\ DOMAIN todo = Refreshes
  /\ \A r \in Refreshes :
       /\ pc[r] \in {"candles", "events", "save"} => now[r] # 0
       /\ \A i \in todo[r] : /\ state[r][1][i].status \in Reported
                             /\ Before(r, i) # state[r][1][i].status

LEMMA TypedInit == Init => Typed
<1> SUFFICES ASSUME Init PROVE Typed
  OBVIOUS
<1>1. /\ market \in Seq([price : Prices, captured : Nat]) /\ clock = 1
      /\ \A i \in DOMAIN market : market[i].price \in Prices
                                  /\ market[i].captured \in 0..clock
      /\ Len(market) \in Nat
  <2>1. CASE market = << >>
    BY <2>1 DEF Init
  <2>2. CASE \E p \in Opened : market = <<[price |-> p, captured |-> 1]>>
    <3>1. PICK p \in Prices : market = <<[price |-> p, captured |-> 1]>>
      BY <2>2, LiveStateAssumption
    <3>2. [price |-> p, captured |-> 1] \in [price : Prices, captured : Nat]
      OBVIOUS
    <3> QED BY <3>1, <3>2 DEF Init
  <2> QED BY <2>1, <2>2 DEF Init
<1>2. 0 \in 0..Len(market)
  BY <1>1
<1> QED BY <1>1, <1>2 DEF Init, Typed, TypeOK

LEMMA TypedTick ==
  ASSUME Typed, Tick
  PROVE  Typed'
<1>1. /\ clock' = clock + 1
      /\ \/ \E p \in Prices : market' = Append(market, [price |-> p, captured |-> clock'])
         \/ market' = market
      /\ UNCHANGED <<scenario, events, saved, pc, prev, seen, now, state, todo,
                     met, lost>>
  BY DEF Tick, MarketMoves, rows
<1>2. /\ market' \in Seq([price : Prices, captured : Nat])
      /\ Len(market) <= Len(market')
      /\ \A i \in DOMAIN market' : market'[i].price \in Prices
                                   /\ market'[i].captured \in 0..clock'
  <2>1. CASE market' = market
    BY <1>1, <2>1 DEF Typed, TypeOK
  <2>2. CASE \E p \in Prices : market' = Append(market, [price |-> p, captured |-> clock'])
    <3>1. PICK p \in Prices : market' = Append(market, [price |-> p, captured |-> clock'])
      BY <2>2
    <3>2. clock' \in Nat /\ market \in Seq([price : Prices, captured : Nat])
      BY <1>1 DEF Typed
    <3> QED BY <1>1, <3>1, <3>2 DEF Typed, TypeOK
  <2> QED BY <1>1, <2>1, <2>2
<1>3. clock' \in Nat \ {0} /\ Len(market) \in Nat /\ Len(market') \in Nat
  BY <1>1, <1>2 DEF Typed
<1>4. \A r \in Refreshes : \A i \in todo'[r] : Before(r, i)' = Before(r, i)
  BY <1>1 DEF Before
<1>5. /\ \A e \in events' : /\ e.to \in Reported /\ e.to # e.from
                            /\ e.time \in 1..clock' /\ e.market \in Nat
      /\ \A x \in saved' : /\ x.at \in 1..clock' /\ x.by \in Refreshes
                           /\ x.market \in 0..Len(market')
  BY <1>1, <1>2, <1>3 DEF Typed, TypeOK
<1>6. seen' \in [Refreshes -> 0..Len(market')] /\ now' \in [Refreshes -> 0..clock']
  <2>1. 0..Len(market) \subseteq 0..Len(market') /\ 0..clock \subseteq 0..clock'
    BY <1>1, <1>2, <1>3 DEF Typed
  <2> QED BY <1>1, <2>1 DEF Typed, TypeOK
<1>7. TypeOK'
  BY <1>1, <1>2, <1>5, <1>6 DEF Typed, TypeOK
<1> QED BY <1>1, <1>2, <1>3, <1>4, <1>7 DEF Typed

LEMMA TypedReads ==
  ASSUME Typed, NEW r \in Refreshes, ReadsPrevious(r) \/ ReadsMarket(r) \/ Stamps(r)
  PROVE  Typed'
<1>1. /\ pc[r] \in {"new", "load", "stamp"}
      /\ UNCHANGED <<scenario, market, clock, events, saved, state, todo, lost>>
  BY DEF ReadsPrevious, ReadsMarket, Stamps, Goes, world, rows
<1>2. todo[r] = {}
  BY <1>1 DEF Typed, TypeOK
<1>3. /\ DOMAIN prev' = Refreshes
      /\ \A q \in Refreshes \ {r} : prev'[q] = prev[q]
  BY DEF ReadsPrevious, ReadsMarket, Stamps, Typed
<1>4. \A q \in Refreshes : \A i \in todo'[q] : Before(q, i)' = Before(q, i)
  BY <1>1, <1>2, <1>3 DEF Before
<1>5. pc' \in [Refreshes -> {"new", "load", "stamp", "candles", "events", "save",
                           "done"}]
      /\ (\A q \in Refreshes : todo'[q] # {} <=> pc'[q] = "events")
  BY <1>1 DEF ReadsPrevious, ReadsMarket, Stamps, Goes, Typed, TypeOK
<1>6. /\ seen' \in [Refreshes -> 0..Len(market)] /\ now' \in [Refreshes -> 0..clock]
      /\ \A q \in Refreshes : pc'[q] \in {"candles", "events", "save"} => now'[q] # 0
  <2>1. CASE ReadsPrevious(r)
    BY <2>1 DEF ReadsPrevious, Goes, Typed, TypeOK
  <2>2. CASE ReadsMarket(r)
    <3>1. Len(market) \in Nat /\ Len(market) \in 0..Len(market)
      BY DEF Typed
    <3> QED BY <2>2, <3>1 DEF ReadsMarket, Goes, Typed, TypeOK
  <2>3. CASE Stamps(r)
    <3>1. clock \in 0..clock /\ clock # 0
      BY DEF Typed
    <3> QED BY <2>3, <3>1 DEF Stamps, Goes, Typed, TypeOK
  <2> QED BY <2>1, <2>2, <2>3
<1>7. met' \in [Refreshes -> SUBSET Refreshes]
  <2>1. CASE ReadsPrevious(r)
    <3>1. Pending \subseteq Refreshes
      BY DEF Pending
    <3>2. \A q \in Refreshes : met[q] \subseteq Refreshes
      BY DEF Typed, TypeOK
    <3> QED BY <2>1, <3>1, <3>2 DEF ReadsPrevious
  <2>2. CASE ReadsMarket(r) \/ Stamps(r)
    BY <2>2 DEF ReadsMarket, Stamps, Typed, TypeOK
  <2> QED BY <2>1, <2>2
<1> QED BY <1>1, <1>3, <1>4, <1>5, <1>6, <1>7 DEF Typed, TypeOK

LEMMA TypedReadsCandles ==
  ASSUME Typed, NEW r \in Refreshes, ReadsCandles(r)
  PROVE  Typed'
<1> DEFINE view == View(seen[r], now[r])
           found == Statuses(scenario, view)
<1>1. /\ pc[r] = "candles"
      /\ pc' = [pc EXCEPT ![r] = IF Transitions(r, found) = {} THEN "save"
                                 ELSE "events"]
      /\ state' = [state EXCEPT ![r] = <<found, Action(scenario, view)>>]
      /\ todo' = [todo EXCEPT ![r] = Transitions(r, found)]
      /\ UNCHANGED <<scenario, market, clock, events, saved, prev, seen, now,
                     met, lost>>
  BY DEF ReadsCandles, Goes, world, rows
<1> HIDE DEF found, view
<1>2. \A q \in Refreshes : \A i : Before(q, i)' = Before(q, i)
  BY <1>1 DEF Before
<1>3. /\ state'[r][1] = found /\ todo'[r] = Transitions(r, found)
      /\ \A q \in Refreshes \ {r} : state'[q] = state[q] /\ todo'[q] = todo[q]
                                    /\ pc'[q] = pc[q]
      /\ pc'[r] = IF todo'[r] = {} THEN "save" ELSE "events"
  BY <1>1 DEF Typed, TypeOK
<1>4. \A i \in todo'[r] : /\ state'[r][1][i].status \in Reported
                          /\ Before(r, i) # state'[r][1][i].status
  <2>1. \A i \in Transitions(r, found) :
          found[i].status \in Reported /\ Before(r, i) # found[i].status
    BY DEF Transitions
  <2> QED BY <1>3, <2>1
<1>5. /\ pc' \in [Refreshes -> {"new", "load", "stamp", "candles", "events", "save",
                           "done"}]
      /\ DOMAIN state' = Refreshes /\ DOMAIN todo' = Refreshes
      /\ \A q \in Refreshes : todo'[q] # {} <=> pc'[q] = "events"
  <2>1. DOMAIN state' = Refreshes /\ DOMAIN todo' = Refreshes
    BY <1>1 DEF Typed
  <2>2. pc' \in [Refreshes -> {"new", "load", "stamp", "candles", "events", "save",
                               "done"}]
    BY <1>1 DEF Typed, TypeOK
  <2>3. \A q \in Refreshes : todo'[q] # {} <=> pc'[q] = "events"
    BY <1>3 DEF Typed, TypeOK
  <2> QED BY <2>1, <2>2, <2>3
<1>6. TypeOK'
  BY <1>1, <1>5 DEF Typed, TypeOK
<1>7. \A q \in Refreshes : \A i \in todo'[q] :
        state'[q][1][i].status \in Reported /\ Before(q, i)' # state'[q][1][i].status
  BY <1>2, <1>3, <1>4 DEF Typed
<1>8. \A q \in Refreshes : pc'[q] \in {"candles", "events", "save"} => now'[q] # 0
  BY <1>1, <1>3 DEF Typed
<1> QED BY <1>1, <1>5, <1>6, <1>7, <1>8 DEF Typed

LEMMA TypedSavesEvent ==
  ASSUME Typed, NEW r \in Refreshes, SavesEvent(r)
  PROVE  Typed'
<1> PICK i \in todo[r] :
      /\ pc[r] = "events"
      /\ pc' = [pc EXCEPT ![r] = IF todo[r] = {i} THEN "save" ELSE "events"]
      /\ events' = Insert(events, Event(r, i))
      /\ todo' = [todo EXCEPT ![r] = @ \ {i}]
      /\ UNCHANGED <<scenario, market, clock, saved, prev, seen, now, state,
                     met, lost>>
  BY DEF SavesEvent, Goes, world
<1>1. \A q \in Refreshes : \A j : Before(q, j)' = Before(q, j)
  BY DEF Before
<1>2. events' \subseteq events \cup {Event(r, i)}
  BY DEF Insert
<1>3. Place(r) \in Nat
  <2>1. seen[r] \in Nat /\ now[r] \in Nat
    BY DEF Typed, TypeOK
  <2> QED BY <2>1, LiveStateAssumption DEF Place
<1>4. now[r] \in 1..clock
  BY DEF Typed, TypeOK
<1>5. Event(r, i).to \in Reported /\ Event(r, i).to # Event(r, i).from
      /\ Event(r, i).time \in 1..clock /\ Event(r, i).market \in Nat
  BY <1>3, <1>4 DEF Event, Typed
<1>6. \A e \in events' : /\ e.to \in Reported /\ e.to # e.from
                         /\ e.time \in 1..clock /\ e.market \in Nat
  BY <1>2, <1>5 DEF Typed, TypeOK
<1>7. /\ pc' \in [Refreshes -> {"new", "load", "stamp", "candles", "events", "save",
                           "done"}]
      /\ DOMAIN todo' = Refreshes
      /\ \A q \in Refreshes : todo'[q] # {} <=> pc'[q] = "events"
  BY DEF Typed, TypeOK
<1>8. \A q \in Refreshes :
        /\ todo'[q] \subseteq todo[q]
        /\ pc'[q] \in {"candles", "events", "save"} => now'[q] # 0
  BY DEF Typed, TypeOK
<1> QED BY <1>1, <1>6, <1>7, <1>8 DEF Typed, TypeOK

LEMMA TypedEnds ==
  ASSUME Typed, NEW r \in Refreshes, SavesSnapshot(r) \/ Dies(r)
  PROVE  Typed'
<1>1. /\ pc' = [pc EXCEPT ![r] = "done"]
      /\ prev' = [prev EXCEPT ![r] = << >>] /\ now' = [now EXCEPT ![r] = 0]
      /\ state' = [state EXCEPT ![r] = << >>] /\ todo' = [todo EXCEPT ![r] = {}]
      /\ UNCHANGED <<scenario, market, clock, events, seen>>
  BY DEF SavesSnapshot, Dies, Goes, Forgets, world, rows
<1>2. \A q \in Refreshes : \A i \in todo'[q] : q # r /\ Before(q, i)' = Before(q, i)
  BY <1>1 DEF Before, Typed
<1>3. /\ pc' \in [Refreshes -> {"new", "load", "stamp", "candles", "events", "save",
                           "done"}]
      /\ DOMAIN todo' = Refreshes /\ DOMAIN prev' = Refreshes /\ DOMAIN state' = Refreshes
      /\ \A q \in Refreshes : todo'[q] # {} <=> pc'[q] = "events"
      /\ now' \in [Refreshes -> 0..clock]
      /\ \A q \in Refreshes : pc'[q] \in {"candles", "events", "save"} => now'[q] # 0
  BY <1>1 DEF Typed, TypeOK
<1>4. \A q \in Refreshes : \A i \in todo'[q] :
        state'[q][1][i].status \in Reported /\ Before(q, i)' # state'[q][1][i].status
  BY <1>1, <1>2 DEF Typed
<1>5. /\ \A x \in saved' : /\ x.at \in 1..clock /\ x.by \in Refreshes
                           /\ x.market \in 0..Len(market)
      /\ \A x, y \in saved' : x.at = y.at => x = y
      /\ met' \in [Refreshes -> SUBSET Refreshes] /\ lost' \subseteq Refreshes
  <2>1. CASE Dies(r)
    BY <2>1 DEF Dies, Typed, TypeOK, rows
  <2>2. CASE SavesSnapshot(r)
    <3> DEFINE found == [at |-> now[r], statuses |-> state[r][1],
                         action |-> state[r][2], market |-> seen[r], by |-> r]
               old == {y \in saved : y.at = now[r]}
               kept == (CHOOSE y \in old : TRUE).market
               row == IF old = {} THEN found ELSE [found EXCEPT !.market = kept]
    <3>1. saved' = (saved \ old) \cup {row}
      BY <2>2 DEF SavesSnapshot, Upsert
    <3>2. old # {} => kept \in 0..Len(market)
      BY DEF Typed, TypeOK
    <3>3. /\ row.at = now[r] /\ row.by = r /\ now[r] \in 1..clock
          /\ row.market \in 0..Len(market)
      <4>1. now[r] \in 1..clock
        BY <2>2 DEF SavesSnapshot, Goes, Typed, TypeOK
      <4>2. seen[r] \in 0..Len(market)
        BY DEF Typed, TypeOK
      <4> HIDE DEF kept, old
      <4> QED BY <3>2, <4>1, <4>2
    <3>4. \A x \in saved \ old : x.at # now[r]
      OBVIOUS
    <3>5. met' \in [Refreshes -> SUBSET Refreshes] /\ lost' = lost
      BY <2>2 DEF SavesSnapshot, Typed, TypeOK
    <3> HIDE DEF row, old
    <3> QED BY <3>1, <3>3, <3>4, <3>5 DEF Typed, TypeOK, old
  <2> QED BY <2>1, <2>2
<1> QED BY <1>1, <1>3, <1>4, <1>5 DEF Typed, TypeOK

LEMMA TypedNext == Typed /\ [Next]_vars => Typed'
<1>1. CASE UNCHANGED vars
  BY <1>1 DEF Typed, TypeOK, vars, world, rows, Before
<1> QED BY <1>1, TypedTick, TypedReads, TypedReadsCandles, TypedSavesEvent,
           TypedEnds DEF Next, Refresh

\* Type correctness.
THEOREM TypeCorrect == Spec => []TypeOK
<1>2. Typed => TypeOK
  BY DEF Typed
<1> QED BY TypedInit, TypedNext, <1>2, PTL DEF Spec

-----------------------------------------------------------------------------
(* Entries.  What an evaluation recommends is justified by the statuses it   *)
(* found with it, and those and the market snapshot stay what they are until *)
(* and after they are saved.                                                 *)

Justified(s, statuses, action, snapshot, stale) ==
  action \in Entries \ {s.fallback} =>
    /\ statuses[1].status = "triggered" /\ statuses[2].status = "valid"
    /\ \A i \in DOMAIN s.entry :
         s.entry[i].role \in {"none", "trigger", "entry", "confirmation"}
           => statuses[2 + i].status = "passed"
    /\ snapshot > 0 /\ ~stale
    /\ s.confidence >= 700

JustifiedInv ==
  /\ Typed /\ Backing
  /\ \A r \in Refreshes : pc[r] \in {"events", "save"} =>
       Justified(scenario, state[r][1], state[r][2], seen[r], Stale(seen[r], now[r]))
  /\ EntryIsJustified

LEMMA Prefix ==
  ASSUME NEW S, NEW a \in Seq(S), NEW b \in Seq(S)
  PROVE  /\ a \o b \in Seq(S) /\ Len(a \o b) = Len(a) + Len(b)
         /\ \A k \in 1..Len(a) : k \in 1..Len(a \o b) /\ (a \o b)[k] = a[k]
         /\ \A i \in 1..Len(b) : (a \o b)[Len(a) + i] = b[i]
<1>1. Len(a) \in Nat /\ Len(b) \in Nat
  OBVIOUS
<1>2. /\ a \o b \in Seq(S) /\ Len(a \o b) = Len(a) + Len(b)
      /\ \A i \in 1..Len(a) + Len(b) :
           (a \o b)[i] = IF i <= Len(a) THEN a[i] ELSE b[i - Len(a)]
  BY ConcatProperties
<1>3. ASSUME NEW k \in 1..Len(a) PROVE k \in 1..Len(a) + Len(b) /\ (a \o b)[k] = a[k]
  BY <1>1, <1>2
<1>4. ASSUME NEW i \in 1..Len(b) PROVE (a \o b)[Len(a) + i] = b[i]
  <2>1. Len(a) + i \in 1..Len(a) + Len(b) /\ ~(Len(a) + i <= Len(a))
        /\ (Len(a) + i) - Len(a) = i
    BY <1>1
  <2> QED BY <1>2, <2>1
<1> QED BY <1>2, <1>3, <1>4

\* The first rows of the state are the trigger, the validity and the entry
\* conditions, in this order.
LEMMA FirstRows ==
  ASSUME NEW s \in Scenarios, NEW v
  PROVE  /\ Statuses(s, v)[1].status = TriggerStatus(s, v)
         /\ Statuses(s, v)[2].status = Validity(s, v)
         /\ \A i \in DOMAIN s.entry :
              Statuses(s, v)[2 + i] = Rows(s.entry, "entry", v)[i]
<1> DEFINE head == <<[entity |-> "trigger", status |-> TriggerStatus(s, v)],
                     [entity |-> "validity", status |-> Validity(s, v)]>>
           en == Rows(s.entry, "entry", v)
           inv == Rows(s.invalidation, "invalidation", v)
           av == Rows(s.avoid, "avoid", v)
           ta == TargetRows(s, v)
           S == {head[i] : i \in 1..2} \cup {en[i] : i \in DOMAIN en}
                \cup {inv[i] : i \in DOMAIN inv} \cup {av[i] : i \in DOMAIN av}
                \cup {ta[i] : i \in DOMAIN ta}
<1>1. /\ Len(s.entry) \in Nat /\ DOMAIN s.entry = 1..Len(s.entry)
      /\ Len(s.invalidation) \in Nat /\ DOMAIN s.invalidation = 1..Len(s.invalidation)
      /\ Len(s.avoid) \in Nat /\ DOMAIN s.avoid = 1..Len(s.avoid)
      /\ Len(s.targets) \in Nat /\ DOMAIN s.targets = 1..Len(s.targets)
  BY LiveStateAssumption
<1>2. en \in Seq(S) /\ Len(en) = Len(s.entry)
  <2>1. en = [i \in 1..Len(s.entry) |-> en[i]] /\ \A i \in 1..Len(s.entry) : en[i] \in S
    BY <1>1 DEF Rows
  <2> QED BY <1>1, <2>1
<1>3. inv \in Seq(S)
  <2>1. inv = [i \in 1..Len(s.invalidation) |-> inv[i]]
        /\ \A i \in 1..Len(s.invalidation) : inv[i] \in S
    BY <1>1 DEF Rows
  <2> QED BY <1>1, <2>1
<1>4. av \in Seq(S)
  <2>1. av = [i \in 1..Len(s.avoid) |-> av[i]] /\ \A i \in 1..Len(s.avoid) : av[i] \in S
    BY <1>1 DEF Rows
  <2> QED BY <1>1, <2>1
<1>5. ta \in Seq(S)
  <2>1. ta = [i \in 1..Len(s.targets) |-> ta[i]] /\ \A i \in 1..Len(s.targets) : ta[i] \in S
    BY <1>1 DEF TargetRows
  <2> QED BY <1>1, <2>1
<1>6. head \in Seq(S) /\ Len(head) = 2
  <2>1. head[1] \in S /\ head[2] \in S
    OBVIOUS
  <2> HIDE DEF S
  <2> QED BY <2>1
<1>7. Statuses(s, v) = head \o en \o inv \o av \o ta
  BY DEF Statuses
<1>8. head[1].status = TriggerStatus(s, v) /\ head[2].status = Validity(s, v)
  OBVIOUS
<1> HIDE DEF S, head, en, inv, av, ta
<1> DEFINE two == head \o en
           three == two \o inv
           four == three \o av
<1>9. /\ two \in Seq(S) /\ Len(two) = 2 + Len(en)
      /\ \A k \in 1..2 : k \in 1..Len(two) /\ two[k] = head[k]
      /\ \A i \in 1..Len(en) : two[2 + i] = en[i]
  <2>1. /\ two \in Seq(S) /\ Len(two) = Len(head) + Len(en)
        /\ \A k \in 1..Len(head) : k \in 1..Len(two) /\ two[k] = head[k]
        /\ \A i \in 1..Len(en) : two[Len(head) + i] = en[i]
    <3>1. head \o en \in Seq(S) /\ Len(head \o en) = Len(head) + Len(en)
      BY <1>2, <1>6, Prefix
    <3>2. \A k \in 1..Len(head) : k \in 1..Len(head \o en) /\ (head \o en)[k] = head[k]
      BY <1>2, <1>6, Prefix
    <3>3. ASSUME NEW i \in 1..Len(en) PROVE (head \o en)[Len(head) + i] = en[i]
      <4>1. PICK a \in Seq(S), b \in Seq(S) : a = head /\ b = en
        BY <1>2, <1>6
      <4>2. \A j \in 1..Len(b) : (a \o b)[Len(a) + j] = b[j]
        BY Prefix
      <4> QED BY <4>1, <4>2
    <3> QED BY <3>1, <3>2, <3>3
  <2> HIDE DEF two
  <2> QED BY <1>6, <2>1
<1> HIDE DEF two
<1>10. ASSUME NEW k \in 1..Len(two) PROVE Statuses(s, v)[k] = two[k]
  <2>1. three \in Seq(S) /\ k \in 1..Len(three) /\ three[k] = two[k]
    BY <1>3, <1>9, Prefix
  <2> HIDE DEF three
  <2>2. four \in Seq(S) /\ k \in 1..Len(four) /\ four[k] = three[k]
    BY <1>4, <2>1, Prefix
  <2>3. Statuses(s, v) = four \o ta
    BY <1>7 DEF four, three, two
  <2> HIDE DEF four
  <2> QED BY <1>5, <2>1, <2>2, <2>3, Prefix
<1>11. Len(en) \in Nat /\ \A i \in DOMAIN s.entry : i \in 1..Len(en) /\ 2 + i \in 1..Len(two)
  BY <1>1, <1>2, <1>9
<1>12. \A i \in DOMAIN s.entry : Statuses(s, v)[2 + i] = en[i]
  BY <1>9, <1>10, <1>11
<1>13. Statuses(s, v)[1] = head[1] /\ Statuses(s, v)[2] = head[2]
  BY <1>9, <1>10, <1>11
<1> QED BY <1>8, <1>12, <1>13 DEF en

\* An action that enters, and is not the fallback, is the preferred one of a
\* trigger that nothing blocks.
LEMMA EntryActs ==
  ASSUME NEW s, NEW v, Action(s, v) \in Entries \ {s.fallback}
  PROVE  /\ TriggerStatus(s, v) = "triggered" /\ ~Blocked(s, v)
         /\ s.confidence >= 700 /\ ~v.stale /\ v.price # 0
<1>1. Safe(s.fallback) \notin Entries
  BY DEF Safe, Entries
<1>2. Consider(s) \notin Entries
  BY DEF Consider, Entries
<1>3. "review" \notin Entries
  BY DEF Entries
<1> QED BY <1>1, <1>2, <1>3 DEF Action

LEMMA EntryJustifies ==
  ASSUME NEW s \in Scenarios, Typed, NEW snapshot \in 0..Len(market),
         NEW time
  PROVE  Justified(s, Statuses(s, View(snapshot, time)), Action(s, View(snapshot, time)),
                   snapshot, Stale(snapshot, time))
<1> DEFINE v == View(snapshot, time)
<1> SUFFICES ASSUME Action(s, v) \in Entries \ {s.fallback}
             PROVE  /\ Statuses(s, v)[1].status = "triggered"
                    /\ Statuses(s, v)[2].status = "valid"
                    /\ \A i \in DOMAIN s.entry :
                         s.entry[i].role \in {"none", "trigger", "entry", "confirmation"}
                           => Statuses(s, v)[2 + i].status = "passed"
                    /\ snapshot > 0 /\ ~Stale(snapshot, time) /\ s.confidence >= 700
  BY DEF Justified
<1>0. snapshot \in Nat
  BY DEF Typed
<1>v. v.stale = Stale(snapshot, time) /\ (snapshot = 0 => v.price = 0)
  BY DEF View
<1> HIDE DEF v
<1>1. /\ TriggerStatus(s, v) = "triggered" /\ ~Blocked(s, v)
      /\ s.confidence >= 700 /\ ~v.stale /\ v.price # 0
  BY EntryActs
<1>2. /\ Statuses(s, v)[1].status = TriggerStatus(s, v)
      /\ Statuses(s, v)[2].status = Validity(s, v)
      /\ \A i \in DOMAIN s.entry : Statuses(s, v)[2 + i] = Rows(s.entry, "entry", v)[i]
  BY FirstRows
<1>3. Validity(s, v) = "valid"
  BY <1>1 DEF Blocked
<1>4. ASSUME NEW i \in DOMAIN s.entry,
             s.entry[i].role \in {"none", "trigger", "entry", "confirmation"}
      PROVE  Rows(s.entry, "entry", v)[i].status = "passed"
  <2>1. Evaluated(s.entry[i], v) = "passed"
    <3>1. CASE s.entry[i].role = "confirmation"
      BY <1>1, <3>1 DEF Blocked, Unconfirmed, Confirmations
    <3>2. CASE s.entry[i].role # "confirmation"
      <4>1. i \in Starts(s)
        BY <1>4, <3>2 DEF Starts
      <4> QED BY <1>1, <4>1 DEF Blocked
    <3> QED BY <3>1, <3>2
  <2> DEFINE role == IF s.entry[i].role = "none" THEN "entry" ELSE s.entry[i].role
  <2>2. role \notin {"invalidation", "avoid"}
    BY <1>4
  <2>3. Rows(s.entry, "entry", v)[i].status = RowStatus(s.entry[i], role, v)
    BY <1>4 DEF Rows
  <2> HIDE DEF role
  <2> QED BY <2>1, <2>2, <2>3 DEF RowStatus
<1> QED BY <1>0, <1>1, <1>2, <1>3, <1>4, <1>v

LEMMA JustifiedInit == Init => JustifiedInv
<1>1. Init => Typed /\ Backing
  BY TypedInit, BackingInit
<1> QED BY <1>1 DEF Init, JustifiedInv, EntryIsJustified

\* A market snapshot is never changed.
LEMMA StaleStays ==
  ASSUME Typed, UNCHANGED market \/ MarketMoves, NEW snapshot \in 0..Len(market), NEW time
  PROVE  Stale(snapshot, time)' = Stale(snapshot, time)
<1>1. Len(market) \in Nat /\ market \in Seq([price : Prices, captured : Nat])
  BY DEF Typed
<1>2. snapshot # 0 => market'[snapshot] = market[snapshot]
  <2>1. CASE MarketMoves
    <3>1. PICK p \in Prices : market' = Append(market, [price |-> p, captured |-> clock'])
      BY <2>1 DEF MarketMoves
    <3> QED BY <1>1, <3>1
  <2> QED BY <2>1
<1> QED BY <1>2 DEF Stale

\* What the invariant says of a refresh, and of a row.
FoundJustified(r) ==
  Justified(scenario, state[r][1], state[r][2], seen[r], Stale(seen[r], now[r]))
RowJustified(x) ==
  Justified(scenario, x.statuses, x.action, seen[x.by], Stale(seen[x.by], x.at))

LEMMA RowsJustified == EntryIsJustified <=> \A x \in saved : RowJustified(x)
BY DEF EntryIsJustified, RowJustified, Justified

LEMMA FoundStays ==
  ASSUME Typed, UNCHANGED scenario, UNCHANGED market \/ MarketMoves,
         NEW r \in Refreshes, FoundJustified(r),
         state'[r] = state[r], seen'[r] = seen[r], now'[r] = now[r]
  PROVE  FoundJustified(r)'
<1>1. seen[r] \in 0..Len(market)
  BY DEF Typed, TypeOK
<1>2. Stale(seen[r], now[r])' = Stale(seen[r], now[r])
  <2>1. PICK snapshot \in 0..Len(market) : snapshot = seen[r]
    BY <1>1
  <2>2. Stale(snapshot, now[r])' = Stale(snapshot, now[r])
    BY StaleStays
  <2> QED BY <2>1, <2>2 DEF Stale
<1> QED BY <1>2 DEF FoundJustified

LEMMA RowStays ==
  ASSUME Typed, UNCHANGED scenario, UNCHANGED market \/ MarketMoves,
         NEW x \in saved, RowJustified(x), seen'[x.by] = seen[x.by]
  PROVE  RowJustified(x)'
<1>1. seen[x.by] \in 0..Len(market)
  BY DEF Typed, TypeOK
<1>2. Stale(seen[x.by], x.at)' = Stale(seen[x.by], x.at)
  <2>1. PICK snapshot \in 0..Len(market) : snapshot = seen[x.by]
    BY <1>1
  <2>2. Stale(snapshot, x.at)' = Stale(snapshot, x.at)
    BY StaleStays
  <2> QED BY <2>1, <2>2 DEF Stale
<1> QED BY <1>2 DEF RowJustified

LEMMA JustifiedRefresh ==
  ASSUME JustifiedInv, NEW r \in Refreshes, Refresh(r)
  PROVE  /\ \A q \in Refreshes : pc'[q] \in {"events", "save"} => FoundJustified(q)'
         /\ \A x \in saved' : RowJustified(x)'
<1>t. Typed /\ Backing /\ UNCHANGED <<scenario, market>>
  BY DEF JustifiedInv, Refresh, ReadsPrevious, ReadsMarket, Stamps, ReadsCandles,
         SavesEvent, SavesSnapshot, Dies, world
<1>f. \A q \in Refreshes : pc[q] \in {"events", "save"} => FoundJustified(q)
  BY DEF JustifiedInv, FoundJustified
<1>o. \A x \in saved : x.by \in Refreshes /\ pc[x.by] = "done" /\ RowJustified(x)
  BY <1>t, RowsJustified DEF JustifiedInv, Backing, Shape, RowsAreDone
<1>5. CASE ReadsPrevious(r) \/ ReadsMarket(r) \/ Stamps(r)
  <2>1. /\ pc[r] \in {"new", "load", "stamp"} /\ pc'[r] \notin {"events", "save"}
        /\ \A q \in Refreshes \ {r} : pc'[q] = pc[q] /\ seen'[q] = seen[q] /\ now'[q] = now[q]
        /\ UNCHANGED <<saved, state>>
    BY <1>5, <1>t DEF ReadsPrevious, ReadsMarket, Stamps, Goes, rows, Typed, TypeOK
  <2>2. \A x \in saved : x.by \in Refreshes \ {r}
    BY <1>o, <2>1
  <2> QED BY <1>f, <1>o, <1>t, <2>1, <2>2, FoundStays, RowStays
<1>6. CASE ReadsCandles(r)
  <2> DEFINE view == View(seen[r], now[r])
  <2>1. /\ pc[r] = "candles" /\ UNCHANGED <<saved, seen, now>>
        /\ state'[r] = <<Statuses(scenario, view), Action(scenario, view)>>
        /\ \A q \in Refreshes \ {r} : pc'[q] = pc[q] /\ state'[q] = state[q]
    BY <1>6, <1>t DEF ReadsCandles, Goes, world, rows, Typed, TypeOK
  <2>2. scenario \in Scenarios /\ seen[r] \in 0..Len(market)
    BY <1>t DEF Typed, TypeOK
  <2>3. Justified(scenario, Statuses(scenario, view), Action(scenario, view), seen[r],
                  Stale(seen[r], now[r]))
    BY <1>t, <2>2, EntryJustifies
  <2> HIDE DEF view
  <2>4. Stale(seen[r], now[r])' = Stale(seen[r], now[r])
    BY <1>t, <2>1 DEF Stale
  <2>5. FoundJustified(r)'
    BY <1>t, <2>1, <2>3, <2>4 DEF FoundJustified
  <2> QED BY <1>f, <1>o, <1>t, <2>1, <2>5, FoundStays, RowStays
<1>7. CASE SavesEvent(r) \/ Dies(r)
  <2>1. /\ UNCHANGED <<saved, seen>>
        /\ \A q \in Refreshes \ {r} : pc'[q] = pc[q] /\ state'[q] = state[q] /\ now'[q] = now[q]
        /\ pc'[r] \in {"events", "save"} =>
             pc[r] = "events" /\ state'[r] = state[r] /\ now'[r] = now[r]
    BY <1>7, <1>t DEF SavesEvent, Dies, Goes, Forgets, rows, Typed, TypeOK
  <2> QED BY <1>f, <1>o, <1>t, <2>1, FoundStays, RowStays
<1>8. CASE SavesSnapshot(r)
  <2> DEFINE old == {y \in saved : y.at = now[r]}
  <2>1. PICK row :
          /\ row.at = now[r] /\ row.statuses = state[r][1] /\ row.action = state[r][2]
          /\ row.by = r /\ saved' = (saved \ old) \cup {row}
    <3> DEFINE found == [at |-> now[r], statuses |-> state[r][1],
                         action |-> state[r][2], market |-> seen[r], by |-> r]
               kept == (CHOOSE y \in old : TRUE).market
               row == IF old = {} THEN found ELSE [found EXCEPT !.market = kept]
    <3>1. saved' = (saved \ old) \cup {row}
      BY <1>8 DEF SavesSnapshot, Upsert
    <3>2. row.at = now[r] /\ row.statuses = state[r][1] /\ row.action = state[r][2]
          /\ row.by = r
      <4> HIDE DEF kept
      <4> QED OBVIOUS
    <3> QED BY <3>1, <3>2
  <2>2. /\ pc[r] = "save" /\ pc'[r] = "done" /\ seen' = seen
        /\ \A q \in Refreshes \ {r} : pc'[q] = pc[q] /\ state'[q] = state[q] /\ now'[q] = now[q]
    BY <1>8, <1>t DEF SavesSnapshot, Goes, Forgets, Typed, TypeOK
  <2>3. RowJustified(row)'
    <3>1. Stale(seen[row.by], row.at)' = Stale(seen[r], now[r])
      BY <1>t, <2>1, <2>2 DEF Stale
    <3> QED BY <1>f, <1>t, <2>1, <2>2, <3>1 DEF RowJustified, FoundJustified
  <2>4. \A x \in saved' : x = row \/ x \in saved
    BY <2>1
  <2>5. \A x \in saved : RowJustified(x)'
    BY <1>o, <1>t, <2>2, RowStays
  <2>6. \A q \in Refreshes : pc'[q] \in {"events", "save"} => FoundJustified(q)'
    BY <1>f, <1>t, <2>2, FoundStays
  <2> QED BY <2>3, <2>4, <2>5, <2>6
<1> QED BY <1>5, <1>6, <1>7, <1>8 DEF Refresh

LEMMA JustifiedNext ==
  ASSUME JustifiedInv, [Next]_vars
  PROVE  JustifiedInv'
<1>1. Typed' /\ Backing'
  BY TypedNext, BackingNext DEF JustifiedInv
<1>2. /\ \A q \in Refreshes : pc'[q] \in {"events", "save"} => FoundJustified(q)'
      /\ \A x \in saved' : RowJustified(x)'
  <2>1. CASE Tick \/ UNCHANGED vars
    <3>1. UNCHANGED <<scenario, pc, saved, seen, now, state>>
          /\ (UNCHANGED market \/ MarketMoves)
      BY <2>1 DEF Tick, vars, world, rows
    <3>2. Typed /\ \A q \in Refreshes : pc[q] \in {"events", "save"} => FoundJustified(q)
      BY DEF JustifiedInv, FoundJustified
    <3>3. \A x \in saved : RowJustified(x)
      BY RowsJustified DEF JustifiedInv
    <3> QED BY <3>1, <3>2, <3>3, FoundStays, RowStays
  <2> QED BY <2>1, JustifiedRefresh DEF Next
<1>3. EntryIsJustified'
  BY <1>2 DEF EntryIsJustified, RowJustified, Justified
<1> QED BY <1>1, <1>2, <1>3 DEF JustifiedInv, FoundJustified

\* An entry that was saved was justified by what was saved with it, and stays so.
THEOREM EntryIsJustifiedHolds == Spec => []EntryIsJustified
<1>1. JustifiedInv /\ [Next]_vars => JustifiedInv'
  BY JustifiedNext
<1>2. JustifiedInv => EntryIsJustified
  BY DEF JustifiedInv
<1> QED BY JustifiedInit, <1>1, <1>2, PTL DEF Spec

-----------------------------------------------------------------------------
(* The statuses of a scenario, in three views: two that share their candles  *)
(* and two that share all the rest.                                          *)

Aligned(a, b) ==
  Len(a) = Len(b) /\ \A i \in 1..Len(a) : a[i].entity = b[i].entity

Between(a, b, c) ==
  /\ Aligned(a, b) /\ Aligned(b, c)
  /\ \A i \in 1..Len(a) : a[i].status = b[i].status \/ b[i].status = c[i].status

LEMMA AlignedConcat ==
  ASSUME NEW S, NEW a \in Seq(S), NEW b \in Seq(S), NEW c \in Seq(S), NEW d \in Seq(S),
         Aligned(a, b), Aligned(c, d)
  PROVE  Aligned(a \o c, b \o d)
<1>1. /\ Len(a \o c) = Len(a) + Len(c)
      /\ \A i \in 1..Len(a) + Len(c) :
           (a \o c)[i] = IF i <= Len(a) THEN a[i] ELSE c[i - Len(a)]
  BY ConcatProperties
<1>2. /\ Len(b \o d) = Len(b) + Len(d)
      /\ \A i \in 1..Len(b) + Len(d) :
           (b \o d)[i] = IF i <= Len(b) THEN b[i] ELSE d[i - Len(b)]
  BY ConcatProperties
<1>3. Len(a) \in Nat /\ Len(c) \in Nat /\ Len(b) = Len(a) /\ Len(d) = Len(c)
  BY DEF Aligned
<1>4. ASSUME NEW i \in 1..Len(a) + Len(c) PROVE (a \o c)[i].entity = (b \o d)[i].entity
  <2>1. CASE i <= Len(a)
    <3>1. i \in 1..Len(a) /\ (a \o c)[i] = a[i] /\ (b \o d)[i] = b[i]
      BY <1>1, <1>2, <1>3, <2>1
    <3> QED BY <3>1 DEF Aligned
  <2>2. CASE ~(i <= Len(a))
    <3>1. i - Len(a) \in 1..Len(c) /\ (a \o c)[i] = c[i - Len(a)]
          /\ (b \o d)[i] = d[i - Len(a)]
      BY <1>1, <1>2, <1>3, <2>2
    <3> QED BY <3>1 DEF Aligned
  <2> QED BY <2>1, <2>2
<1> HIDE DEF Aligned
<1>5. Len(a \o c) = Len(b \o d) /\ \A i \in 1..Len(a \o c) : (a \o c)[i].entity = (b \o d)[i].entity
  BY <1>1, <1>2, <1>3, <1>4
<1> QED BY <1>5 DEF Aligned

LEMMA BetweenConcat ==
  ASSUME NEW S, NEW a \in Seq(S), NEW b \in Seq(S), NEW c \in Seq(S),
         NEW d \in Seq(S), NEW e \in Seq(S), NEW f \in Seq(S),
         Between(a, b, c), Between(d, e, f)
  PROVE  Between(a \o d, b \o e, c \o f)
<1>1. Aligned(a \o d, b \o e) /\ Aligned(b \o e, c \o f)
  BY AlignedConcat DEF Between
<1>2. Len(a) = Len(b) /\ Len(b) = Len(c) /\ Len(d) = Len(e) /\ Len(e) = Len(f)
      /\ Len(a) \in Nat /\ Len(d) \in Nat
  BY DEF Between, Aligned
<1>3. /\ Len(a \o d) = Len(a) + Len(d)
      /\ \A i \in 1..Len(a) + Len(d) :
           (a \o d)[i] = IF i <= Len(a) THEN a[i] ELSE d[i - Len(a)]
  BY ConcatProperties
<1>4. \A i \in 1..Len(b) + Len(e) :
        (b \o e)[i] = IF i <= Len(b) THEN b[i] ELSE e[i - Len(b)]
  BY ConcatProperties
<1>5. \A i \in 1..Len(c) + Len(f) :
        (c \o f)[i] = IF i <= Len(c) THEN c[i] ELSE f[i - Len(c)]
  BY ConcatProperties
<1>6. ASSUME NEW i \in 1..Len(a) + Len(d)
      PROVE  \/ (a \o d)[i].status = (b \o e)[i].status
             \/ (b \o e)[i].status = (c \o f)[i].status
  <2>1. CASE i <= Len(a)
    <3>1. i \in 1..Len(a) /\ (a \o d)[i] = a[i] /\ (b \o e)[i] = b[i] /\ (c \o f)[i] = c[i]
      BY <1>2, <1>3, <1>4, <1>5, <2>1
    <3> QED BY <3>1 DEF Between
  <2>2. CASE ~(i <= Len(a))
    <3>1. i - Len(a) \in 1..Len(d) /\ (a \o d)[i] = d[i - Len(a)]
          /\ (b \o e)[i] = e[i - Len(a)] /\ (c \o f)[i] = f[i - Len(a)]
      BY <1>2, <1>3, <1>4, <1>5, <2>2
    <3> QED BY <3>1 DEF Between
  <2> QED BY <2>1, <2>2
<1>7. \A i \in 1..Len(a \o d) : \/ (a \o d)[i].status = (b \o e)[i].status
                                \/ (b \o e)[i].status = (c \o f)[i].status
  BY <1>3, <1>6
<1> QED BY <1>1, <1>7 DEF Between

Agree(u, v, z) ==
  /\ u.candles = v.candles
  /\ v.price = z.price /\ v.stale = z.stale /\ v.now = z.now

\* A condition is evaluated on the candles alone or on the price alone.
LEMMA EvaluatedBetween ==
  ASSUME NEW c, NEW u, NEW v, NEW z, Agree(u, v, z)
  PROVE  Evaluated(c, u) = Evaluated(c, v) \/ Evaluated(c, v) = Evaluated(c, z)
<1>1. CASE c.type \in {"price_reclaim_level", "price_reject_level"} \/ c.closes
  BY <1>1 DEF Evaluated, Agree, Latest
<1>2. CASE ~(c.type \in {"price_reclaim_level", "price_reject_level"} \/ c.closes)
  BY <1>2 DEF Evaluated, Agree
<1> QED BY <1>1, <1>2

LEMMA RowsBetween ==
  ASSUME NEW l, Len(l) \in Nat, DOMAIN l = 1..Len(l), NEW role,
         NEW u, NEW v, NEW z, Agree(u, v, z)
  PROVE  Between(Rows(l, role, u), Rows(l, role, v), Rows(l, role, z))
<1>1. ASSUME NEW w
      PROVE  /\ Len(Rows(l, role, w)) = Len(l)
             /\ \A i \in 1..Len(l) :
                  LET of == IF l[i].role = "none" THEN role ELSE l[i].role
                  IN /\ Rows(l, role, w)[i].entity = l[i].id
                     /\ Rows(l, role, w)[i].status = RowStatus(l[i], of, w)
  BY DEF Rows
<1>2. Aligned(Rows(l, role, u), Rows(l, role, v)) /\ Aligned(Rows(l, role, v), Rows(l, role, z))
  BY <1>1 DEF Aligned
<1>3. ASSUME NEW i \in 1..Len(l)
      PROVE  \/ Rows(l, role, u)[i].status = Rows(l, role, v)[i].status
             \/ Rows(l, role, v)[i].status = Rows(l, role, z)[i].status
  <2> DEFINE of == IF l[i].role = "none" THEN role ELSE l[i].role
  <2>1. \A w : Rows(l, role, w)[i].status = RowStatus(l[i], of, w)
    BY <1>1
  <2>2. Evaluated(l[i], u) = Evaluated(l[i], v) \/ Evaluated(l[i], v) = Evaluated(l[i], z)
    BY EvaluatedBetween
  <2> HIDE DEF of
  <2>3. RowStatus(l[i], of, u) = RowStatus(l[i], of, v)
        \/ RowStatus(l[i], of, v) = RowStatus(l[i], of, z)
    BY <2>2 DEF RowStatus
  <2> QED BY <2>1, <2>3
<1> QED BY <1>1, <1>2, <1>3 DEF Between

LEMMA TargetsBetween ==
  ASSUME NEW s, Len(s.targets) \in Nat, DOMAIN s.targets = 1..Len(s.targets),
         NEW u, NEW v, NEW z, Agree(u, v, z)
  PROVE  Between(TargetRows(s, u), TargetRows(s, v), TargetRows(s, z))
<1>1. ASSUME NEW w
      PROVE  /\ Len(TargetRows(s, w)) = Len(s.targets)
             /\ \A i \in 1..Len(s.targets) : TargetRows(s, w)[i].entity = s.targets[i].id
  BY DEF TargetRows
<1>2. TargetRows(s, v) = TargetRows(s, z)
  BY DEF TargetRows, Agree
<1> QED BY <1>1, <1>2 DEF Between, Aligned

HeadRows(s, v) == <<[entity |-> "trigger", status |-> TriggerStatus(s, v)],
                    [entity |-> "validity", status |-> Validity(s, v)]>>

LEMMA HeadBetween ==
  ASSUME NEW s, NEW u, NEW v, NEW z, Agree(u, v, z)
  PROVE  Between(HeadRows(s, u), HeadRows(s, v), HeadRows(s, z))
<1>1. TriggerStatus(s, v) = TriggerStatus(s, z) /\ Validity(s, v) = Validity(s, z)
  BY DEF TriggerStatus, Validity, Overextended, Agree
<1>2. HeadRows(s, v) = HeadRows(s, z)
  BY <1>1 DEF HeadRows
<1>3. \A w : Len(HeadRows(s, w)) = 2 /\ HeadRows(s, w)[1].entity = "trigger"
             /\ HeadRows(s, w)[2].entity = "validity"
  BY DEF HeadRows
<1>4. Aligned(HeadRows(s, u), HeadRows(s, v)) /\ Aligned(HeadRows(s, v), HeadRows(s, z))
  BY <1>3 DEF Aligned
<1> QED BY <1>2, <1>4 DEF Between

-----------------------------------------------------------------------------
(* Changes between two snapshots.  A refresh that is under way knows the row *)
(* it read: whoever saved since has met it, and what changed up to that row  *)
(* is in the history already.  The operators get what may change in a step   *)
(* as parameters.                                                            *)

Stamped(q) == pc[q] \in {"candles", "events", "save"}
Ready(q) == pc[q] \in {"events", "save"}

\* The history has the event of a status, of a time, of a market snapshot or of
\* those that the refreshes R saw.
Told(history, snapshots, row, at, place, R) ==
  \E e \in history : /\ e.entity = row.entity /\ e.to = row.status
                     /\ \/ e.time = at \/ e.market = place
                        \/ \E r \in R : e.market = snapshots[r]

\* It has one for each change from one list of statuses to another.
Changed(history, snapshots, from, to, at, place, R) ==
  \A i \in DOMAIN to :
    to[i].status \in Reported \ {from[i].status} =>
      Told(history, snapshots, to[i], at, place, R)

Adjacent(table, x, y) ==
  x.at < y.at /\ ~\E z \in table : x.at < z.at /\ z.at < y.at

Recorded(history, snapshots, table, with) ==
  \A x, y \in table : Adjacent(table, x, y) /\ x.by \notin with[y.by] =>
    Changed(history, snapshots, x.statuses, y.statuses, y.at, y.market,
            with[y.by] \cup {y.by})

\* The row w is the one that refresh q read, or the one that took its place.
Basis(history, snapshots, table, with, read, q, w) ==
  /\ \A x \in table : x.by \in with[q] \/ x.at <= w.at
  /\ w.by \in with[q] \/ read[q] = w.statuses
  /\ \A x \in table :
       Adjacent(table, x, w) /\ x.by \notin with[w.by] \cup {w.by} \cup with[q] =>
         Changed(history, snapshots, x.statuses, read[q], w.at, w.market,
                 with[w.by] \cup {w.by})

\* There was none to read.
Unread(table, with, read, q) ==
  read[q] = << >> /\ \A x \in table : x.by \in with[q]

\* All lists of statuses of a scenario have the same things in the same places.
Blank == [price |-> 0, stale |-> TRUE, candles |-> << >>, now |-> 0]
LaidOut(s, list) ==
  /\ DOMAIN list = DOMAIN Statuses(s, Blank)
  /\ \A i \in DOMAIN list : list[i].entity = Statuses(s, Blank)[i].entity

Meets == \A p, q \in Pending : p # q => p \in met[q]
Unseen == \A q \in Refreshes : pc[q] \in {"new", "load"} => seen[q] = 0
Placed ==
  /\ Len(market) <= MaxSnapshots
  /\ \A e \in events : e.market \in 1..MaxSnapshots \/ e.market = MaxSnapshots + e.time
Overtaken ==
  \A q \in Refreshes : Stamped(q) => \A z \in saved : z.at > now[q] => q \in met[z.by]
Wrote ==
  \A q \in Refreshes : Ready(q) =>
    \A i \in Transitions(q, state[q][1]) \ todo[q] :
      \E e \in events : /\ e.entity = state[q][1][i].entity
                        /\ e.to = state[q][1][i].status /\ e.market = Place(q)
Laid ==
  /\ \A q \in Refreshes : /\ Ready(q) => LaidOut(scenario, state[q][1])
                          /\ prev[q] = << >> \/ LaidOut(scenario, prev[q])
  /\ \A x \in saved : LaidOut(scenario, x.statuses)

Orderly == Typed /\ Backing /\ Meets /\ Unseen /\ Placed /\ Overtaken /\ Wrote /\ Laid

\* The values of the statuses in a view, one segment after the other.
Values(s, v) ==
  {HeadRows(s, v)[i] : i \in 1..2}
  \cup {Rows(s.entry, "entry", v)[i] : i \in DOMAIN s.entry}
  \cup {Rows(s.invalidation, "invalidation", v)[i] : i \in DOMAIN s.invalidation}
  \cup {Rows(s.avoid, "avoid", v)[i] : i \in DOMAIN s.avoid}
  \cup {TargetRows(s, v)[i] : i \in DOMAIN s.targets}

LEMMA Segments ==
  ASSUME NEW s \in Scenarios, NEW v, NEW S, Values(s, v) \subseteq S
  PROVE  /\ HeadRows(s, v) \in Seq(S)
         /\ Rows(s.entry, "entry", v) \in Seq(S)
         /\ Rows(s.invalidation, "invalidation", v) \in Seq(S)
         /\ Rows(s.avoid, "avoid", v) \in Seq(S)
         /\ TargetRows(s, v) \in Seq(S)
<1>1. /\ Len(s.entry) \in Nat /\ DOMAIN s.entry = 1..Len(s.entry)
      /\ Len(s.invalidation) \in Nat /\ DOMAIN s.invalidation = 1..Len(s.invalidation)
      /\ Len(s.avoid) \in Nat /\ DOMAIN s.avoid = 1..Len(s.avoid)
      /\ Len(s.targets) \in Nat /\ DOMAIN s.targets = 1..Len(s.targets)
  BY LiveStateAssumption
<1>2. HeadRows(s, v) \in Seq(S)
  <2>1. HeadRows(s, v)[1] \in S /\ HeadRows(s, v)[2] \in S
    BY DEF Values
  <2>2. PICK a \in S, b \in S : HeadRows(s, v) = <<a, b>>
    BY <2>1 DEF HeadRows
  <2> QED BY <2>2
<1>3. ASSUME NEW l, NEW role, Len(l) \in Nat, DOMAIN l = 1..Len(l),
             \A i \in DOMAIN l : Rows(l, role, v)[i] \in S
      PROVE  Rows(l, role, v) \in Seq(S)
  <2>1. Rows(l, role, v) = [i \in 1..Len(l) |-> Rows(l, role, v)[i]]
    BY <1>3 DEF Rows
  <2> QED BY <1>3, <2>1
<1>4. TargetRows(s, v) \in Seq(S)
  <2>1. TargetRows(s, v) = [i \in 1..Len(s.targets) |-> TargetRows(s, v)[i]]
    BY <1>1 DEF TargetRows
  <2>2. \A i \in 1..Len(s.targets) : TargetRows(s, v)[i] \in S
    BY <1>1 DEF Values
  <2> QED BY <1>1, <2>1, <2>2
<1>5. /\ \A i \in DOMAIN s.entry : Rows(s.entry, "entry", v)[i] \in S
      /\ \A i \in DOMAIN s.invalidation : Rows(s.invalidation, "invalidation", v)[i] \in S
      /\ \A i \in DOMAIN s.avoid : Rows(s.avoid, "avoid", v)[i] \in S
  BY DEF Values
<1> QED BY <1>1, <1>2, <1>3, <1>4, <1>5

LEMMA StatusesBetween ==
  ASSUME NEW s \in Scenarios, NEW u, NEW v, NEW z, Agree(u, v, z)
  PROVE  Between(Statuses(s, u), Statuses(s, v), Statuses(s, z))
<1> DEFINE S == Values(s, u) \cup Values(s, v) \cup Values(s, z)
           first(w) == HeadRows(s, w) \o Rows(s.entry, "entry", w)
           second(w) == first(w) \o Rows(s.invalidation, "invalidation", w)
           third(w) == second(w) \o Rows(s.avoid, "avoid", w)
<1>1. /\ Len(s.entry) \in Nat /\ DOMAIN s.entry = 1..Len(s.entry)
      /\ Len(s.invalidation) \in Nat /\ DOMAIN s.invalidation = 1..Len(s.invalidation)
      /\ Len(s.avoid) \in Nat /\ DOMAIN s.avoid = 1..Len(s.avoid)
      /\ Len(s.targets) \in Nat /\ DOMAIN s.targets = 1..Len(s.targets)
  BY LiveStateAssumption
<1>2. /\ Values(s, u) \subseteq S /\ Values(s, v) \subseteq S /\ Values(s, z) \subseteq S
  OBVIOUS
<1>3. \A w : Statuses(s, w) = third(w) \o TargetRows(s, w)
  BY DEF Statuses, HeadRows
<1> HIDE DEF S
<1>4. ASSUME NEW w \in {u, v, z}
      PROVE  /\ HeadRows(s, w) \in Seq(S)
             /\ Rows(s.entry, "entry", w) \in Seq(S)
             /\ Rows(s.invalidation, "invalidation", w) \in Seq(S)
             /\ Rows(s.avoid, "avoid", w) \in Seq(S)
             /\ TargetRows(s, w) \in Seq(S)
  BY <1>2, Segments
<1>5. \A w \in {u, v, z} : first(w) \in Seq(S)
  BY <1>4, ConcatProperties
<1>6. \A w \in {u, v, z} : second(w) \in Seq(S)
  <2> HIDE DEF first
  <2> QED BY <1>4, <1>5, ConcatProperties
<1>7. \A w \in {u, v, z} : third(w) \in Seq(S)
  <2> HIDE DEF second
  <2> QED BY <1>4, <1>6, ConcatProperties
<1>8. Between(first(u), first(v), first(z))
  <2>1. Between(HeadRows(s, u), HeadRows(s, v), HeadRows(s, z))
    BY HeadBetween
  <2>2. Between(Rows(s.entry, "entry", u), Rows(s.entry, "entry", v), Rows(s.entry, "entry", z))
    BY <1>1, RowsBetween
  <2> QED BY <1>4, <2>1, <2>2, BetweenConcat
<1>9. Between(second(u), second(v), second(z))
  <2>1. Between(Rows(s.invalidation, "invalidation", u), Rows(s.invalidation, "invalidation", v),
                Rows(s.invalidation, "invalidation", z))
    BY <1>1, RowsBetween
  <2> HIDE DEF first
  <2> QED BY <1>4, <1>5, <1>8, <2>1, BetweenConcat
<1>10. Between(third(u), third(v), third(z))
  <2>1. Between(Rows(s.avoid, "avoid", u), Rows(s.avoid, "avoid", v), Rows(s.avoid, "avoid", z))
    BY <1>1, RowsBetween
  <2> HIDE DEF second
  <2> QED BY <1>4, <1>6, <1>9, <2>1, BetweenConcat
<1> HIDE DEF third
<1>11. Between(TargetRows(s, u), TargetRows(s, v), TargetRows(s, z))
  BY <1>1, TargetsBetween
<1>12. Between(third(u) \o TargetRows(s, u), third(v) \o TargetRows(s, v),
               third(z) \o TargetRows(s, z))
  BY <1>4, <1>7, <1>10, <1>11, BetweenConcat
<1>13. /\ Statuses(s, u) = third(u) \o TargetRows(s, u)
       /\ Statuses(s, v) = third(v) \o TargetRows(s, v)
       /\ Statuses(s, z) = third(z) \o TargetRows(s, z)
  BY <1>3
<1> QED BY <1>12, <1>13

LEMMA StatusesAligned ==
  ASSUME NEW s \in Scenarios, NEW u, NEW z
  PROVE  Aligned(Statuses(s, u), Statuses(s, z))
<1> DEFINE v == [price |-> z.price, stale |-> z.stale, candles |-> u.candles, now |-> z.now]
<1>1. Agree(u, v, z)
  BY DEF Agree
<1> HIDE DEF v
<1>2. Between(Statuses(s, u), Statuses(s, v), Statuses(s, z))
  BY <1>1, StatusesBetween
<1>3. Aligned(Statuses(s, u), Statuses(s, v)) /\ Aligned(Statuses(s, v), Statuses(s, z))
  BY <1>2 DEF Between
<1> QED BY <1>3 DEF Aligned

LEMMA StatusesDomain ==
  ASSUME NEW s \in Scenarios, NEW w
  PROVE  DOMAIN Statuses(s, w) = 1..Len(Statuses(s, w))
<1> DEFINE S == Values(s, w)
           first == HeadRows(s, w) \o Rows(s.entry, "entry", w)
           second == first \o Rows(s.invalidation, "invalidation", w)
           third == second \o Rows(s.avoid, "avoid", w)
<1>1. S \subseteq S
  OBVIOUS
<1>2. Statuses(s, w) = third \o TargetRows(s, w)
  BY DEF Statuses, HeadRows
<1> HIDE DEF S
<1>3. /\ HeadRows(s, w) \in Seq(S)
      /\ Rows(s.entry, "entry", w) \in Seq(S)
      /\ Rows(s.invalidation, "invalidation", w) \in Seq(S)
      /\ Rows(s.avoid, "avoid", w) \in Seq(S)
      /\ TargetRows(s, w) \in Seq(S)
  BY <1>1, Segments DEF S
<1>4. first \in Seq(S)
  BY <1>3, ConcatProperties
<1> HIDE DEF first
<1>5. second \in Seq(S)
  BY <1>3, <1>4, ConcatProperties
<1> HIDE DEF second
<1>6. third \in Seq(S)
  BY <1>3, <1>5, ConcatProperties
<1> HIDE DEF third
<1>7. Statuses(s, w) \in Seq(S)
  BY <1>2, <1>3, <1>6, ConcatProperties
<1> QED BY <1>7

LEMMA StatusesLaidOut ==
  ASSUME NEW s \in Scenarios, NEW v
  PROVE  LaidOut(s, Statuses(s, v))
BY StatusesAligned, StatusesDomain DEF LaidOut, Aligned

-----------------------------------------------------------------------------
(* What a refresh that is under way has met, seen and written.               *)

LEMMA OrderlyInit == Init => Orderly
<1> SUFFICES ASSUME Init PROVE Orderly
  OBVIOUS
<1>1. Typed /\ Backing
  BY TypedInit, BackingInit
<1>2. Meets /\ Unseen /\ Overtaken /\ Wrote /\ Laid
  BY DEF Init, Meets, Unseen, Overtaken, Wrote, Laid, Pending, Stamped, Ready
<1>3. Len(market) <= MaxSnapshots
  <2>1. CASE market = << >>
    BY <2>1, LiveStateAssumption
  <2>2. CASE \E p \in Opened : market = <<[price |-> p, captured |-> 1]>>
    <3>1. Len(market) = 1 /\ Opened # {}
      BY <2>2
    <3> QED BY <3>1, LiveStateAssumption
  <2> QED BY <2>1, <2>2 DEF Init
<1> QED BY <1>1, <1>2, <1>3 DEF Orderly, Placed, Init

LEMMA OrderlyTick ==
  ASSUME Orderly, Tick \/ UNCHANGED vars
  PROVE  Orderly'
<1>1. UNCHANGED <<scenario, events, saved, pc, prev, seen, now, state, todo, met, lost>>
  BY DEF Tick, vars, world, rows
<1>2. Typed' /\ Backing'
  BY TypedNext, BackingNext DEF Orderly, Next
<1>3. Meets' /\ Unseen' /\ Overtaken' /\ Laid'
  BY <1>1 DEF Orderly, Meets, Unseen, Overtaken, Laid, Pending, Stamped, Ready
<1>4. Wrote'
  BY <1>1 DEF Orderly, Wrote, Ready, Place, Transitions, Before
<1>5. Len(market') <= MaxSnapshots
  <2>1. CASE UNCHANGED market
    BY <2>1 DEF Orderly, Placed
  <2>2. CASE MarketMoves
    <3>1. PICK p : market' = Append(market, [price |-> p, captured |-> clock'])
      BY <2>2 DEF MarketMoves
    <3>2. Len(market) < MaxSnapshots /\ Len(market') = Len(market) + 1 /\ Len(market) \in Nat
      BY <2>2, <3>1 DEF MarketMoves, Orderly, Typed
    <3> QED BY <3>2, LiveStateAssumption
  <2> QED BY <2>1, <2>2 DEF Tick, vars, world
<1>6. Placed'
  BY <1>1, <1>5 DEF Orderly, Placed
<1> QED BY <1>2, <1>3, <1>4, <1>6 DEF Orderly

LEMMA LowestNumber ==
  ASSUME NEW T \in SUBSET Nat, T # {}
  PROVE  \E m \in T : \A y \in T : m <= y
<1> DEFINE R == OpToRel(<, Nat)
<1>1. IsWellFoundedOn(R, Nat)
  BY NatLessThanWellFounded
<1>2. \A x, y \in Nat : <<x, y>> \in R <=> x < y
  BY DEF OpToRel
<1> HIDE DEF R
<1>3. PICK m \in T : \A y \in T : ~(<<y, m>> \in R)
  BY <1>1, WFMin
<1>4. \A y \in T : ~(y < m)
  BY <1>2, <1>3
<1> QED BY <1>3, <1>4

\* The statuses of the latest row.
LEMMA GreatestRow ==
  ASSUME Typed, saved # {}
  PROVE  \E w \in saved : \A y \in saved : y.at <= w.at
<1> DEFINE T == {clock - x.at : x \in saved}
<1>1. \A x \in saved : x.at \in 1..clock
  BY DEF Typed, TypeOK
<1>2. clock \in Nat
  BY DEF Typed
<1>3. T \in SUBSET Nat /\ T # {}
  BY <1>1, <1>2
<1> HIDE DEF T
<1>7. PICK m \in T : \A y \in T : m <= y
  BY <1>3, LowestNumber
<1>8. PICK w \in saved : m = clock - w.at
  BY DEF T
<1>9. \A y \in saved : clock - w.at <= clock - y.at
  BY <1>7, <1>8 DEF T
<1> QED BY <1>1, <1>2, <1>9

LEMMA LatestIs ==
  ASSUME Typed, saved # {}
  PROVE  \E w \in saved : /\ \A y \in saved : y.at <= w.at
                          /\ LatestOf(saved) = w.statuses
<1> DEFINE w == CHOOSE x \in saved : \A y \in saved : y.at <= x.at
<1>1. w \in saved /\ \A y \in saved : y.at <= w.at
  BY GreatestRow
<1> QED BY <1>1 DEF LatestOf

LEMMA OrderlyReadsPrevious ==
  ASSUME Orderly, NEW r \in Refreshes, ReadsPrevious(r)
  PROVE  Orderly'
<1>1. /\ pc[r] = "new" /\ pc' = [pc EXCEPT ![r] = "load"]
      /\ prev' = [prev EXCEPT ![r] = LatestOf(saved)]
      /\ met' = [q \in Refreshes |-> IF q = r THEN Pending
                                     ELSE IF q \in Pending THEN met[q] \cup {r}
                                     ELSE met[q]]
      /\ UNCHANGED <<scenario, market, events, saved, seen, now, state, todo, lost>>
  BY DEF ReadsPrevious, Goes, world, rows
<1>2. Typed' /\ Backing'
  BY TypedNext, BackingNext DEF Orderly, Next, Refresh
<1>3. /\ pc'[r] = "load" /\ \A q \in Refreshes \ {r} : pc'[q] = pc[q] /\ prev'[q] = prev[q]
      /\ prev'[r] = LatestOf(saved)
  BY <1>1 DEF Orderly, Typed, TypeOK
<1>4. Meets'
  <2>1. Pending' = Pending \cup {r}
    BY <1>3 DEF Pending
  <2> QED BY <1>1, <2>1 DEF Orderly, Meets, Pending
<1>5. Unseen' /\ Placed'
  BY <1>1, <1>3 DEF Orderly, Unseen, Placed
<1>6. Overtaken'
  <2>1. \A z \in saved : met'[z.by] = met[z.by]
    BY <1>1 DEF Orderly, Backing, RowsAreDone, Shape, Pending
  <2> QED BY <1>1, <1>3, <2>1 DEF Orderly, Overtaken, Stamped
<1>7. Wrote'
  BY <1>1, <1>3 DEF Orderly, Wrote, Ready, Place, Transitions, Before
<1>8. Laid'
  <2>1. LatestOf(saved) = << >> \/ LaidOut(scenario, LatestOf(saved))
    <3>1. CASE saved = {}
      BY <3>1 DEF LatestOf
    <3>2. CASE saved # {}
      BY <3>2, LatestIs DEF Orderly, Laid
    <3> QED BY <3>1, <3>2
  <2> QED BY <1>1, <1>3, <2>1 DEF Orderly, Laid, Ready
<1> QED BY <1>2, <1>4, <1>5, <1>6, <1>7, <1>8 DEF Orderly

LEMMA OrderlyReads ==
  ASSUME Orderly, NEW r \in Refreshes, ReadsMarket(r) \/ Stamps(r)
  PROVE  Orderly'
<1>1. /\ UNCHANGED <<scenario, market, clock, events, saved, prev, state, todo, met, lost>>
      /\ pc[r] \in {"load", "stamp"} /\ pc'[r] \in {"stamp", "candles"}
      /\ \A q \in Refreshes \ {r} : pc'[q] = pc[q] /\ seen'[q] = seen[q] /\ now'[q] = now[q]
  BY DEF ReadsMarket, Stamps, Goes, world, rows, Orderly, Typed, TypeOK
<1>2. Typed' /\ Backing'
  BY TypedNext, BackingNext DEF Orderly, Next, Refresh
<1>3. Meets'
  <2>1. Pending' = Pending
    BY <1>1 DEF Pending
  <2> QED BY <1>1, <2>1 DEF Orderly, Meets
<1>4. Unseen' /\ Placed'
  BY <1>1 DEF Orderly, Unseen, Placed
<1>5. Overtaken'
  <2>1. CASE ReadsMarket(r)
    <3>1. pc'[r] = "stamp" /\ now' = now
      BY <2>1 DEF ReadsMarket, Goes, Orderly, Typed, TypeOK
    <3> QED BY <1>1, <3>1 DEF Orderly, Overtaken, Stamped
  <2>2. CASE Stamps(r)
    <3>1. now'[r] = clock
      BY <2>2 DEF Stamps, Orderly, Typed, TypeOK
    <3>2. \A z \in saved : ~(z.at > clock)
      BY DEF Orderly, Typed, TypeOK
    <3> QED BY <1>1, <3>1, <3>2 DEF Orderly, Overtaken, Stamped
  <2> QED BY <2>1, <2>2
<1>6. Wrote'
  BY <1>1 DEF Orderly, Wrote, Ready, Place, Transitions, Before
<1>7. Laid'
  BY <1>1 DEF Orderly, Laid, Ready
<1> QED BY <1>2, <1>3, <1>4, <1>5, <1>6, <1>7 DEF Orderly

LEMMA OrderlyReadsCandles ==
  ASSUME Orderly, NEW r \in Refreshes, ReadsCandles(r)
  PROVE  Orderly'
<1> DEFINE view == View(seen[r], now[r])
           found == Statuses(scenario, view)
<1>1. /\ pc[r] = "candles" /\ todo'[r] = Transitions(r, found) /\ state'[r][1] = found
      /\ pc'[r] \in {"events", "save"}
      /\ UNCHANGED <<scenario, market, clock, events, saved, prev, seen, now, met, lost>>
      /\ \A q \in Refreshes \ {r} : pc'[q] = pc[q] /\ todo'[q] = todo[q] /\ state'[q] = state[q]
  BY DEF ReadsCandles, Goes, world, rows, Orderly, Typed, TypeOK
<1>2. Typed' /\ Backing'
  BY TypedNext, BackingNext DEF Orderly, Next, Refresh
<1>3. LaidOut(scenario, found)
  BY StatusesLaidOut DEF Orderly, Typed, TypeOK
<1> HIDE DEF found, view
<1>4. Meets'
  <2>1. Pending' = Pending
    BY <1>1 DEF Pending
  <2> QED BY <1>1, <2>1 DEF Orderly, Meets
<1>5. Unseen' /\ Placed' /\ Overtaken'
  BY <1>1 DEF Orderly, Unseen, Placed, Overtaken, Stamped
<1>6. Wrote'
  <2>1. \A q \in Refreshes \ {r} : \A i : i \in Transitions(q, state[q][1]) =>
           Place(q)' = Place(q)
    BY <1>1 DEF Place
  <2>2. ASSUME NEW q \in Refreshes, Ready(q)', NEW i \in Transitions(q, state[q][1])' \ todo'[q]
        PROVE  \E e \in events' : /\ e.entity = state'[q][1][i].entity
                                  /\ e.to = state'[q][1][i].status /\ e.market = Place(q)'
    <3>1. CASE q = r
      <4>1. Transitions(q, state[q][1])' = Transitions(r, found)
        BY <1>1, <3>1 DEF Transitions, Before
      <4> QED BY <1>1, <2>2, <3>1, <4>1
    <3>2. CASE q # r
      <4>1. /\ Transitions(q, state[q][1])' = Transitions(q, state[q][1]) /\ Ready(q)
            /\ Place(q)' = Place(q)
        BY <1>1, <2>2, <3>2 DEF Transitions, Before, Ready, Place
      <4> QED BY <1>1, <2>2, <3>2, <4>1 DEF Orderly, Wrote
    <3> QED BY <3>1, <3>2
  <2> QED BY <2>2 DEF Wrote
<1>7. Laid'
  BY <1>1, <1>3 DEF Orderly, Laid, Ready
<1> QED BY <1>2, <1>4, <1>5, <1>6, <1>7 DEF Orderly

LEMMA OrderlySavesEvent ==
  ASSUME Orderly, NEW r \in Refreshes, SavesEvent(r)
  PROVE  Orderly'
<1> PICK i \in todo[r] :
      /\ pc[r] = "events"
      /\ pc' = [pc EXCEPT ![r] = IF todo[r] = {i} THEN "save" ELSE "events"]
      /\ events' = Insert(events, Event(r, i))
      /\ todo' = [todo EXCEPT ![r] = @ \ {i}]
      /\ UNCHANGED <<scenario, market, clock, saved, prev, seen, now, state, met, lost>>
  BY DEF SavesEvent, Goes, world
<1>1. /\ \A q \in Refreshes \ {r} : pc'[q] = pc[q] /\ todo'[q] = todo[q]
      /\ pc'[r] \in {"events", "save"} /\ todo'[r] = todo[r] \ {i}
  BY DEF Orderly, Typed, TypeOK
<1>2. Typed' /\ Backing'
  BY TypedNext, BackingNext DEF Orderly, Next, Refresh
<1>3. Meets'
  <2>1. Pending' = Pending
    BY <1>1 DEF Pending
  <2> QED BY <2>1 DEF Orderly, Meets
<1>4. Unseen' /\ Overtaken' /\ Laid'
  BY <1>1 DEF Orderly, Unseen, Overtaken, Stamped, Laid, Ready
<1>5. /\ events \subseteq events' /\ events' \subseteq events \cup {Event(r, i)}
      /\ \E d \in events' : /\ d.entity = state[r][1][i].entity
                            /\ d.to = state[r][1][i].status /\ d.market = Place(r)
  <2>1. /\ Event(r, i).entity = state[r][1][i].entity
        /\ Event(r, i).to = state[r][1][i].status /\ Event(r, i).market = Place(r)
    BY DEF Event
  <2>2. CASE \E d \in events : SameId(d, Event(r, i))
    BY <2>1, <2>2 DEF Insert, SameId
  <2>3. CASE ~\E d \in events : SameId(d, Event(r, i))
    <3>1. events' = events \cup {Event(r, i)}
      BY <2>3 DEF Insert
    <3> QED BY <2>1, <3>1
  <2> QED BY <2>2, <2>3
<1>6. Placed'
  <2>1. Place(r) \in 1..MaxSnapshots \/ Place(r) = MaxSnapshots + now[r]
    <3>1. seen[r] \in 0..Len(market) /\ Len(market) \in Nat /\ MaxSnapshots \in Nat
      BY LiveStateAssumption DEF Orderly, Typed, TypeOK
    <3>2. Len(market) <= MaxSnapshots
      BY DEF Orderly, Placed
    <3> QED BY <3>1, <3>2 DEF Place
  <2>2. Event(r, i).market = Place(r) /\ Event(r, i).time = now[r]
    BY DEF Event
  <2> QED BY <1>5, <2>1, <2>2 DEF Orderly, Placed
<1>7. Wrote'
  <2>1. ASSUME NEW q \in Refreshes, Ready(q)', NEW j \in Transitions(q, state[q][1])' \ todo'[q]
        PROVE  \E e \in events' : /\ e.entity = state'[q][1][j].entity
                                  /\ e.to = state'[q][1][j].status /\ e.market = Place(q)'
    <3>1. /\ Transitions(q, state[q][1])' = Transitions(q, state[q][1]) /\ Ready(q)
          /\ Place(q)' = Place(q)
      BY <1>1, <2>1 DEF Transitions, Before, Ready, Place
    <3>2. CASE q = r /\ j = i
      BY <1>5, <3>1, <3>2
    <3>3. CASE ~(q = r /\ j = i)
      <4>1. j \in Transitions(q, state[q][1]) \ todo[q]
        BY <1>1, <2>1, <3>1, <3>3
      <4> QED BY <1>5, <3>1, <4>1 DEF Orderly, Wrote
    <3> QED BY <3>2, <3>3
  <2> QED BY <2>1 DEF Wrote
<1> QED BY <1>2, <1>3, <1>4, <1>6, <1>7 DEF Orderly

\* The row that a refresh saves, in place of the row of its time.
IsRowOf(r, row) ==
  /\ row.at = now[r] /\ row.statuses = state[r][1] /\ row.by = r
  /\ saved' = {y \in saved : y.at # now[r]} \cup {row}
  /\ \A y \in saved : y.at = now[r] => row.market = y.market

LEMMA RowIsSaved ==
  ASSUME Typed, NEW r \in Refreshes, SavesSnapshot(r)
  PROVE  \E row : IsRowOf(r, row)
<1> DEFINE found == [at |-> now[r], statuses |-> state[r][1],
                     action |-> state[r][2], market |-> seen[r], by |-> r]
           old == {y \in saved : y.at = now[r]}
           kept == (CHOOSE y \in old : TRUE).market
           row == IF old = {} THEN found ELSE [found EXCEPT !.market = kept]
<1>1. saved' = (saved \ old) \cup {row}
  BY DEF SavesSnapshot, Upsert
<1>2. \A y \in old : kept = y.market
  BY DEF Typed, TypeOK
<1>3. row.at = now[r] /\ row.statuses = state[r][1] /\ row.by = r
      /\ (old # {} => row.market = kept)
  <2> HIDE DEF kept, old
  <2> QED OBVIOUS
<1> HIDE DEF row, kept
<1>4. \A y \in saved : y.at = now[r] => row.market = y.market
  BY <1>2, <1>3
<1>5. saved' = {y \in saved : y.at # now[r]} \cup {row}
  BY <1>1
<1> QED BY <1>3, <1>4, <1>5 DEF IsRowOf

LEMMA OrderlySavesSnapshot ==
  ASSUME Orderly, NEW r \in Refreshes, SavesSnapshot(r)
  PROVE  Orderly'
<1>1. /\ pc[r] = "save" /\ pc' = [pc EXCEPT ![r] = "done"]
      /\ met' = [met EXCEPT ![r] = @ \cup UNION {met[y.by] \cup {y.by} :
                                              y \in {x \in saved : x.at = now[r]}}]
      /\ prev' = [prev EXCEPT ![r] = << >>] /\ now' = [now EXCEPT ![r] = 0]
      /\ state' = [state EXCEPT ![r] = << >>] /\ todo' = [todo EXCEPT ![r] = {}]
      /\ UNCHANGED <<scenario, market, clock, events, seen>>
  BY DEF SavesSnapshot, Goes, Forgets, world
<1>2. PICK row : IsRowOf(r, row)
  BY RowIsSaved DEF Orderly
<1>3. Typed' /\ Backing'
  BY TypedNext, BackingNext DEF Orderly, Next, Refresh
<1>4. /\ pc'[r] = "done" /\ met[r] \subseteq met'[r] /\ prev'[r] = << >>
      /\ \A q \in Refreshes \ {r} : /\ pc'[q] = pc[q] /\ met'[q] = met[q] /\ now'[q] = now[q]
                                    /\ prev'[q] = prev[q] /\ state'[q] = state[q]
                                    /\ todo'[q] = todo[q]
  BY <1>1 DEF Orderly, Typed, TypeOK
<1>5. \A z \in saved : z.by \in Refreshes \ {r}
  BY <1>1 DEF Orderly, Backing, RowsAreDone, Shape
<1>6. Meets'
  <2>1. \A q \in Refreshes : q \in Pending' <=> q \in Pending \ {r}
    BY <1>1, <1>4 DEF Pending
  <2> QED BY <1>4, <2>1 DEF Orderly, Meets, Pending
<1>7. Unseen' /\ Placed'
  BY <1>1, <1>4 DEF Orderly, Unseen, Placed
<1>8. Overtaken'
  <2>1. ASSUME NEW q \in Refreshes, Stamped(q)', NEW z \in saved', z.at > now'[q]
        PROVE  q \in met'[z.by]
    <3>1. q # r /\ Stamped(q) /\ now'[q] = now[q]
      BY <1>4, <2>1 DEF Stamped
    <3>2. CASE z = row
      <4>1. q \in Pending /\ r \in Pending
        BY <1>1, <3>1 DEF Pending, Stamped
      <4> QED BY <1>2, <1>4, <3>1, <3>2, <4>1 DEF IsRowOf, Orderly, Meets
    <3>3. CASE z \in saved
      BY <1>4, <1>5, <2>1, <3>1, <3>3 DEF Orderly, Overtaken
    <3> QED BY <1>2, <3>2, <3>3 DEF IsRowOf
  <2> QED BY <2>1 DEF Overtaken
<1>9. Wrote'
  <2>1. ASSUME NEW q \in Refreshes, Ready(q)'
        PROVE  /\ Transitions(q, state[q][1])' = Transitions(q, state[q][1]) /\ Ready(q)
               /\ Place(q)' = Place(q) /\ todo'[q] = todo[q] /\ state'[q] = state[q]
    <3>1. q # r
      BY <1>4, <2>1 DEF Ready
    <3> QED BY <1>1, <1>4, <2>1, <3>1 DEF Transitions, Before, Ready, Place
  <2> QED BY <1>1, <2>1 DEF Orderly, Wrote
<1>10. Laid'
  <2>1. LaidOut(scenario, state[r][1])
    BY <1>1 DEF Orderly, Laid, Ready
  <2>2. \A x \in saved' : LaidOut(scenario, x.statuses)
    BY <1>2, <2>1 DEF IsRowOf, Orderly, Laid
  <2>3. \A q \in Refreshes : /\ Ready(q)' => LaidOut(scenario, state'[q][1])
                             /\ prev'[q] = << >> \/ LaidOut(scenario, prev'[q])
    BY <1>4 DEF Orderly, Laid, Ready
  <2> QED BY <1>1, <2>2, <2>3 DEF Laid
<1> QED BY <1>3, <1>6, <1>7, <1>8, <1>9, <1>10 DEF Orderly

LEMMA OrderlyDies ==
  ASSUME Orderly, NEW r \in Refreshes, Dies(r)
  PROVE  Orderly'
<1>1. /\ pc' = [pc EXCEPT ![r] = "done"]
      /\ prev' = [prev EXCEPT ![r] = << >>] /\ now' = [now EXCEPT ![r] = 0]
      /\ state' = [state EXCEPT ![r] = << >>] /\ todo' = [todo EXCEPT ![r] = {}]
      /\ UNCHANGED <<scenario, market, clock, events, saved, seen, met>>
  BY DEF Dies, Forgets, world, rows
<1>3. Typed' /\ Backing'
  BY TypedNext, BackingNext DEF Orderly, Next, Refresh
<1>4. /\ pc'[r] = "done" /\ prev'[r] = << >>
      /\ \A q \in Refreshes \ {r} : /\ pc'[q] = pc[q] /\ now'[q] = now[q]
                                    /\ prev'[q] = prev[q] /\ state'[q] = state[q]
                                    /\ todo'[q] = todo[q]
  BY <1>1 DEF Orderly, Typed, TypeOK
<1>6. Meets'
  <2>1. \A q \in Refreshes : q \in Pending' => q \in Pending
    BY <1>4 DEF Pending
  <2> QED BY <1>1, <2>1 DEF Orderly, Meets, Pending
<1>7. Unseen' /\ Placed' /\ Overtaken'
  BY <1>1, <1>4 DEF Orderly, Unseen, Placed, Overtaken, Stamped
<1>9. Wrote'
  <2>1. ASSUME NEW q \in Refreshes, Ready(q)'
        PROVE  /\ Transitions(q, state[q][1])' = Transitions(q, state[q][1]) /\ Ready(q)
               /\ Place(q)' = Place(q) /\ todo'[q] = todo[q] /\ state'[q] = state[q]
    <3>1. q # r
      BY <1>4, <2>1 DEF Ready
    <3> QED BY <1>1, <1>4, <2>1, <3>1 DEF Transitions, Before, Ready, Place
  <2> QED BY <1>1, <2>1 DEF Orderly, Wrote
<1>10. Laid'
  BY <1>1, <1>4 DEF Orderly, Laid, Ready
<1> QED BY <1>3, <1>6, <1>7, <1>9, <1>10 DEF Orderly

LEMMA OrderlyNext ==
  ASSUME Orderly, [Next]_vars
  PROVE  Orderly'
BY OrderlyTick, OrderlyReadsPrevious, OrderlyReads, OrderlyReadsCandles,
   OrderlySavesEvent, OrderlySavesSnapshot, OrderlyDies DEF Next, Refresh

-----------------------------------------------------------------------------
(* The history has every change.                                             *)

\* A history that grows, and market snapshots that are seen, but not changed.
Grows(history, snapshots) ==
  /\ events \subseteq history
  /\ \A q \in Refreshes : snapshots[q] = seen[q] \/ seen[q] = 0

LEMMA ToldStays ==
  ASSUME Orderly, NEW history, NEW snapshots, Grows(history, snapshots),
         NEW row, NEW at, NEW place, NEW Q \in SUBSET Refreshes, NEW R, Q \subseteq R,
         Told(events, seen, row, at, place, Q)
  PROVE  Told(history, snapshots, row, at, place, R)
<1>1. PICK e \in events :
        /\ e.entity = row.entity /\ e.to = row.status
        /\ e.time = at \/ e.market = place \/ \E r \in Q : e.market = seen[r]
  BY DEF Told
<1>2. e.market # 0
  <2>1. e.time \in 1..clock /\ MaxSnapshots \in Nat
    BY LiveStateAssumption DEF Orderly, Typed, TypeOK
  <2>2. e.market \in 1..MaxSnapshots \/ e.market = MaxSnapshots + e.time
    BY DEF Orderly, Placed
  <2>3. clock \in Nat
    BY DEF Orderly, Typed
  <2> QED BY <2>1, <2>2, <2>3
<1>3. e \in history
  BY DEF Grows
<1>4. ASSUME NEW r \in Q, e.market = seen[r] PROVE r \in R /\ e.market = snapshots[r]
  BY <1>2, <1>4 DEF Grows
<1> QED BY <1>1, <1>3, <1>4 DEF Told

LEMMA ChangedStays ==
  ASSUME Orderly, NEW history, NEW snapshots, Grows(history, snapshots),
         NEW from, NEW to, NEW at, NEW place, NEW Q \in SUBSET Refreshes, NEW R,
         Q \subseteq R, Changed(events, seen, from, to, at, place, Q)
  PROVE  Changed(history, snapshots, from, to, at, place, R)
BY ToldStays DEF Changed

\* The refreshes behind a row.
Behind(x) == met[x.by] \cup {x.by}

LEMMA BehindARow ==
  ASSUME Orderly, NEW x \in saved
  PROVE  /\ x.by \in Refreshes /\ pc[x.by] = "done" /\ Behind(x) \in SUBSET Refreshes
         /\ x.at \in Nat
BY DEF Orderly, Backing, RowsAreDone, Shape, Typed, TypeOK, Behind

LEMMA RecordedStays ==
  ASSUME Orderly, Recorded(events, seen, saved, met),
         NEW history, NEW snapshots, Grows(history, snapshots),
         NEW with, \A x \in saved : with[x.by] = met[x.by]
  PROVE  Recorded(history, snapshots, saved, with)
<1> SUFFICES ASSUME NEW x \in saved, NEW y \in saved, Adjacent(saved, x, y),
                    x.by \notin with[y.by]
             PROVE  Changed(history, snapshots, x.statuses, y.statuses, y.at, y.market,
                            with[y.by] \cup {y.by})
  BY DEF Recorded
<1>1. Changed(events, seen, x.statuses, y.statuses, y.at, y.market, Behind(y))
  BY DEF Recorded, Behind
<1>2. Behind(y) \in SUBSET Refreshes /\ Behind(y) \subseteq with[y.by] \cup {y.by}
  BY BehindARow DEF Behind
<1> QED BY <1>1, <1>2, ChangedStays

LEMMA BasisStays ==
  ASSUME Orderly, NEW history, NEW snapshots, Grows(history, snapshots),
         NEW with, NEW read, NEW q \in Refreshes, met[q] \subseteq with[q], read[q] = prev[q],
         \A x \in saved : with[x.by] = met[x.by],
         NEW w \in saved, Basis(events, seen, saved, met, prev, q, w)
  PROVE  Basis(history, snapshots, saved, with, read, q, w)
<1>1. /\ \A x \in saved : x.by \in with[q] \/ x.at <= w.at
      /\ w.by \in with[q] \/ read[q] = w.statuses
  BY DEF Basis
<1>2. ASSUME NEW x \in saved, Adjacent(saved, x, w),
             x.by \notin with[w.by] \cup {w.by} \cup with[q]
      PROVE  Changed(history, snapshots, x.statuses, read[q], w.at, w.market,
                     with[w.by] \cup {w.by})
  <2>1. Changed(events, seen, x.statuses, prev[q], w.at, w.market, Behind(w))
    BY <1>2 DEF Basis, Behind
  <2>2. Behind(w) \in SUBSET Refreshes /\ Behind(w) \subseteq with[w.by] \cup {w.by}
    BY BehindARow DEF Behind
  <2> QED BY <2>1, <2>2, ChangedStays
<1> QED BY <1>1, <1>2 DEF Basis

\* What refresh q knows of the rows.
Informed(history, snapshots, table, with, read, stamped, time, q) ==
  \/ Unread(table, with, read, q)
  \/ \E w \in table : /\ stamped => w.at <= time
                      /\ Basis(history, snapshots, table, with, read, q, w)

LEMMA InformedStays ==
  ASSUME Orderly, NEW history, NEW snapshots, Grows(history, snapshots),
         NEW with, NEW read, NEW q \in Refreshes, met[q] \subseteq with[q], read[q] = prev[q],
         \A x \in saved : with[x.by] = met[x.by], NEW stamped, NEW time,
         stamped => (Stamped(q) /\ time = now[q]) \/ \A x \in saved : x.at <= time,
         Informed(events, seen, saved, met, prev, Stamped(q), now[q], q)
  PROVE  Informed(history, snapshots, saved, with, read, stamped, time, q)
<1>1. CASE Unread(saved, met, prev, q)
  <2>1. Unread(saved, with, read, q)
    BY <1>1 DEF Unread
  <2> QED BY <2>1 DEF Informed
<1>2. CASE \E w \in saved : /\ Stamped(q) => w.at <= now[q]
                            /\ Basis(events, seen, saved, met, prev, q, w)
  <2>1. PICK w \in saved : /\ Stamped(q) => w.at <= now[q]
                           /\ Basis(events, seen, saved, met, prev, q, w)
    BY <1>2
  <2>2. Basis(history, snapshots, saved, with, read, q, w)
    BY <2>1, BasisStays
  <2> QED BY <2>1, <2>2 DEF Informed
<1> QED BY <1>1, <1>2 DEF Informed

AllRecorded ==
  /\ Orderly /\ Recorded(events, seen, saved, met)
  /\ \A q \in Pending : Informed(events, seen, saved, met, prev, Stamped(q), now[q], q)

LEMMA AllRecordedInit == Init => AllRecorded
BY OrderlyInit DEF Init, AllRecorded, Recorded, Pending

\* Steps that save no row and begin no refresh.
LEMMA NoRowStep ==
  ASSUME AllRecorded, UNCHANGED <<saved, met>>, Orderly', Grows(events', seen'),
         \A q \in Refreshes : q \in Pending' =>
           /\ q \in Pending /\ prev'[q] = prev[q]
           /\ Stamped(q)' => (Stamped(q) /\ now'[q] = now[q])
                             \/ \A x \in saved : x.at <= now'[q]
  PROVE  AllRecorded'
<1>1. Recorded(events', seen', saved', met')
  BY RecordedStays DEF AllRecorded
<1>2. ASSUME NEW q \in Refreshes, q \in Pending'
      PROVE  Informed(events', seen', saved', met', prev', Stamped(q)', now'[q], q)
  <2>1. Informed(events, seen, saved, met, prev, Stamped(q), now[q], q)
    BY <1>2 DEF AllRecorded
  <2>2. met[q] \subseteq met'[q] /\ prev'[q] = prev[q]
        /\ \A x \in saved : met'[x.by] = met[x.by]
    BY <1>2
  <2>3. Stamped(q)' => (Stamped(q) /\ now'[q] = now[q]) \/ \A x \in saved : x.at <= now'[q]
    BY <1>2
  <2>4. Informed(events', seen', saved, met', prev', Stamped(q)', now'[q], q)
    BY <2>1, <2>2, <2>3, InformedStays DEF AllRecorded
  <2> QED BY <2>4
<1>3. \A q \in Pending' : q \in Refreshes
  BY DEF Pending
<1> QED BY <1>1, <1>2, <1>3 DEF AllRecorded

LEMMA RecordedSteps ==
  ASSUME AllRecorded,
         \/ Tick \/ UNCHANGED vars
         \/ \E r \in Refreshes : \/ ReadsMarket(r) \/ Stamps(r) \/ ReadsCandles(r)
                                 \/ SavesEvent(r) \/ Dies(r)
  PROVE  AllRecorded'
<1>1. Orderly'
  BY OrderlyNext DEF AllRecorded, Next, Refresh
<1>2. UNCHANGED <<saved, met>> /\ events \subseteq events'
  BY DEF Tick, ReadsMarket, Stamps, ReadsCandles, SavesEvent, Dies, vars, world, rows, Insert
<1>3. Grows(events', seen')
  <2>1. ASSUME NEW q \in Refreshes PROVE seen'[q] = seen[q] \/ seen[q] = 0
    <3>1. CASE UNCHANGED seen
      BY <3>1
    <3>2. CASE \E r \in Refreshes : ReadsMarket(r)
      BY <3>2 DEF ReadsMarket, Goes, AllRecorded, Orderly, Unseen, Typed, TypeOK
    <3> QED BY <3>1, <3>2 DEF Tick, Stamps, ReadsCandles, SavesEvent, Dies, vars
  <2> QED BY <1>2, <2>1 DEF Grows
<1>4. ASSUME NEW q \in Refreshes, q \in Pending'
      PROVE  /\ q \in Pending /\ prev'[q] = prev[q]
             /\ Stamped(q)' => (Stamped(q) /\ now'[q] = now[q])
                               \/ \A x \in saved : x.at <= now'[q]
  <2>1. CASE Tick \/ UNCHANGED vars
    BY <1>4, <2>1 DEF Tick, vars, Pending, Stamped
  <2>2. ASSUME NEW r \in Refreshes, ReadsMarket(r)
        PROVE  /\ q \in Pending /\ prev'[q] = prev[q]
               /\ Stamped(q)' => (Stamped(q) /\ now'[q] = now[q])
    BY <1>4, <2>2 DEF ReadsMarket, Goes, Pending, Stamped, AllRecorded, Orderly, Typed, TypeOK
  <2>3. ASSUME NEW r \in Refreshes, Stamps(r)
        PROVE  /\ q \in Pending /\ prev'[q] = prev[q]
               /\ Stamped(q)' => (Stamped(q) /\ now'[q] = now[q])
                                 \/ \A x \in saved : x.at <= now'[q]
    <3>1. \A x \in saved : x.at <= clock
      BY DEF AllRecorded, Orderly, Typed, TypeOK
    <3> QED BY <1>4, <2>3, <3>1 DEF Stamps, Goes, Pending, Stamped, AllRecorded, Orderly,
                                    Typed, TypeOK
  <2>4. ASSUME NEW r \in Refreshes, ReadsCandles(r)
        PROVE  /\ q \in Pending /\ prev'[q] = prev[q]
               /\ Stamped(q)' => (Stamped(q) /\ now'[q] = now[q])
    <3>1. UNCHANGED <<prev, now>> /\ pc[r] = "candles"
          /\ \A p \in Refreshes \ {r} : pc'[p] = pc[p]
      BY <2>4 DEF ReadsCandles, Goes, AllRecorded, Orderly, Typed, TypeOK
    <3> QED BY <1>4, <3>1 DEF Pending, Stamped
  <2>5. ASSUME NEW r \in Refreshes, SavesEvent(r)
        PROVE  /\ q \in Pending /\ prev'[q] = prev[q]
               /\ Stamped(q)' => (Stamped(q) /\ now'[q] = now[q])
    <3>1. UNCHANGED <<prev, now>> /\ pc[r] = "events"
          /\ \A p \in Refreshes \ {r} : pc'[p] = pc[p]
      BY <2>5 DEF SavesEvent, Goes, AllRecorded, Orderly, Typed, TypeOK
    <3> QED BY <1>4, <3>1 DEF Pending, Stamped
  <2>6. ASSUME NEW r \in Refreshes, Dies(r)
        PROVE  /\ q \in Pending /\ prev'[q] = prev[q]
               /\ Stamped(q)' => (Stamped(q) /\ now'[q] = now[q])
    BY <1>4, <2>6 DEF Dies, Forgets, Pending, Stamped, AllRecorded, Orderly, Typed, TypeOK
  <2> QED BY <2>1, <2>2, <2>3, <2>4, <2>5, <2>6
<1> QED BY <1>1, <1>2, <1>3, <1>4, NoRowStep

LEMMA RecordedReadsPrevious ==
  ASSUME AllRecorded, NEW r \in Refreshes, ReadsPrevious(r)
  PROVE  AllRecorded'
<1>1. /\ pc[r] = "new" /\ pc' = [pc EXCEPT ![r] = "load"]
      /\ prev' = [prev EXCEPT ![r] = LatestOf(saved)]
      /\ met' = [q \in Refreshes |-> IF q = r THEN Pending
                                     ELSE IF q \in Pending THEN met[q] \cup {r}
                                     ELSE met[q]]
      /\ UNCHANGED <<events, saved, seen, now>>
  BY DEF ReadsPrevious, Goes, rows
<1>2. Orderly /\ Orderly' /\ Recorded(events, seen, saved, met)
  BY OrderlyReadsPrevious DEF AllRecorded
<1>3. Grows(events, seen)
  BY DEF Grows
<1>4. \A x \in saved : met'[x.by] = met[x.by]
  BY <1>1, <1>2, BehindARow DEF Pending
<1>5. Recorded(events, seen, saved, met')
  BY <1>2, <1>3, <1>4, RecordedStays
<1>6. /\ pc'[r] = "load" /\ prev'[r] = LatestOf(saved)
      /\ \A q \in Refreshes \ {r} : /\ pc'[q] = pc[q] /\ prev'[q] = prev[q]
                                    /\ met[q] \subseteq met'[q]
  BY <1>1, <1>2 DEF Orderly, Typed, TypeOK
<1>7. ASSUME NEW q \in Refreshes \ {r}, q \in Pending'
      PROVE  Informed(events, seen, saved, met', prev', Stamped(q)', now[q], q)
  <2>1. q \in Pending /\ (Stamped(q)' => Stamped(q))
    BY <1>6, <1>7 DEF Pending, Stamped
  <2>2. Informed(events, seen, saved, met, prev, Stamped(q), now[q], q)
    BY <2>1 DEF AllRecorded
  <2>3. met[q] \subseteq met'[q] /\ prev'[q] = prev[q]
    BY <1>6
  <2> QED BY <1>2, <1>3, <1>4, <2>1, <2>2, <2>3, InformedStays
<1>8. Informed(events, seen, saved, met', prev', Stamped(r)', now[r], r)
  <2>1. CASE saved = {}
    <3>1. Unread(saved, met', prev', r)
      BY <1>6, <2>1 DEF Unread, LatestOf
    <3> QED BY <3>1 DEF Informed
  <2>2. CASE saved # {}
    <3>1. PICK w \in saved : (\A y \in saved : y.at <= w.at) /\ LatestOf(saved) = w.statuses
      BY <1>2, <2>2, LatestIs DEF Orderly
    <3>2. ASSUME NEW x \in saved, Adjacent(saved, x, w), x.by \notin met'[w.by] \cup {w.by}
          PROVE  Changed(events, seen, x.statuses, w.statuses, w.at, w.market,
                         met'[w.by] \cup {w.by})
      BY <1>5, <3>2 DEF Recorded
    <3>3. Basis(events, seen, saved, met', prev', r, w)
      BY <1>6, <3>1, <3>2 DEF Basis
    <3>4. ~Stamped(r)'
      BY <1>6 DEF Stamped
    <3> QED BY <3>3, <3>4 DEF Informed
  <2> QED BY <2>1, <2>2
<1> QED BY <1>1, <1>2, <1>5, <1>7, <1>8 DEF AllRecorded, Pending

\* The table when the row of refresh r is saved.
LEMMA RowsAfter ==
  ASSUME Orderly, NEW r \in Refreshes, SavesSnapshot(r), NEW row, IsRowOf(r, row)
  PROVE  /\ row \in saved' /\ row.by = r
         /\ \A x \in saved' : x = row \/ (x \in saved /\ x.at # row.at /\ x.by # r)
         /\ \A x \in saved : x \in saved' \/ x.at = row.at
         /\ \A x \in saved : /\ x.by # r /\ met'[x.by] = met[x.by]
                             /\ x.at = row.at => /\ Behind(x) \subseteq met'[r]
                                                 /\ x.market = row.market
         /\ met[r] \subseteq met'[r] /\ UNCHANGED <<events, seen>>
<1>1. /\ pc[r] = "save"
      /\ met' = [met EXCEPT ![r] = @ \cup UNION {met[y.by] \cup {y.by} :
                                              y \in {x \in saved : x.at = now[r]}}]
      /\ UNCHANGED <<events, seen>>
  BY DEF SavesSnapshot, Goes
<1>2. /\ row.at = now[r] /\ row.by = r
      /\ saved' = {y \in saved : y.at # now[r]} \cup {row}
      /\ \A y \in saved : y.at = now[r] => row.market = y.market
  BY DEF IsRowOf
<1>3. \A x \in saved : x.by # r /\ x.by \in Refreshes
  BY <1>1, BehindARow
<1>4. met'[r] = met[r] \cup UNION {met[y.by] \cup {y.by} : y \in {x \in saved : x.at = now[r]}}
      /\ \A q \in Refreshes \ {r} : met'[q] = met[q]
  BY <1>1 DEF Orderly, Typed, TypeOK
<1>5. \A x \in saved : x.at = row.at => Behind(x) \subseteq met'[r]
  BY <1>2, <1>4 DEF Behind
<1> QED BY <1>1, <1>2, <1>3, <1>4, <1>5

LEMMA AdjacentBefore ==
  ASSUME Orderly, NEW r \in Refreshes, SavesSnapshot(r), NEW row, IsRowOf(r, row),
         NEW x \in saved, NEW y, NEW z, z.at = y.at, Adjacent(saved', x, y)
  PROVE  Adjacent(saved, x, z)
BY RowsAfter DEF Adjacent

\* A status that the saved row changes has its event.
LEMMA RowTells ==
  ASSUME Orderly, NEW r \in Refreshes, SavesSnapshot(r), NEW row, IsRowOf(r, row),
         NEW i \in DOMAIN row.statuses, row.statuses[i].status \in Reported,
         Before(r, i) # row.statuses[i].status, NEW R, r \in R
  PROVE  Told(events, seen, row.statuses[i], row.at, row.market, R)
<1>1. /\ pc[r] = "save" /\ todo[r] = {} /\ now[r] # 0 /\ now[r] \in Nat /\ MaxSnapshots \in Nat
      /\ \A e \in events : e.time \in Nat
  <2>1. pc[r] = "save"
    BY DEF SavesSnapshot, Goes
  <2>2. todo[r] = {} /\ now[r] # 0
    BY <2>1 DEF Orderly, Typed, TypeOK
  <2>3. clock \in Nat /\ now[r] \in 0..clock /\ \A e \in events : e.time \in 1..clock
    BY DEF Orderly, Typed, TypeOK
  <2>4. now[r] \in Nat /\ \A e \in events : e.time \in Nat
    BY <2>3
  <2> QED BY <2>1, <2>2, <2>4, LiveStateAssumption
<1>2. row.at = now[r] /\ row.statuses = state[r][1]
  BY DEF IsRowOf
<1>3. i \in Transitions(r, state[r][1])
  BY <1>2 DEF Transitions
<1>4. PICK e \in events : /\ e.entity = row.statuses[i].entity
                          /\ e.to = row.statuses[i].status /\ e.market = Place(r)
  BY <1>1, <1>2, <1>3 DEF Orderly, Wrote, Ready
<1>5. CASE seen[r] > 0
  <2>1. e.market = seen[r]
    BY <1>4, <1>5 DEF Place
  <2> QED BY <1>4, <2>1 DEF Told
<1>6. CASE ~(seen[r] > 0)
  <2>1. e.market = MaxSnapshots + now[r]
    BY <1>4, <1>6 DEF Place
  <2>2. e.market \in 1..MaxSnapshots \/ e.market = MaxSnapshots + e.time
    BY DEF Orderly, Placed
  <2>3. e.time = row.at
    BY <1>1, <1>2, <2>1, <2>2
  <2> QED BY <1>4, <2>3 DEF Told
<1> QED BY <1>5, <1>6

LEMMA NewRowRecorded ==
  ASSUME AllRecorded, NEW r \in Refreshes, SavesSnapshot(r), NEW row, IsRowOf(r, row),
         NEW x \in saved, Adjacent(saved', x, row), x.by \notin met'[r]
  PROVE  Changed(events, seen, x.statuses, row.statuses, row.at, row.market,
                 met'[r] \cup {r})
<1>1. /\ pc[r] = "save" /\ r \in Pending /\ Stamped(r) /\ row.at = now[r] /\ Orderly
      /\ row.statuses = state[r][1]
  BY DEF SavesSnapshot, Goes, Pending, Stamped, IsRowOf, AllRecorded
<1>2. /\ row \in saved' /\ met[r] \subseteq met'[r] /\ row.at \in Nat
      /\ \A z \in saved : z \in saved' \/ z.at = row.at
      /\ \A z \in saved : z.at = row.at => Behind(z) \subseteq met'[r] /\ z.market = row.market
  BY <1>1, RowsAfter DEF Orderly, Typed, TypeOK
<1>3. Informed(events, seen, saved, met, prev, TRUE, now[r], r)
  BY <1>1 DEF AllRecorded, Informed
<1>4. ~Unread(saved, met, prev, r)
  BY <1>2 DEF Unread
<1>5. PICK w \in saved : w.at <= now[r] /\ Basis(events, seen, saved, met, prev, r, w)
  BY <1>3, <1>4 DEF Informed
<1>6. x.at <= w.at /\ x.at \in Nat /\ w.at \in Nat /\ x.at < row.at
  BY <1>1, <1>2, <1>5, BehindARow DEF Basis, Adjacent
<1>7. ASSUME NEW i \in DOMAIN row.statuses,
             row.statuses[i].status \in Reported \ {x.statuses[i].status}
      PROVE  Told(events, seen, row.statuses[i], row.at, row.market, met'[r] \cup {r})
  <2>1. CASE Before(r, i) # row.statuses[i].status
    BY <1>1, <1>7, <2>1, RowTells
  <2>2. CASE Before(r, i) = row.statuses[i].status
    <3>1. prev[r] # << >> /\ prev[r][i].status = row.statuses[i].status
      BY <1>7, <2>2 DEF Before, None, Reported
    <3>2. i \in DOMAIN prev[r] /\ prev[r][i].entity = row.statuses[i].entity
      BY <1>1, <3>1 DEF Orderly, Laid, LaidOut, Ready
    <3>3. w.at = row.at
      <4>1. SUFFICES ASSUME w.at < row.at PROVE FALSE
        BY <1>1, <1>2, <1>5, <1>6
      <4>2. x.at = w.at
        BY <1>2, <1>6, <4>1 DEF Adjacent
      <4>3. x = w
        BY <1>1, <4>2 DEF Orderly, Typed, TypeOK
      <4>4. prev[r] = x.statuses
        BY <1>2, <1>5, <4>3 DEF Basis
      <4> QED BY <1>7, <3>1, <4>4
    <3>4. Adjacent(saved, x, w)
      BY <1>1, <3>3, AdjacentBefore
    <3>5. Behind(w) \subseteq met'[r] /\ w.market = row.market
      BY <1>2, <3>3
    <3>6. x.by \notin met[w.by] \cup {w.by} \cup met[r]
      BY <1>2, <3>5 DEF Behind
    <3>7. Changed(events, seen, x.statuses, prev[r], w.at, w.market, Behind(w))
      BY <1>5, <3>4, <3>6 DEF Basis, Behind
    <3>8. Told(events, seen, prev[r][i], row.at, row.market, Behind(w))
      BY <1>7, <3>1, <3>2, <3>3, <3>5, <3>7 DEF Changed
    <3> QED BY <3>1, <3>2, <3>5, <3>8 DEF Told
  <2> QED BY <2>1, <2>2
<1> QED BY <1>7 DEF Changed

\* The row takes the place of the one that another refresh read, too.
LEMMA BasisMoves ==
  ASSUME AllRecorded, NEW r \in Refreshes, SavesSnapshot(r), NEW row, IsRowOf(r, row),
         NEW q \in Refreshes \ {r}, r \in met[q], met'[q] = met[q], prev'[q] = prev[q],
         NEW w \in saved, Basis(events, seen, saved, met, prev, q, w)
  PROVE  \E v \in saved' : v.at = w.at /\ Basis(events, seen, saved', met', prev', q, v)
<1>1. /\ Orderly /\ row \in saved' /\ row.by = r
      /\ \A x \in saved' : x = row \/ (x \in saved /\ x.at # row.at /\ x.by # r)
      /\ \A x \in saved : x \in saved' \/ x.at = row.at
      /\ \A x \in saved : met'[x.by] = met[x.by] /\
           (x.at = row.at => Behind(x) \subseteq met'[r] /\ x.market = row.market)
  BY RowsAfter DEF AllRecorded
<1>2. PICK v \in saved' : /\ v.at = w.at /\ v.market = w.market
                          /\ (v = w /\ w # row) \/ v = row
                          /\ Behind(w) \subseteq met'[v.by] \cup {v.by}
  <2>1. CASE w \in saved' /\ w # row
    BY <1>1, <2>1 DEF Behind
  <2>2. CASE ~(w \in saved' /\ w # row)
    <3>1. w.at = row.at
      BY <1>1, <2>2
    <3> QED BY <1>1, <3>1
  <2> QED BY <2>1, <2>2
<1>3. \A x \in saved' : x.by \in met'[q] \/ x.at <= v.at
  BY <1>1, <1>2 DEF Basis
<1>4. v.by \in met'[q] \/ prev'[q] = v.statuses
  BY <1>1, <1>2 DEF Basis
<1>5. ASSUME NEW x \in saved', Adjacent(saved', x, v),
             x.by \notin met'[v.by] \cup {v.by} \cup met'[q]
      PROVE  Changed(events, seen, x.statuses, prev'[q], v.at, v.market,
                     met'[v.by] \cup {v.by})
  <2>1. x \in saved
    BY <1>1, <1>5
  <2>2. Adjacent(saved, x, w)
    BY <1>1, <1>2, <1>5, <2>1, AdjacentBefore
  <2>3. x.by \notin met[w.by] \cup {w.by} \cup met[q]
    BY <1>2, <1>5 DEF Behind
  <2>4. Changed(events, seen, x.statuses, prev[q], v.at, v.market, Behind(w))
    BY <1>2, <2>1, <2>2, <2>3 DEF Basis, Behind
  <2> DEFINE R == met'[v.by] \cup {v.by}
  <2>5. Grows(events, seen) /\ Behind(w) \in SUBSET Refreshes /\ Behind(w) \subseteq R
    BY <1>1, <1>2, BehindARow DEF Grows
  <2> HIDE DEF R
  <2>6. Changed(events, seen, x.statuses, prev[q], v.at, v.market, R)
    BY <1>1, <2>4, <2>5, ChangedStays
  <2> QED BY <2>6 DEF R
<1> QED BY <1>2, <1>3, <1>4, <1>5 DEF Basis

LEMMA RecordedSavesSnapshot ==
  ASSUME AllRecorded, NEW r \in Refreshes, SavesSnapshot(r)
  PROVE  AllRecorded'
<1>1. Orderly /\ Orderly'
  BY OrderlySavesSnapshot DEF AllRecorded
<1>2. PICK row : IsRowOf(r, row)
  BY <1>1, RowIsSaved DEF Orderly
<1>3. /\ row \in saved' /\ row.by = r /\ UNCHANGED <<events, seen>>
      /\ \A x \in saved' : x = row \/ (x \in saved /\ x.at # row.at /\ x.by # r)
      /\ \A x \in saved : /\ x.by # r /\ met'[x.by] = met[x.by]
  BY <1>1, <1>2, RowsAfter
<1>4. /\ pc[r] = "save" /\ pc'[r] = "done" /\ row.at = now[r]
      /\ \A q \in Refreshes \ {r} : /\ pc'[q] = pc[q] /\ met'[q] = met[q]
                                    /\ prev'[q] = prev[q] /\ now'[q] = now[q]
  BY <1>1, <1>2 DEF SavesSnapshot, Goes, Forgets, Orderly, Typed, TypeOK, IsRowOf
<1>5. ASSUME NEW x \in saved', NEW y \in saved', Adjacent(saved', x, y),
             x.by \notin met'[y.by]
      PROVE  Changed(events, seen, x.statuses, y.statuses, y.at, y.market,
                     met'[y.by] \cup {y.by})
  <2>1. x.at < y.at /\ x.at \in Nat /\ y.at \in Nat
    <3>1. clock' \in Nat /\ \A z \in saved' : z.at \in 1..clock'
      BY <1>1 DEF Orderly, Typed, TypeOK
    <3>2. x.at \in Nat /\ y.at \in Nat
      BY <3>1
    <3> QED BY <1>5, <3>2 DEF Adjacent
  <2>2. CASE y = row
    <3>1. x \in saved
      BY <1>3, <2>1, <2>2
    <3> QED BY <1>2, <1>3, <1>5, <2>2, <3>1, NewRowRecorded
  <2>3. CASE y # row /\ x = row
    <3>1. y \in saved /\ met'[y.by] = met[y.by] /\ y.at > now[r]
      BY <1>3, <1>4, <2>1, <2>3
    <3>2. r \in met[y.by]
      BY <1>1, <1>4, <3>1 DEF Orderly, Overtaken, Stamped
    <3> QED BY <1>3, <1>5, <2>3, <3>1, <3>2
  <2>4. CASE y # row /\ x # row
    <3>1. x \in saved /\ y \in saved /\ met'[y.by] = met[y.by]
      BY <1>3, <2>4
    <3>2. Adjacent(saved, x, y)
      BY <1>1, <1>2, <1>5, <3>1, AdjacentBefore
    <3> QED BY <1>5, <3>1, <3>2 DEF AllRecorded, Recorded
  <2> QED BY <2>2, <2>3, <2>4
<1>6. Recorded(events', seen', saved', met')
  BY <1>3, <1>5 DEF Recorded
<1>7. ASSUME NEW q \in Refreshes, q \in Pending'
      PROVE  Informed(events', seen', saved', met', prev', Stamped(q)', now'[q], q)
  <2>1. /\ q # r /\ q \in Pending /\ r \in Pending /\ (Stamped(q)' <=> Stamped(q))
        /\ met'[q] = met[q] /\ prev'[q] = prev[q] /\ now'[q] = now[q]
    BY <1>4, <1>7 DEF Pending, Stamped
  <2>2. r \in met[q]
    BY <1>1, <2>1 DEF Orderly, Meets
  <2>3. Informed(events, seen, saved, met, prev, Stamped(q), now[q], q)
    BY <2>1 DEF AllRecorded
  <2>4. CASE Unread(saved, met, prev, q)
    <3>1. Unread(saved', met', prev', q)
      BY <1>3, <2>1, <2>2, <2>4 DEF Unread
    <3> QED BY <3>1 DEF Informed
  <2>5. CASE \E w \in saved : /\ Stamped(q) => w.at <= now[q]
                              /\ Basis(events, seen, saved, met, prev, q, w)
    <3>1. PICK w \in saved : /\ Stamped(q) => w.at <= now[q]
                             /\ Basis(events, seen, saved, met, prev, q, w)
      BY <2>5
    <3>2. PICK v \in saved' : v.at = w.at /\ Basis(events, seen, saved', met', prev', q, v)
      BY <1>2, <2>1, <2>2, <3>1, BasisMoves
    <3>3. Basis(events', seen', saved', met', prev', q, v)
      BY <1>3, <3>2
    <3> QED BY <2>1, <3>1, <3>2, <3>3 DEF Informed
  <2> QED BY <2>3, <2>4, <2>5 DEF Informed
<1>8. \A q \in Pending' : q \in Refreshes
  BY DEF Pending
<1> QED BY <1>1, <1>6, <1>7, <1>8 DEF AllRecorded

LEMMA AllRecordedNext ==
  ASSUME AllRecorded, [Next]_vars
  PROVE  AllRecorded'
BY RecordedSteps, RecordedReadsPrevious, RecordedSavesSnapshot DEF Next, Refresh

LEMMA ChangesRecorded == Recorded(events, seen, saved, met) <=> EveryChangeIsRecorded
BY DEF Recorded, Changed, Told, Adjacent, EveryChangeIsRecorded, Follows

\* Between two saved snapshots that follow each other no status is taken that
\* the history does not have, unless the refreshes of both were under way at
\* the same time.
THEOREM ChangesAreRecorded == Spec => []EveryChangeIsRecorded
<1>1. AllRecorded /\ [Next]_vars => AllRecorded'
  BY AllRecordedNext
<1>2. AllRecorded => EveryChangeIsRecorded
  BY ChangesRecorded DEF AllRecorded
<1> QED BY AllRecordedInit, <1>1, <1>2, PTL DEF Spec

-----------------------------------------------------------------------------
(* Changes that happened twice.  What a refresh that met no other reports    *)
(* differs from the row it read, which is the last that was saved and is no  *)
(* older than any event of a refresh that ended before it began.  Two such   *)
(* refreshes may be stamped with the same time: the later one has read the   *)
(* row of that time, and sees the market and the candles of that time.       *)

\* The things of a scenario that have a status have names of their own.
DistinctThings ==
  \A s \in Scenarios : \A i, j \in DOMAIN Statuses(s, Blank) :
    Statuses(s, Blank)[i].entity = Statuses(s, Blank)[j].entity => i = j

\* The refresh of the event has ended well, and met no other.
Ended(e) == pc[e.by] = "done" /\ e.by \notin lost /\ met[e.by] = {}

FoundAs ==
  \A e \in events : pc[e.by] # "done" =>
    Ready(e.by) /\ \E i \in DOMAIN state[e.by][1] \ todo[e.by] : e = Event(e.by, i)
OnePer == \A d, e \in events : d.by = e.by /\ d.entity = e.entity => d = e
Current ==
  \A q \in Refreshes : Ready(q) /\ now[q] = clock =>
    state[q][1] = Statuses(scenario, View(seen[q], clock))
After ==
  \A e \in events : \A q \in Refreshes :
    Stamped(q) /\ q # e.by /\ q \notin met[e.by] => e.time <= now[q]
SeesNow ==
  \A e \in events : Ended(e) /\ e.time = clock =>
    \A q \in Pending : pc[q] = "load" \/ seen[q] = Len(market)
RowsToday ==
  \A e \in events : Ended(e) /\ e.time = clock =>
    \A x \in saved : x.at = clock =>
      x.by = e.by \/ x.statuses = Statuses(scenario, View(Len(market), clock))

\* A view of the candles there are in which the thing has the status.
ShowsIn(e, u) ==
  \A i \in DOMAIN Statuses(scenario, u) :
    Statuses(scenario, u)[i].entity = e.entity => Statuses(scenario, u)[i].status = e.to
CandlesToday ==
  \A e \in events : e.time = clock => \E u : u.candles = candles /\ ShowsIn(e, u)

\* A view of a market snapshot at a time, on any candles.
Sighted(z, snapshot, time) ==
  /\ z.price = View(snapshot, time).price /\ z.stale = View(snapshot, time).stale
  /\ z.now = time
Seeing(q) == IF pc[q] = "load" THEN Len(market) ELSE seen[q]
Instant(q) == IF Stamped(q) THEN now[q] ELSE clock

Viewed ==
  \A q \in Refreshes : Ready(q) =>
    \E z : Sighted(z, seen[q], now[q]) /\ state[q][1] = Statuses(scenario, z)

\* What q has read of the thing is what the event reports, or what q will find.
Rereads(q, e) ==
  \A z : Sighted(z, Seeing(q), e.time) =>
    \A i \in DOMAIN prev[q] : prev[q][i].entity = e.entity =>
      prev[q][i].status = e.to \/ prev[q][i].status = Statuses(scenario, z)[i].status
Same ==
  \A e \in events : Ended(e) =>
    \A q \in Pending : met[q] = {} /\ Instant(q) = e.time => Rereads(q, e)

\* A row before the second event shows what that event changes.
Shown(table, d, e) ==
  \E x \in table : /\ d.time <= x.at /\ x.at < e.time
                   /\ \E i \in DOMAIN x.statuses : /\ x.statuses[i].entity = e.entity
                                                  /\ x.statuses[i].status = e.from
Twice(d, e) == d # e /\ d.entity = e.entity /\ d.to = e.to /\ d.time <= e.time
Ends == \A d, e \in events : Ended(d) /\ Ended(e) /\ Twice(d, e) => Shown(saved, d, e)

Alone == /\ AllRecorded /\ Viewed /\ FoundAs /\ OnePer /\ Current /\ After
         /\ SeesNow /\ RowsToday /\ CandlesToday /\ Same /\ Ends

LEMMA AloneInit == Init => Alone
<1> SUFFICES ASSUME Init PROVE Alone
  OBVIOUS
<1>1. AllRecorded
  BY AllRecordedInit
<1>2. events = {} /\ \A q \in Refreshes : ~Ready(q)
  BY DEF Init, Ready
<1> QED BY <1>1, <1>2 DEF Alone, Viewed, FoundAs, OnePer, Current, After, SeesNow,
                          RowsToday, CandlesToday, Same, Ends

LEMMA SameThing ==
  ASSUME DistinctThings, scenario \in Scenarios, NEW a, NEW b,
         LaidOut(scenario, a), LaidOut(scenario, b),
         NEW i \in DOMAIN a, NEW j \in DOMAIN b, a[i].entity = b[j].entity
  PROVE  i = j
BY DEF DistinctThings, LaidOut

\* The steps of a refresh that save no row.
Works(r) == \/ ReadsPrevious(r) \/ ReadsMarket(r) \/ Stamps(r) \/ ReadsCandles(r)
            \/ SavesEvent(r) \/ Dies(r)

\* No refresh ends well in such a step, nor when time passes.
LEMMA EndedEarlier ==
  ASSUME Orderly, Tick \/ UNCHANGED vars \/ \E r \in Refreshes : Works(r)
  PROVE  /\ \A e \in events' : Ended(e)' => e \in events /\ Ended(e)
         /\ UNCHANGED <<scenario, saved>>
<1>1. CASE Tick \/ UNCHANGED vars
  BY <1>1 DEF Tick, vars, world, rows, Ended
<1>2. ASSUME NEW r \in Refreshes, Works(r)
      PROVE  /\ \A e \in events' : Ended(e)' => e \in events /\ Ended(e)
             /\ UNCHANGED <<scenario, saved>>
  <2>0. /\ \A e \in events : e.by \in Refreshes
        /\ \A e \in events : pc[e.by] \notin {"new", "load", "stamp", "candles"}
        /\ pc \in [Refreshes -> {"new", "load", "stamp", "candles", "events", "save",
                                 "done"}]
    BY DEF Orderly, Backing, Shape, Found
  <2>1. CASE ReadsPrevious(r)
    <3>1. /\ pc[r] = "new" /\ pc' = [pc EXCEPT ![r] = "load"]
          /\ met' = [q \in Refreshes |-> IF q = r THEN Pending
                                         ELSE IF q \in Pending THEN met[q] \cup {r}
                                         ELSE met[q]]
          /\ UNCHANGED <<scenario, events, saved, lost>>
      BY <2>1 DEF ReadsPrevious, Goes, world, rows
    <3> QED BY <2>0, <3>1 DEF Ended, Pending
  <2>2. CASE ReadsMarket(r) \/ Stamps(r) \/ ReadsCandles(r)
    <3>1. /\ UNCHANGED <<scenario, events, saved, lost, met>>
          /\ \A q \in Refreshes \ {r} : pc'[q] = pc[q]
          /\ pc[r] \in {"load", "stamp", "candles"}
      BY <2>0, <2>2 DEF ReadsMarket, Stamps, ReadsCandles, Goes, world, rows
    <3> QED BY <2>0, <3>1 DEF Ended
  <2>3. CASE SavesEvent(r)
    <3>1. PICK i \in todo[r] :
            /\ pc[r] = "events"
            /\ pc' = [pc EXCEPT ![r] = IF todo[r] = {i} THEN "save" ELSE "events"]
            /\ events' = Insert(events, Event(r, i))
            /\ UNCHANGED <<scenario, saved, met, lost>>
      BY <2>3 DEF SavesEvent, Goes, world
    <3>2. /\ events' \subseteq events \cup {Event(r, i)} /\ Event(r, i).by = r
          /\ pc'[r] \in {"events", "save"} /\ \A q \in Refreshes \ {r} : pc'[q] = pc[q]
      BY <2>0, <3>1 DEF Insert, Event
    <3> QED BY <2>0, <3>1, <3>2 DEF Ended
  <2>4. CASE Dies(r)
    <3>1. /\ pc' = [pc EXCEPT ![r] = "done"] /\ lost' = lost \cup {r}
          /\ UNCHANGED <<scenario, events, saved, met>>
      BY <2>4 DEF Dies, Forgets, world, rows
    <3> QED BY <2>0, <3>1 DEF Ended
  <2> QED BY <1>2, <2>1, <2>2, <2>3, <2>4 DEF Works
<1> QED BY <1>1, <1>2

LEMMA EndsEarlier ==
  ASSUME Alone, Tick \/ UNCHANGED vars \/ \E r \in Refreshes : Works(r)
  PROVE  Ends'
<1>1. /\ \A e \in events' : Ended(e)' => e \in events /\ Ended(e)
      /\ UNCHANGED saved
  BY EndedEarlier DEF Alone, AllRecorded
<1>2. \A d, e : Shown(saved', d, e) <=> Shown(saved, d, e)
  BY <1>1
<1> QED BY <1>1, <1>2 DEF Alone, Ends, Twice

\* A market snapshot looks the same for ever.
LEMMA SightedStays ==
  ASSUME Typed, UNCHANGED market \/ MarketMoves, NEW n \in 0..Len(market), NEW time, NEW z
  PROVE  Sighted(z, n, time)' <=> Sighted(z, n, time)
<1>1. Stale(n, time)' = Stale(n, time)
  BY StaleStays
<1>2. n # 0 => market'[n].price = market[n].price
  <2>1. CASE MarketMoves
    <3>1. PICK p \in Prices : market' = Append(market, [price |-> p, captured |-> clock'])
      BY <2>1 DEF MarketMoves
    <3> QED BY <3>1 DEF Typed
  <2> QED BY <2>1
<1> QED BY <1>1, <1>2 DEF Sighted, View

\* What q is to read again is what it was.
LEMMA RereadsStays ==
  ASSUME Typed, UNCHANGED scenario, UNCHANGED market \/ MarketMoves,
         NEW q \in Refreshes, NEW e, Rereads(q, e), prev'[q] = prev[q],
         Seeing(q)' = Seeing(q), Seeing(q) \in 0..Len(market)
  PROVE  Rereads(q, e)'
<1>1. PICK n \in 0..Len(market) : n = Seeing(q)
  OBVIOUS
<1>2. ASSUME NEW z, Sighted(z, Seeing(q), e.time)' PROVE Sighted(z, Seeing(q), e.time)
  <2>1. Sighted(z, n, e.time)'
    BY <1>1, <1>2 DEF Sighted, View, Stale
  <2>2. Sighted(z, n, e.time)
    BY <2>1, SightedStays
  <2> QED BY <1>1, <2>2
<1> QED BY <1>2 DEF Rereads

\* What a refresh has found it found in a view of the market snapshot it saw.
LEMMA ViewedNext ==
  ASSUME Orderly, Viewed, [Next]_vars
  PROVE  Viewed'
<1>0. Typed
  BY DEF Orderly
<1>1. UNCHANGED scenario /\ (UNCHANGED market \/ MarketMoves)
  BY DEF Next, Tick, Refresh, ReadsPrevious, ReadsMarket, Stamps, ReadsCandles, SavesEvent,
         SavesSnapshot, Dies, vars, world
<1>2. ASSUME NEW q \in Refreshes, Ready(q)'
      PROVE  \/ Ready(q) /\ state'[q] = state[q] /\ seen'[q] = seen[q] /\ now'[q] = now[q]
             \/ ReadsCandles(q)
  <2>1. CASE Tick \/ UNCHANGED vars
    BY <1>2, <2>1 DEF Tick, vars, Ready
  <2>2. ASSUME NEW r \in Refreshes,
               ReadsPrevious(r) \/ ReadsMarket(r) \/ Stamps(r) \/ SavesSnapshot(r) \/ Dies(r)
        PROVE  Ready(q) /\ state'[q] = state[q] /\ seen'[q] = seen[q] /\ now'[q] = now[q]
    <3>1. q # r
      BY <1>0, <1>2, <2>2 DEF ReadsPrevious, ReadsMarket, Stamps, SavesSnapshot, Dies, Goes,
                              Ready, Typed, TypeOK
    <3> QED BY <1>0, <1>2, <2>2, <3>1 DEF ReadsPrevious, ReadsMarket, Stamps, SavesSnapshot,
                 Dies, Goes, Forgets, Ready, Typed, TypeOK
  <2>3. ASSUME NEW r \in Refreshes, SavesEvent(r)
        PROVE  Ready(q) /\ state'[q] = state[q] /\ seen'[q] = seen[q] /\ now'[q] = now[q]
    BY <1>0, <1>2, <2>3 DEF SavesEvent, Goes, Ready, Typed, TypeOK
  <2>4. ASSUME NEW r \in Refreshes, r # q, ReadsCandles(r)
        PROVE  Ready(q) /\ state'[q] = state[q] /\ seen'[q] = seen[q] /\ now'[q] = now[q]
    BY <1>0, <1>2, <2>4 DEF ReadsCandles, Goes, Ready, Typed, TypeOK
  <2> QED BY <2>1, <2>2, <2>3, <2>4 DEF Next, Refresh
<1>3. ASSUME NEW q \in Refreshes, Ready(q)'
      PROVE  \E z : Sighted(z, seen[q], now[q])' /\ state'[q][1] = Statuses(scenario, z)
  <2>1. PICK n \in 0..Len(market) : n = seen[q]
    BY <1>0 DEF Typed, TypeOK
  <2>2. CASE Ready(q) /\ state'[q] = state[q] /\ seen'[q] = seen[q] /\ now'[q] = now[q]
    <3>1. PICK z : Sighted(z, seen[q], now[q]) /\ state[q][1] = Statuses(scenario, z)
      BY <2>2 DEF Viewed
    <3>2. PICK time : time = now[q]
      OBVIOUS
    <3>3. Sighted(z, n, time)'
      BY <1>0, <1>1, <2>1, <3>1, <3>2, SightedStays
    <3>4. Sighted(z, seen[q], now[q])'
      BY <2>1, <2>2, <3>2, <3>3 DEF Sighted, View, Stale
    <3> QED BY <2>2, <3>1, <3>4
  <2>3. CASE ReadsCandles(q)
    <3> PICK z : z = View(seen[q], now[q])
      OBVIOUS
    <3>1. /\ UNCHANGED <<market, seen, now>> /\ state'[q][1] = Statuses(scenario, z)
      BY <1>0, <2>3 DEF ReadsCandles, world, Typed
    <3>2. Sighted(z, seen[q], now[q])'
      BY <3>1 DEF Sighted, View, Stale
    <3> QED BY <3>1, <3>2
  <2> QED BY <1>2, <1>3, <2>2, <2>3
<1> QED BY <1>1, <1>3 DEF Viewed

LEMMA AloneTick ==
  ASSUME Alone, Tick \/ UNCHANGED vars
  PROVE  Alone'
<1>0. Orderly /\ Typed /\ Alone
  BY DEF Alone, AllRecorded, Orderly
<1>1. UNCHANGED <<scenario, events, saved, pc, prev, seen, now, state, todo, met, lost>>
  BY DEF Tick, vars, world, rows
<1>2. AllRecorded' /\ Ends' /\ Viewed'
  BY <1>0, AllRecordedNext, EndsEarlier, ViewedNext DEF Alone, Next
<1>3. FoundAs' /\ OnePer' /\ After'
  BY <1>1 DEF Alone, FoundAs, OnePer, After, Ready, Stamped, Event, Before, Place
<1>4. CASE Tick
  <2>1. /\ clock' = clock + 1 /\ clock \in Nat
        /\ \A e \in events : e.time \in 1..clock
        /\ \A q \in Refreshes : now[q] \in 0..clock
        /\ UNCHANGED market \/ MarketMoves
    BY <1>0, <1>4 DEF Tick, Typed, TypeOK
  <2>2. /\ \A e \in events : e.time # clock'
        /\ \A q \in Refreshes : now[q] # clock'
    BY <2>1
  <2>3. Current' /\ SeesNow' /\ RowsToday' /\ CandlesToday'
    BY <1>1, <2>2 DEF Current, SeesNow, RowsToday, CandlesToday
  <2>4. ASSUME NEW e \in events, Ended(e)', NEW q \in Pending', met'[q] = {},
               Instant(q)' = e.time
        PROVE  Rereads(q, e)'
    <3>1. Ended(e) /\ q \in Pending /\ q \in Refreshes /\ met[q] = {}
      BY <1>1, <2>4 DEF Ended, Pending
    <3>2. Stamped(q) /\ Instant(q) = e.time
      BY <1>1, <2>2, <2>4 DEF Instant, Stamped
    <3>3. Rereads(q, e)
      BY <1>0, <3>1, <3>2 DEF Alone, Same
    <3>4. Seeing(q)' = Seeing(q) /\ Seeing(q) \in 0..Len(market)
      BY <1>0, <1>1, <3>1, <3>2 DEF Seeing, Stamped, Typed, TypeOK
    <3> QED BY <1>0, <1>1, <2>1, <3>1, <3>3, <3>4, RereadsStays
  <2>5. Same'
    BY <1>1, <2>4 DEF Same
  <2> QED BY <1>2, <1>3, <2>3, <2>5 DEF Alone
<1>5. CASE UNCHANGED vars
  <2>1. UNCHANGED <<market, candles, clock>>
    BY <1>5 DEF vars, world
  <2>2. Current' /\ SeesNow' /\ RowsToday' /\ CandlesToday'
    BY <1>0, <1>1, <2>1 DEF Alone, Current, SeesNow, RowsToday, CandlesToday, ShowsIn, View,
                            Stale, Ended, Ready, Pending
  <2>3. Same'
    BY <1>0, <1>1, <2>1 DEF Alone, Same, Rereads, Sighted, Seeing, Instant, Stamped, View,
                            Stale, Ended, Pending
  <2> QED BY <1>2, <1>3, <2>2, <2>3 DEF Alone
<1> QED BY <1>4, <1>5

\* The steps of one refresh that leave the market, its snapshots and the clock.
LEMMA AloneReadsPrevious ==
  ASSUME DistinctThings, Alone, NEW r \in Refreshes, ReadsPrevious(r)
  PROVE  Alone'
<1>0. Orderly /\ Typed /\ Alone
  BY DEF Alone, AllRecorded, Orderly
<1>1. /\ pc[r] = "new" /\ pc' = [pc EXCEPT ![r] = "load"]
      /\ prev' = [prev EXCEPT ![r] = LatestOf(saved)]
      /\ met' = [q \in Refreshes |-> IF q = r THEN Pending
                                     ELSE IF q \in Pending THEN met[q] \cup {r}
                                     ELSE met[q]]
      /\ UNCHANGED <<scenario, market, candles, clock, events, saved, seen, now, state,
                     todo, lost>>
  BY DEF ReadsPrevious, Goes, world, rows
<1>2. /\ pc'[r] = "load" /\ prev'[r] = LatestOf(saved) /\ met'[r] = Pending
      /\ \A q \in Refreshes \ {r} : /\ pc'[q] = pc[q] /\ prev'[q] = prev[q]
                                    /\ met[q] \subseteq met'[q]
                                    /\ q \in Pending => r \in met'[q]
  BY <1>0, <1>1 DEF Typed, TypeOK
<1>3. /\ AllRecorded' /\ Viewed' /\ Ends'
      /\ \A e \in events : Ended(e)' => Ended(e)
  <2>1. \E q \in Refreshes : Works(q)
    BY DEF Works
  <2>2. Ends' /\ \A e \in events' : Ended(e)' => Ended(e)
    BY <1>0, <2>1, EndedEarlier, EndsEarlier
  <2>3. AllRecorded' /\ Viewed'
    BY <1>0, RecordedReadsPrevious, ViewedNext DEF Alone, Next, Refresh
  <2> QED BY <1>1, <2>2, <2>3
<1>4. \A e \in events : e.by \in Refreshes \ {r}
  BY <1>0, <1>1 DEF Orderly, Backing, Shape, Found
<1>5. FoundAs' /\ OnePer'
  BY <1>0, <1>1, <1>2, <1>4 DEF Alone, FoundAs, OnePer, Ready, Event, Before, Place
<1>6. Current' /\ CandlesToday'
  BY <1>0, <1>1, <1>2 DEF Alone, Current, CandlesToday, ShowsIn, View, Stale, Ready
<1>7. After'
  BY <1>0, <1>1, <1>2, <1>4 DEF Alone, After, Stamped
<1>8. SeesNow' /\ RowsToday'
  BY <1>0, <1>1, <1>2, <1>3 DEF Alone, SeesNow, RowsToday, View, Stale, Pending
<1>9. ASSUME NEW e \in events, Ended(e)', NEW q \in Pending', met'[q] = {},
             Instant(q)' = e.time
      PROVE  Rereads(q, e)'
  <2>1. q = r /\ Pending = {}
    BY <1>2, <1>9 DEF Pending
  <2>2. Ended(e) /\ e.time = clock
    BY <1>1, <1>2, <1>3, <1>9, <2>1 DEF Instant, Stamped
  <2>3. PICK x \in saved : x.at = e.time /\
          (x.by = e.by => \E i \in DOMAIN x.statuses : /\ x.statuses[i].entity = e.entity
                                                     /\ x.statuses[i].status = e.to)
    BY <1>0, <2>2 DEF Orderly, Backing, EventsAreBacked, Ended
  <2>4. PICK w \in saved : (\A y \in saved : y.at <= w.at) /\ LatestOf(saved) = w.statuses
    BY <1>0, <2>3, LatestIs
  <2>5. w = x
    <3>1. x.at <= w.at /\ w.at \in 1..clock /\ x.at = clock /\ clock \in Nat
      BY <1>0, <2>2, <2>3, <2>4 DEF Typed, TypeOK
    <3>2. w.at = x.at
      BY <3>1
    <3> QED BY <1>0, <3>2 DEF Typed, TypeOK
  <2>6. prev'[r] = x.statuses /\ LaidOut(scenario, x.statuses) /\ scenario \in Scenarios
    BY <1>0, <1>2, <2>4, <2>5 DEF Orderly, Laid, Typed, TypeOK
  <2>7. ASSUME NEW z, Sighted(z, Seeing(r), e.time)', NEW i \in DOMAIN x.statuses,
               x.statuses[i].entity = e.entity
        PROVE  x.statuses[i].status = e.to
               \/ x.statuses[i].status = Statuses(scenario, z)[i].status
    <3>1. CASE x.by = e.by
      <4>1. PICK j \in DOMAIN x.statuses : /\ x.statuses[j].entity = e.entity
                                           /\ x.statuses[j].status = e.to
        BY <2>3, <3>1
      <4>2. i = j
        BY <2>6, <2>7, <4>1, SameThing
      <4> QED BY <4>1, <4>2
    <3>2. CASE x.by # e.by
      <4> DEFINE v == View(Len(market), clock)
      <4>1. x.statuses = Statuses(scenario, v)
        BY <1>0, <2>2, <2>3, <3>2 DEF Alone, RowsToday
      <4>2. PICK u : u.candles = candles /\ ShowsIn(e, u)
        BY <1>0, <2>2 DEF Alone, CandlesToday
      <4>3. Agree(u, v, z)
        BY <1>1, <1>2, <2>2, <2>7, <4>2 DEF Agree, Sighted, Seeing, View, Stale
      <4> HIDE DEF v
      <4>4. Between(Statuses(scenario, u), Statuses(scenario, v), Statuses(scenario, z))
        BY <2>6, <4>3, StatusesBetween
      <4>5. /\ i \in DOMAIN Statuses(scenario, u) /\ i \in 1..Len(Statuses(scenario, u))
            /\ Statuses(scenario, u)[i].entity = e.entity
        <5>1. LaidOut(scenario, Statuses(scenario, u))
          BY <2>6, StatusesLaidOut
        <5>2. DOMAIN Statuses(scenario, u) = 1..Len(Statuses(scenario, u))
          BY <2>6, StatusesDomain
        <5> QED BY <2>6, <2>7, <5>1, <5>2 DEF LaidOut
      <4>6. Statuses(scenario, u)[i].status = e.to
        BY <4>2, <4>5 DEF ShowsIn
      <4> QED BY <4>1, <4>4, <4>5, <4>6 DEF Between
    <3> QED BY <3>1, <3>2
  <2>8. \A z : Sighted(z, Seeing(r), e.time)' => \A i \in DOMAIN prev'[r] :
          prev'[r][i].entity = e.entity =>
            prev'[r][i].status = e.to \/ prev'[r][i].status = Statuses(scenario', z)[i].status
    BY <1>1, <2>6, <2>7
  <2> QED BY <2>1, <2>8 DEF Rereads
<1>10. Same'
  BY <1>1, <1>9 DEF Same
<1> QED BY <1>3, <1>5, <1>6, <1>7, <1>8, <1>10 DEF Alone

LEMMA AloneReads ==
  ASSUME Alone, NEW r \in Refreshes, ReadsMarket(r) \/ Stamps(r) \/ ReadsCandles(r) \/ Dies(r)
  PROVE  Alone'
<1>0. Orderly /\ Typed /\ Alone
  BY DEF Alone, AllRecorded, Orderly
<1>1. /\ UNCHANGED <<scenario, market, candles, clock, events, saved, met>>
      /\ \A q \in Refreshes \ {r} :
           /\ pc'[q] = pc[q] /\ seen'[q] = seen[q] /\ now'[q] = now[q]
           /\ prev'[q] = prev[q] /\ state'[q] = state[q] /\ todo'[q] = todo[q]
      /\ r \in Pending
  BY <1>0 DEF ReadsMarket, Stamps, ReadsCandles, Dies, Goes, Forgets, world, rows,
              Typed, TypeOK, Pending
<1>2. /\ AllRecorded' /\ Viewed' /\ Ends'
      /\ \A e \in events : Ended(e)' => Ended(e)
  <2>1. \E q \in Refreshes : Works(q)
    BY DEF Works
  <2>2. Ends' /\ \A e \in events' : Ended(e)' => Ended(e)
    BY <1>0, <2>1, EndedEarlier, EndsEarlier
  <2>3. AllRecorded' /\ Viewed'
    BY <1>0, RecordedSteps, ViewedNext DEF Alone, Next, Refresh
  <2> QED BY <1>1, <2>2, <2>3
<1>3. \/ /\ ReadsMarket(r) /\ pc[r] = "load" /\ pc'[r] = "stamp" /\ seen'[r] = Len(market)
         /\ prev'[r] = prev[r]
      \/ /\ Stamps(r) /\ pc[r] = "stamp" /\ pc'[r] = "candles" /\ now'[r] = clock
         /\ seen'[r] = seen[r] /\ prev'[r] = prev[r]
      \/ /\ ReadsCandles(r) /\ pc[r] = "candles" /\ pc'[r] \in {"events", "save"}
         /\ state'[r][1] = Statuses(scenario, View(seen[r], now[r]))
         /\ seen'[r] = seen[r] /\ now'[r] = now[r] /\ prev'[r] = prev[r]
      \/ Dies(r) /\ pc'[r] = "done"
  BY <1>0 DEF ReadsMarket, Stamps, ReadsCandles, Dies, Goes, Forgets, world, rows,
              Typed, TypeOK
<1>4. \A e \in events : e.by \in Refreshes /\ (pc[r] \in {"load", "stamp", "candles"} => e.by # r)
  BY <1>0 DEF Orderly, Backing, Shape, Found
<1>5. FoundAs' /\ OnePer'
  <2>1. ASSUME NEW e \in events, pc'[e.by] # "done"
        PROVE  Ready(e.by)' /\ \E i \in DOMAIN state'[e.by][1] \ todo'[e.by] : e = Event(e.by, i)'
    <3>1. e.by \in Refreshes \ {r} /\ pc[e.by] # "done"
      BY <1>1, <1>3, <1>4, <2>1
    <3>2. Ready(e.by) /\ \E i \in DOMAIN state[e.by][1] \ todo[e.by] : e = Event(e.by, i)
      BY <1>0, <3>1 DEF Alone, FoundAs
    <3> QED BY <1>1, <3>1, <3>2 DEF Ready, Event, Before, Place
  <2> QED BY <1>0, <1>1, <2>1 DEF Alone, FoundAs, OnePer
<1>6. Current' /\ CandlesToday'
  <2>1. ASSUME NEW q \in Refreshes, Ready(q)', now'[q] = clock
        PROVE  state'[q][1] = Statuses(scenario, View(seen'[q], clock))
    <3>1. CASE q = r
      BY <1>3, <2>1, <3>1 DEF Ready
    <3>2. CASE q # r
      BY <1>0, <1>1, <2>1, <3>2 DEF Alone, Current, Ready
    <3> QED BY <3>1, <3>2
  <2>2. \A q \in Refreshes : View(seen[q], clock)' = View(seen'[q], clock)
    BY <1>1 DEF View, Stale
  <2>3. Current'
    BY <1>1, <2>1, <2>2 DEF Current
  <2> QED BY <1>0, <1>1, <2>3 DEF Alone, CandlesToday, ShowsIn
<1>7. After'
  <2>1. \A e \in events : e.time <= clock
    BY <1>0 DEF Typed, TypeOK
  <2> QED BY <1>0, <1>1, <1>3, <2>1 DEF Alone, After, Stamped
<1>8. SeesNow' /\ RowsToday'
  <2>1. \A q \in Pending' : q \in Pending
    BY <1>1, <1>3 DEF Pending
  <2>2. RowsToday'
    BY <1>0, <1>1, <1>2 DEF Alone, RowsToday, View, Stale
  <2>3. SeesNow'
    BY <1>0, <1>1, <1>2, <1>3, <2>1 DEF Alone, SeesNow, Pending
  <2> QED BY <2>2, <2>3
<1>9. ASSUME NEW e \in events, Ended(e)', NEW q \in Pending', met'[q] = {},
             Instant(q)' = e.time
      PROVE  Rereads(q, e)'
  <2>1. Ended(e) /\ q \in Pending /\ q \in Refreshes /\ met[q] = {}
    BY <1>1, <1>2, <1>3, <1>9 DEF Pending
  <2>2. /\ Instant(q) = e.time /\ Seeing(q)' = Seeing(q) /\ prev'[q] = prev[q]
        /\ Seeing(q) \in 0..Len(market)
    <3>1. Len(market) \in 0..Len(market) /\ seen[q] \in 0..Len(market)
      <4>1. Len(market) \in Nat
        BY <1>0 DEF Typed
      <4> QED BY <1>0, <2>1, <4>1 DEF Typed, TypeOK
    <3>2. CASE q # r
      BY <1>1, <1>9, <2>1, <3>1, <3>2 DEF Instant, Seeing, Stamped
    <3>3. CASE q = r
      BY <1>1, <1>3, <1>9, <2>1, <3>1, <3>3 DEF Instant, Seeing, Stamped, Pending
    <3> QED BY <3>2, <3>3
  <2>3. Rereads(q, e)
    BY <1>0, <2>1, <2>2 DEF Alone, Same
  <2> QED BY <1>0, <1>1, <2>1, <2>2, <2>3, RereadsStays
<1>10. Same'
  BY <1>1, <1>9 DEF Same
<1> QED BY <1>2, <1>5, <1>6, <1>7, <1>8, <1>10 DEF Alone

LEMMA AloneSavesEvent ==
  ASSUME DistinctThings, Alone, NEW r \in Refreshes, SavesEvent(r)
  PROVE  Alone'
<1>0. Orderly /\ Typed /\ Alone
  BY DEF Alone, AllRecorded, Orderly
<1> PICK i \in todo[r] :
      /\ pc[r] = "events"
      /\ pc' = [pc EXCEPT ![r] = IF todo[r] = {i} THEN "save" ELSE "events"]
      /\ events' = Insert(events, Event(r, i))
      /\ todo' = [todo EXCEPT ![r] = @ \ {i}]
      /\ UNCHANGED <<scenario, market, candles, clock, saved, prev, seen, now, state, met,
                     lost>>
  BY DEF SavesEvent, Goes, world
<1> DEFINE new == Event(r, i)
<1>1. /\ \A q \in Refreshes \ {r} : pc'[q] = pc[q] /\ todo'[q] = todo[q]
      /\ pc'[r] \in {"events", "save"} /\ todo'[r] = todo[r] \ {i}
      /\ i \in DOMAIN state[r][1]
  BY <1>0 DEF Typed, TypeOK, Orderly, Backing, Left
<1>2. /\ events' \subseteq events \cup {new} /\ new.by = r /\ new.time = now[r]
      /\ new.entity = state[r][1][i].entity /\ new.to = state[r][1][i].status
  BY DEF Insert, Event
<1>3. \A q, j : Event(q, j)' = Event(q, j)
  BY DEF Event, Before, Place
<1>4. AllRecorded' /\ Viewed'
  BY <1>0, RecordedSteps, ViewedNext DEF Alone, Next, Refresh
<1>5. Ends' /\ \A e \in events' : Ended(e)' => e \in events /\ Ended(e)
  <2>1. \E q \in Refreshes : Works(q)
    BY DEF Works
  <2> QED BY <1>0, <2>1, EndedEarlier, EndsEarlier
<1> HIDE DEF new
<1>6. /\ \A e \in events : e.by \in Refreshes
      /\ \A q \in Refreshes : Ready(q)' <=> Ready(q)
      /\ \A q \in Refreshes : Stamped(q)' <=> Stamped(q)
      /\ Pending' = Pending
  BY <1>0, <1>1 DEF Ready, Stamped, Pending, Orderly, Backing, Shape
<1>7. FoundAs'
  <2>1. ASSUME NEW e \in events', pc'[e.by] # "done"
        PROVE  Ready(e.by)' /\ \E j \in DOMAIN state'[e.by][1] \ todo'[e.by] : e = Event(e.by, j)'
    <3>1. CASE e = new
      BY <1>1, <1>2, <1>3, <3>1 DEF Ready, new
    <3>2. CASE e \in events
      <4>1. Ready(e.by) /\ \E j \in DOMAIN state[e.by][1] \ todo[e.by] : e = Event(e.by, j)
        BY <1>0, <1>1, <1>6, <2>1, <3>2 DEF Alone, FoundAs
      <4> QED BY <1>1, <1>3, <1>6, <3>2, <4>1
    <3> QED BY <1>2, <3>1, <3>2
  <2> QED BY <2>1 DEF FoundAs
<1>8. /\ scenario \in Scenarios /\ LaidOut(scenario, state[r][1])
  BY <1>0 DEF Typed, TypeOK, Orderly, Laid, Ready
<1>9. OnePer'
  <2>1. ASSUME NEW d \in events, d.by = r, d.entity = new.entity
        PROVE  FALSE
    <3>1. PICK j \in DOMAIN state[r][1] \ todo[r] : d = Event(r, j)
      BY <1>0, <2>1 DEF Alone, FoundAs
    <3>2. state[r][1][j].entity = state[r][1][i].entity
      BY <1>2, <2>1, <3>1 DEF Event
    <3>3. i = j
      BY <1>1, <1>8, <3>1, <3>2, SameThing
    <3> QED BY <3>1, <3>3
  <2> QED BY <1>0, <1>2, <2>1 DEF Alone, OnePer
<1>10. Current' /\ RowsToday' /\ SeesNow'
  <2>1. \A n, t : View(n, t)' = View(n, t)
    BY DEF View, Stale
  <2>2. Current'
    BY <1>0, <1>6, <2>1 DEF Alone, Current
  <2>3. RowsToday'
    BY <1>0, <1>5, <2>1 DEF Alone, RowsToday
  <2>4. \A q \in Pending : pc'[q] = "load" <=> pc[q] = "load"
    BY <1>1 DEF Pending
  <2>5. SeesNow'
    BY <1>0, <1>5, <1>6, <2>4 DEF Alone, SeesNow
  <2> QED BY <2>2, <2>3, <2>5
<1>11. CandlesToday'
  <2>1. ASSUME now[r] = clock PROVE \E u : u.candles = candles /\ ShowsIn(new, u)
    <3> DEFINE u == View(seen[r], clock)
    <3>1. u.candles = candles
      BY DEF View
    <3>2. state[r][1] = Statuses(scenario, u)
      BY <1>0, <2>1 DEF Alone, Current, Ready
    <3> HIDE DEF u
    <3>3. ASSUME NEW j \in DOMAIN Statuses(scenario, u),
                 Statuses(scenario, u)[j].entity = new.entity
          PROVE  Statuses(scenario, u)[j].status = new.to
      <4>1. j = i
        BY <1>1, <1>2, <1>8, <3>2, <3>3, SameThing
      <4> QED BY <1>2, <3>2, <4>1
    <3> QED BY <3>1, <3>3 DEF ShowsIn
  <2>2. \A e, u : ShowsIn(e, u)' <=> ShowsIn(e, u)
    BY DEF ShowsIn
  <2>3. ASSUME NEW e \in events', e.time = clock
        PROVE  \E u : u.candles = candles /\ ShowsIn(e, u)
    BY <1>0, <1>2, <2>1, <2>3 DEF Alone, CandlesToday
  <2> QED BY <2>2, <2>3 DEF CandlesToday
<1>12. After'
  <2>1. ASSUME NEW q \in Refreshes, Stamped(q), q # r PROVE q \in met[r]
    BY <1>0, <2>1 DEF Orderly, Meets, Pending, Stamped
  <2>2. ASSUME NEW e \in events', NEW q \in Refreshes, Stamped(q), q # e.by, q \notin met[e.by]
        PROVE  e.time <= now[q]
    BY <1>0, <1>2, <2>1, <2>2 DEF Alone, After
  <2> QED BY <1>6, <2>2 DEF After
<1>13. Same'
  <2>1. \A q \in Pending : Instant(q)' = Instant(q) /\ Seeing(q)' = Seeing(q)
    BY <1>1 DEF Instant, Seeing, Stamped, Pending
  <2>2. \A q \in Pending : \A e : Rereads(q, e) => Rereads(q, e)'
    BY <2>1 DEF Rereads, Sighted, View, Stale
  <2> QED BY <1>0, <1>5, <1>6, <2>1, <2>2 DEF Alone, Same
<1> QED BY <1>4, <1>5, <1>7, <1>9, <1>10, <1>11, <1>12, <1>13 DEF Alone

\* What a refresh that met none changes was shown when it began.
LEMMA ShownBefore ==
  ASSUME Alone, NEW d \in events, NEW e \in events, Ended(d), Twice(d, e),
         pc[e.by] # "done", met[e.by] = {}
  PROVE  \E w \in saved : /\ d.time <= w.at /\ w.at <= now[e.by] /\ e.time = now[e.by]
                          /\ \E i \in DOMAIN w.statuses : /\ w.statuses[i].entity = e.entity
                                                         /\ w.statuses[i].status = e.from
<1> DEFINE q == e.by
<1>0. Orderly /\ Typed /\ Alone /\ q \in Refreshes
  BY DEF Alone, AllRecorded, Orderly, Backing, Shape
<1>1. PICK x \in saved : x.at = d.time
  BY <1>0 DEF Orderly, Backing, EventsAreBacked, Ended
<1>2. PICK i \in DOMAIN state[q][1] : e = Event(q, i) /\ Ready(q)
  BY <1>0 DEF Alone, FoundAs
<1> HIDE DEF q
<1>3. Informed(events, seen, saved, met, prev, TRUE, now[q], q) /\ met[q] = {}
  BY <1>0, <1>2 DEF Alone, AllRecorded, Pending, Ready, Stamped, Informed, q
<1>4. ~Unread(saved, met, prev, q)
  BY <1>1, <1>3 DEF Unread
<1>5. PICK w \in saved : w.at <= now[q] /\ Basis(events, seen, saved, met, prev, q, w)
  BY <1>3, <1>4 DEF Informed
<1>6. x.at <= w.at /\ prev[q] = w.statuses
  BY <1>1, <1>3, <1>5 DEF Basis
<1>7. DOMAIN w.statuses = DOMAIN state[q][1] /\ w.statuses[i].entity = state[q][1][i].entity
  BY <1>0, <1>2 DEF Orderly, Laid, LaidOut
<1>8. e.from = w.statuses[i].status /\ e.entity = w.statuses[i].entity /\ e.time = now[q]
  BY <1>2, <1>6, <1>7 DEF Event, Before
<1> QED BY <1>1, <1>5, <1>6, <1>7, <1>8 DEF q

LEMMA AloneSavesSnapshot ==
  ASSUME DistinctThings, Alone, NEW r \in Refreshes, SavesSnapshot(r)
  PROVE  Alone'
<1>0. Orderly /\ Typed /\ Alone
  BY DEF Alone, AllRecorded, Orderly
<1>1. PICK row : IsRowOf(r, row)
  BY <1>0, RowIsSaved
<1>2. /\ row \in saved' /\ row.by = r /\ UNCHANGED <<events, seen>> /\ met[r] \subseteq met'[r]
      /\ \A x \in saved' : x = row \/ (x \in saved /\ x.at # row.at /\ x.by # r)
      /\ \A x \in saved : x \in saved' \/ x.at = row.at
      /\ \A x \in saved : x.at = row.at => Behind(x) \subseteq met'[r]
  BY <1>0, <1>1, RowsAfter
<1>3. /\ pc[r] = "save" /\ pc'[r] = "done" /\ row.at = now[r] /\ row.statuses = state[r][1]
      /\ UNCHANGED <<scenario, market, candles, clock, lost>>
      /\ \A q \in Refreshes \ {r} :
           /\ pc'[q] = pc[q] /\ met'[q] = met[q] /\ now'[q] = now[q]
           /\ prev'[q] = prev[q] /\ state'[q] = state[q] /\ todo'[q] = todo[q]
  BY <1>0, <1>1 DEF SavesSnapshot, Goes, Forgets, world, Typed, TypeOK, IsRowOf
<1>4. AllRecorded' /\ Viewed'
  BY <1>0, RecordedSavesSnapshot, ViewedNext DEF Alone, Next, Refresh
<1>5. /\ \A e \in events : e.by \in Refreshes
      /\ \A q \in Refreshes : q \in Pending' <=> q \in Pending \ {r}
      /\ Pending' \subseteq Pending /\ r \in Pending /\ Stamped(r) /\ Ready(r)
      /\ \A e \in events : Ended(e)' => e.by = r \/ (e.by # r /\ Ended(e))
  BY <1>0, <1>3 DEF Orderly, Backing, Shape, Pending, Stamped, Ready, Ended
<1>6. ASSUME met'[r] = {}
      PROVE  Pending \subseteq {r} /\ \A x \in saved : x.at # row.at
  BY <1>0, <1>2, <1>5, <1>6 DEF Orderly, Meets, Behind
<1>7. /\ \A n, t : View(n, t)' = View(n, t)
      /\ \A e, u : ShowsIn(e, u)' <=> ShowsIn(e, u)
  BY <1>3 DEF View, Stale, ShowsIn
<1>8. FoundAs' /\ OnePer' /\ CandlesToday'
  <2>1. ASSUME NEW e \in events, pc'[e.by] # "done"
        PROVE  Ready(e.by)' /\ \E i \in DOMAIN state'[e.by][1] \ todo'[e.by] : e = Event(e.by, i)'
    <3>1. e.by \in Refreshes \ {r} /\ pc[e.by] # "done"
      BY <1>3, <1>5, <2>1
    <3>2. Ready(e.by) /\ \E i \in DOMAIN state[e.by][1] \ todo[e.by] : e = Event(e.by, i)
      BY <1>0, <3>1 DEF Alone, FoundAs
    <3> QED BY <1>2, <1>3, <3>1, <3>2 DEF Ready, Event, Before, Place
  <2>2. CandlesToday'
    BY <1>0, <1>2, <1>3, <1>7 DEF Alone, CandlesToday
  <2> QED BY <1>0, <1>2, <2>1, <2>2 DEF Alone, FoundAs, OnePer
<1>9. Current'
  BY <1>0, <1>2, <1>3, <1>7 DEF Alone, Current, Ready
<1>10. After'
  <2>1. ASSUME NEW e \in events, NEW q \in Refreshes, Stamped(q)', q # e.by, q \notin met'[e.by]
        PROVE  q # r /\ Stamped(q) /\ now'[q] = now[q] /\ q \notin met[e.by]
    BY <1>2, <1>3, <1>5, <2>1 DEF Stamped
  <2> QED BY <1>0, <1>2, <2>1 DEF Alone, After
<1>11. SeesNow'
  <2>1. ASSUME NEW e \in events, Ended(e)', e.time = clock, NEW q \in Pending'
        PROVE  pc'[q] = "load" \/ seen[q] = Len(market)
    <3>1. e.by # r
      BY <1>3, <1>5, <1>6, <2>1 DEF Ended, Pending
    <3>2. Ended(e) /\ q \in Pending /\ pc'[q] = pc[q]
      BY <1>3, <1>5, <2>1, <3>1 DEF Pending
    <3> QED BY <1>0, <2>1, <3>2 DEF Alone, SeesNow
  <2> QED BY <1>2, <1>3, <2>1 DEF SeesNow
<1>12. RowsToday'
  <2>1. ASSUME NEW e \in events, Ended(e)', e.time = clock, NEW x \in saved', x.at = clock,
               x.by # e.by
        PROVE  x.statuses = Statuses(scenario, View(Len(market), clock))
    <3>1. CASE e.by = r
      <4>1. x \in saved /\ met'[r] = {}
        BY <1>2, <2>1, <3>1 DEF Ended
      <4>2. now[r] = e.time
        BY <1>0, <1>3, <3>1 DEF Orderly, Backing, Found
      <4> QED BY <1>2, <1>3, <1>6, <2>1, <4>1, <4>2
    <3>2. CASE e.by # r /\ x = row
      <4>1. Ended(e) /\ now[r] = clock
        BY <1>3, <1>5, <2>1, <3>2
      <4>2. seen[r] = Len(market)
        BY <1>0, <1>3, <1>5, <2>1, <4>1 DEF Alone, SeesNow
      <4> QED BY <1>0, <1>3, <1>5, <3>2, <4>1, <4>2 DEF Alone, Current
    <3>3. CASE e.by # r /\ x # row
      <4>1. Ended(e) /\ x \in saved
        BY <1>2, <1>5, <2>1, <3>3
      <4> QED BY <1>0, <2>1, <4>1 DEF Alone, RowsToday
    <3> QED BY <3>1, <3>2, <3>3
  <2> QED BY <1>2, <1>3, <1>7, <2>1 DEF RowsToday
<1>13. Same'
  <2>1. ASSUME NEW e \in events, Ended(e)', NEW q \in Pending', met'[q] = {},
               Instant(q)' = e.time
        PROVE  Rereads(q, e)'
    <3>1. q \in Refreshes /\ q # r /\ q \in Pending
      BY <1>5, <2>1 DEF Pending
    <3>2. e.by # r
      BY <1>5, <1>6, <2>1, <3>1 DEF Ended
    <3>3. /\ Ended(e) /\ met[q] = {} /\ Instant(q) = e.time /\ Seeing(q)' = Seeing(q)
          /\ prev'[q] = prev[q]
      BY <1>2, <1>3, <1>5, <2>1, <3>1, <3>2 DEF Instant, Stamped, Seeing
    <3>4. Rereads(q, e)
      BY <1>0, <3>1, <3>3 DEF Alone, Same
    <3> QED BY <1>3, <1>7, <3>3, <3>4 DEF Rereads, Sighted
  <2> QED BY <1>2, <2>1 DEF Same
<1>14. Ends'
  <2>1. ASSUME NEW d \in events, NEW e \in events, Ended(d)', Ended(e)', Twice(d, e)
        PROVE  Shown(saved', d, e)
    <3>1. CASE d.by # r /\ e.by # r
      <4>1. Ended(d) /\ Ended(e)
        BY <1>5, <2>1, <3>1
      <4>2. PICK x \in saved :
              /\ d.time <= x.at /\ x.at < e.time
              /\ \E i \in DOMAIN x.statuses : /\ x.statuses[i].entity = e.entity
                                             /\ x.statuses[i].status = e.from
        BY <1>0, <2>1, <4>1 DEF Alone, Ends, Shown
      <4>3. e.time <= now[r]
        BY <1>0, <1>5, <3>1, <4>1 DEF Alone, After, Ended
      <4>4. x.at # row.at
        <5>1. x.at \in Nat /\ e.time \in Nat /\ now[r] \in Nat
          BY <1>0 DEF Typed, TypeOK
        <5> QED BY <1>3, <4>2, <4>3, <5>1
      <4> QED BY <1>2, <4>2, <4>4 DEF Shown
    <3>2. CASE d.by = r /\ e.by = r
      BY <1>0, <2>1, <3>2 DEF Alone, OnePer, Twice
    <3>3. CASE d.by # r /\ e.by = r
      <4>1. Ended(d) /\ met'[r] = {} /\ met[r] = {} /\ pc[e.by] # "done"
        BY <1>2, <1>3, <1>5, <2>1, <3>3 DEF Ended
      <4>2. PICK w \in saved :
              /\ d.time <= w.at /\ w.at <= now[r] /\ e.time = now[r]
              /\ \E i \in DOMAIN w.statuses : /\ w.statuses[i].entity = e.entity
                                             /\ w.statuses[i].status = e.from
        BY <2>1, <3>3, <4>1, ShownBefore
      <4>3. w.at # row.at /\ w \in saved'
        BY <1>2, <1>6, <4>1
      <4>4. w.at < e.time
        <5>1. w.at \in Nat /\ now[r] \in Nat
          BY <1>0 DEF Typed, TypeOK
        <5> QED BY <1>3, <4>2, <4>3, <5>1
      <4> QED BY <4>2, <4>3, <4>4 DEF Shown
    <3>4. CASE d.by = r /\ e.by # r
      <4>1. Ended(e) /\ met'[r] = {}
        BY <1>5, <2>1, <3>4 DEF Ended
      <4>2. e.time <= now[r] /\ d.time = now[r]
        BY <1>0, <1>3, <1>5, <3>4, <4>1 DEF Alone, After, Ended, Orderly, Backing, Found
      <4>3. e.time = now[r]
        <5>1. e.time \in Nat /\ now[r] \in Nat
          BY <1>0 DEF Typed, TypeOK
        <5> QED BY <2>1, <4>2, <5>1 DEF Twice
      <4>4. \E x \in saved : x.at = e.time
        BY <1>0, <4>1 DEF Orderly, Backing, EventsAreBacked, Ended
      <4> QED BY <1>3, <1>6, <4>1, <4>3, <4>4
    <3> QED BY <3>1, <3>2, <3>3, <3>4
  <2> QED BY <1>2, <2>1 DEF Ends
<1> QED BY <1>4, <1>8, <1>9, <1>10, <1>11, <1>12, <1>13, <1>14 DEF Alone

LEMMA AloneNext ==
  ASSUME DistinctThings, Alone, [Next]_vars
  PROVE  Alone'
BY AloneTick, AloneReadsPrevious, AloneReads, AloneSavesEvent, AloneSavesSnapshot
   DEF Next, Refresh

LEMMA AloneIsEnough ==
  ASSUME DistinctThings, Alone
  PROVE  NoChangeTwice
<1>0. Orderly /\ Typed
  BY DEF Alone, AllRecorded, Orderly
<1> SUFFICES ASSUME NEW d \in events, NEW e \in events, Twice(d, e),
                    {d.by, e.by} \cap lost = {}, met[d.by] \cup met[e.by] = {}
             PROVE  \E x \in saved : /\ d.time <= x.at /\ x.at <= e.time
                                     /\ \E i \in DOMAIN x.statuses :
                                          /\ x.statuses[i].entity = e.entity
                                          /\ x.statuses[i].status = e.from
                                          /\ e.from # e.to
  BY DEF NoChangeTwice, Twice
<1>1. /\ e.from # e.to /\ e.time \in Nat /\ d.time \in Nat
      /\ \A x \in saved : x.at \in Nat
      /\ d.by \in Refreshes /\ e.by \in Refreshes /\ d.by # e.by
      /\ pc[d.by] # "new" /\ pc[e.by] # "new"
  <2>1. d.by # e.by
    BY DEF Alone, OnePer, Twice
  <2>2. /\ clock \in Nat /\ \A x \in saved : x.at \in 1..clock
        /\ e.from # e.to /\ d.time \in 1..clock /\ e.time \in 1..clock
    BY <1>0 DEF Typed, TypeOK
  <2>3. /\ d.by \in Refreshes /\ pc[d.by] # "new"
        /\ e.by \in Refreshes /\ pc[e.by] # "new"
    BY <1>0 DEF Orderly, Backing, Shape, Found
  <2> QED BY <2>1, <2>2, <2>3
<1>2. CASE pc[d.by] = "done" /\ pc[e.by] = "done"
  <2>1. Ended(d) /\ Ended(e)
    BY <1>2 DEF Ended
  <2>2. Shown(saved, d, e)
    BY <2>1 DEF Alone, Ends
  <2> QED BY <1>1, <2>2 DEF Shown
<1>3. CASE pc[d.by] = "done" /\ pc[e.by] # "done"
  <2>1. Ended(d)
    BY <1>3 DEF Ended
  <2> QED BY <1>1, <1>3, <2>1, ShownBefore
<1>4. CASE pc[d.by] # "done" /\ pc[e.by] = "done"
  <2> DEFINE q == d.by
  <2>1. Ended(e) /\ met[q] = {} /\ q \in Pending
    BY <1>1, <1>4 DEF Ended, Pending
  <2>2. PICK i \in DOMAIN state[q][1] : d = Event(q, i) /\ Ready(q)
    BY <1>4 DEF Alone, FoundAs
  <2>3. PICK x \in saved : x.at = e.time
    BY <1>0, <2>1 DEF Orderly, Backing, EventsAreBacked, Ended
  <2> HIDE DEF q
  <2>4. d.time = now[q] /\ d.to = state[q][1][i].status /\ d.from = Before(q, i)
        /\ d.entity = state[q][1][i].entity
    BY <2>2 DEF Event
  <2>5. Stamped(q) /\ q # e.by /\ q \notin met[e.by] /\ q \in Refreshes
    BY <1>1, <2>2 DEF Stamped, Ready, q
  <2>6. e.time = now[q]
    <3>1. e.time <= now[q]
      BY <2>5 DEF Alone, After
    <3>2. now[q] <= e.time /\ now[q] \in Nat
      BY <1>1, <2>4 DEF Twice
    <3> QED BY <1>1, <3>1, <3>2
  <2>7. Rereads(q, e)
    BY <2>1, <2>5, <2>6 DEF Alone, Same, Instant
  <2>8. PICK w \in saved : Basis(events, seen, saved, met, prev, q, w)
    <3>1. Informed(events, seen, saved, met, prev, Stamped(q), now[q], q)
      BY <2>1 DEF Alone, AllRecorded
    <3>2. ~Unread(saved, met, prev, q)
      BY <2>1, <2>3 DEF Unread
    <3> QED BY <3>1, <3>2 DEF Informed
  <2>9. prev[q] = w.statuses /\ LaidOut(scenario, w.statuses) /\ LaidOut(scenario, state[q][1])
    BY <1>0, <2>1, <2>2, <2>5, <2>8 DEF Basis, Orderly, Laid
  <2>10. /\ i \in DOMAIN prev[q] /\ prev[q][i].entity = d.entity
         /\ d.from = prev[q][i].status
    BY <2>2, <2>4, <2>9 DEF LaidOut, Before
  <2>11. PICK z : Sighted(z, seen[q], now[q]) /\ state[q][1] = Statuses(scenario, z)
    BY <2>2, <2>5 DEF Alone, Viewed
  <2>12. d.from = e.to \/ d.from = Statuses(scenario, z)[i].status
    <3>1. Seeing(q) = seen[q] /\ d.entity = e.entity
      BY <2>2 DEF Seeing, Ready, Twice
    <3> QED BY <2>6, <2>7, <2>10, <2>11, <3>1 DEF Rereads
  <2>13. d.from # d.to /\ d.to = e.to
    BY <1>0 DEF Typed, TypeOK, Twice
  <2> QED BY <2>4, <2>11, <2>12, <2>13
<1>5. CASE pc[d.by] # "done" /\ pc[e.by] # "done"
  BY <1>0, <1>1, <1>5 DEF Orderly, Meets, Pending
<1> QED BY <1>2, <1>3, <1>4, <1>5

\* Of two refreshes that ended well and met no other, the second reports a
\* status that the first has reported only if a snapshot between them shows
\* another: the history has no change that did not happen.
THEOREM NoChangeIsTwice ==
  ASSUME DistinctThings
  PROVE  Spec => []NoChangeTwice
<1>1. Init => Alone
  BY AloneInit
<1>2. Alone /\ [Next]_vars => Alone'
  BY AloneNext
<1>3. Alone => NoChangeTwice
  BY AloneIsEnough
<1> QED BY <1>1, <1>2, <1>3, PTL DEF Spec
=============================================================================
