--------------------------- MODULE ProviderFallback ---------------------------
(***************************************************************************)
(* The choice of the LLM provider in one research run (LLMOrchestrator):   *)
(* a circuit breaker for each provider, the provider that is active, and   *)
(* the two switchable LLMs (deep and quick) the nodes of the graph call.   *)
(* The analysts run in parallel threads and share all of it; the nodes     *)
(* after them run one at a time.  Each of them goes through its own list   *)
(* of providers (execute_with_fallback).                                   *)
(*                                                                         *)
(* Some of the later nodes ask for structured output first.  That LLM was  *)
(* taken out of the switchable one when the graph was built: it is the     *)
(* primary's and follows no switch; only when it fails the node calls the  *)
(* switchable LLM, for free text.                                          *)
(*                                                                         *)
(* The lock of the orchestrator makes each look at a circuit, each record  *)
(* and each switch atomic, and nothing longer: the list of providers is    *)
(* read without it, and the callback that points the LLMs at the new       *)
(* provider runs after it is released.                                     *)
(***************************************************************************)
EXTENDS Integers, Sequences, FiniteSets, Functions

CONSTANTS
  Analysts,    \* nodes that run in parallel
  QuickNodes,  \* later nodes, one at a time, on the quick LLM
  DeepNodes,   \* later nodes, one at a time, on the deep LLM
  Structured,  \* later nodes that ask for structured output first
  Wrapping,    \* those that raise an LLMOutputError when free text fails too
  Swallowing,  \* those that catch it and answer by themselves
  Primary,     \* the provider of the configuration
  Fallbacks,   \* the sequence of fallback providers
  Unmapped,    \* fallback providers without a complete model map
  Threshold,   \* failures that open a circuit
  Outages      \* bound: the sets of providers that may fail to answer

Nodes == Analysts \cup QuickNodes \cup DeepNodes
Providers == {Primary} \cup Range(Fallbacks)

ASSUME FallbackAssumption ==
  /\ Fallbacks \in Seq(Range(Fallbacks)) /\ Primary \notin Range(Fallbacks)
  /\ Threshold \in Nat \ {0} /\ Outages \subseteq SUBSET Providers
  /\ Analysts \cap (QuickNodes \cup DeepNodes) = {}
  /\ QuickNodes \cap DeepNodes = {}
  /\ Structured \subseteq QuickNodes \cup DeepNodes
  /\ Swallowing \subseteq Wrapping /\ Wrapping \subseteq Structured

VARIABLES
  circuit,     \* _circuit_state: closed, open or half_open, and failures
  cooled,      \* open circuits whose window has passed
  active,      \* _active_llm_provider
  deep, quick, \* the provider behind each SwitchableLLM
  cached,      \* providers of _fallback_llms
  pc, plan, at, \* per node: step, providers_to_try and the place in it
  used,        \* per node: providers the current attempt has called
  missed,      \* nodes whose attempt has a call that was not answered
  bound,       \* per node: what became of its structured call
  failed,      \* nodes with a last_error
  outcome,     \* per node
  down,        \* providers that do not answer every call; fixed
  disturbed,   \* history: nodes whose attempt met a switch of another node
  rivals,      \* history: providers of the last switches that overlapped
  excused,     \* history: providers charged with another fault
  openings,    \* history: how often each circuit opened
  lookedAt     \* history: per node, openings when it looked at the circuit

breaker == <<circuit, cooled, openings>>
llms == <<active, deep, quick, cached>>
vars == <<breaker, llms, pc, plan, at, used, missed, failed, bound, outcome,
          down, disturbed, rivals, excused, lookedAt>>

TypeOK ==
  /\ circuit \in [Providers -> [state : {"closed", "open", "half_open"},
                                failures : Nat]]
  /\ cooled \subseteq Providers /\ cached \subseteq Range(Fallbacks)
  /\ active \in Providers /\ deep \in Providers /\ quick \in Providers
  /\ pc \in [Nodes -> {"new", "list", "look", "ensure", "switch", "deep",
                       "quick", "call", "done"}]
  /\ plan \in [Nodes -> Seq(Providers)] /\ at \in [Nodes -> Nat \ {0}]
  /\ \A n \in Nodes :
       pc[n] \in {"ensure", "switch", "deep", "quick", "call"} =>
         at[n] \in DOMAIN plan[n]
  /\ used \in [Nodes -> SUBSET Providers]
  /\ missed \subseteq Nodes /\ failed \subseteq Nodes
  /\ outcome \in [Nodes -> {"none", "result", "error", "nothing"}]
  /\ down \subseteq Providers /\ disturbed \subseteq Nodes
  /\ bound \in [Nodes -> {"unasked", "answered", "failed"}]
  /\ rivals \subseteq Providers /\ excused \subseteq Providers
  /\ openings \in [Providers -> Nat] /\ lookedAt \in [Nodes -> Nat]

Init ==
  /\ circuit = [p \in Providers |-> [state |-> "closed", failures |-> 0]]
  /\ cooled = {} /\ cached = {}
  /\ active = Primary /\ deep = Primary /\ quick = Primary
  /\ pc = [n \in Nodes |-> "new"] /\ plan = [n \in Nodes |-> << >>]
  /\ at = [n \in Nodes |-> 1] /\ used = [n \in Nodes |-> {}]
  /\ missed = {} /\ failed = {}
  /\ outcome = [n \in Nodes |-> "none"] /\ down \in Outages
  /\ bound = [n \in Nodes |-> "unasked"]
  /\ disturbed = {} /\ rivals = {Primary} /\ excused = {}
  /\ openings = [p \in Providers |-> 0] /\ lookedAt = [n \in Nodes |-> 0]

-----------------------------------------------------------------------------
(* Circuits *)

Current(n) == plan[n][at[n]]

IsOpen(p) == circuit[p].state = "open" /\ p \notin cooled

\* A look at an open circuit whose window has passed leaves it half open.
LookedAt(p) ==
  IF circuit[p].state = "open" /\ p \in cooled
  THEN [circuit[p] EXCEPT !.state = "half_open"] ELSE circuit[p]

\* mutant: a success takes one failure back
SucceededDecays(c) == [state |-> "closed", failures |-> c.failures - 1]

\* record_result
Succeeded(c) == [state |-> "closed", failures |-> 0]
Failed(c) ==
  IF c.state = "half_open" THEN [c EXCEPT !.state = "open"]
  ELSE [state |-> IF c.failures + 1 >= Threshold THEN "open" ELSE c.state,
        failures |-> c.failures + 1]

\* The circuits in now replace theirs; those in failures have just opened,
\* or have been open and start their window again.
Changes(now, failures) ==
  /\ circuit' = now
  /\ cooled' = {p \in cooled : now[p].state = "open" /\ p \notin failures}
  /\ openings' = [p \in Providers |->
       openings[p] + (IF now[p].state = "open" /\ circuit[p].state # "open"
                      THEN 1 ELSE 0)]

\* circuit_breaker_window_sec passes.
WindowPasses(p) ==
  /\ IsOpen(p)
  /\ cooled' = cooled \cup {p}
  /\ UNCHANGED <<circuit, openings, llms, pc, plan, at, used, missed, failed,
                 bound, outcome, down, disturbed, rivals, excused, lookedAt>>

-----------------------------------------------------------------------------
(* execute_with_fallback: the list of providers *)

Goes(n, from, to) == pc[n] = from /\ pc' = [pc EXCEPT ![n] = to]

Switching == {n \in Nodes : pc[n] \in {"deep", "quick"}}

\* The later nodes wait for every analyst, and for each other.
MayBegin(n) ==
  n \in Analysts
  \/ /\ \A a \in Analysts : outcome[a] = "result"
     /\ \A m \in Nodes \ {n} : pc[m] \in {"new", "done"}
                               /\ outcome[m] \in {"none", "result"}

Begin(n) ==
  /\ MayBegin(n)
  /\ Goes(n, "new", IF Fallbacks = << >> THEN "look" ELSE "list")
  /\ plan' = [plan EXCEPT ![n] = <<active>>]
  /\ disturbed' = IF Switching # {} \/ rivals # {active}
                  THEN disturbed \cup {n} ELSE disturbed
  /\ UNCHANGED <<breaker, llms, at, used, missed, failed, bound, outcome,
                 down, rivals, excused, lookedAt>>

\* The list leaves out the provider that is active when each is compared.
Lists(n) ==
  /\ Goes(n, "list", IF at[n] = Len(Fallbacks) THEN "look" ELSE "list")
  /\ plan' = IF Fallbacks[at[n]] = active THEN plan
             ELSE [plan EXCEPT ![n] = Append(@, Fallbacks[at[n]])]
  /\ at' = [at EXCEPT ![n] = IF @ = Len(Fallbacks) THEN 1 ELSE @ + 1]
  /\ UNCHANGED <<breaker, llms, used, missed, failed, bound, outcome, down,
                 disturbed, rivals, excused, lookedAt>>

-----------------------------------------------------------------------------
(* execute_with_fallback: one provider *)

\* mutant: the loop stays at the provider it skips
SkipsNone(n) ==
  /\ pc[n] = "look" /\ at[n] <= Len(plan[n]) /\ IsOpen(Current(n))
  /\ UNCHANGED vars

Skips(n) ==
  /\ pc[n] = "look" /\ at[n] <= Len(plan[n]) /\ IsOpen(Current(n))
  /\ at' = [at EXCEPT ![n] = @ + 1]
  /\ UNCHANGED <<breaker, llms, pc, plan, used, missed, failed, bound,
                 outcome, down, disturbed, rivals, excused, lookedAt>>

\* The first provider of the list is taken to be the one in use.
Tries(n) ==
  /\ pc[n] = "look" /\ at[n] <= Len(plan[n]) /\ ~IsOpen(Current(n))
  /\ Goes(n, "look", IF at[n] = 1 THEN "call" ELSE "ensure")
  /\ Changes([circuit EXCEPT ![Current(n)] = LookedAt(Current(n))], {})
  /\ lookedAt' = [lookedAt EXCEPT ![n] = openings[Current(n)]]
  /\ UNCHANGED <<llms, plan, at, used, missed, failed, bound, outcome, down,
                 disturbed, rivals, excused>>

\* ensure_fallback_llms: creating a client may fail, which counts against
\* its circuit.
Ensure(n) ==
  /\ Goes(n, "ensure", "switch")
  /\ LET lacking == Range(Fallbacks) \ (cached \cup {active})
         wanted == {p \in lacking : ~IsOpen(p)}
         mapped == wanted \ Unmapped
     IN \E refused \in SUBSET mapped :
          /\ cached' = cached \cup (mapped \ refused)
          /\ excused' = excused \cup refused
          /\ Changes([p \in Providers |->
                        IF p \in refused THEN Failed(LookedAt(p))
                        ELSE IF p \in wanted THEN LookedAt(p) ELSE circuit[p]],
                     refused)
  /\ UNCHANGED <<active, deep, quick, plan, at, used, missed, failed, bound,
                 outcome, down, disturbed, rivals, lookedAt>>

\* switch_provider, under the lock.
Switch(n) ==
  /\ Goes(n, "switch", "deep") /\ Current(n) \in cached
  /\ active' = Current(n)
  /\ disturbed' = {m \in Nodes \ {n} : pc[m] \notin {"new", "done"}}
                  \cup (disturbed \ {n})
  /\ rivals' = {Current(n)} \cup (IF Switching = {} THEN {} ELSE rivals)
  /\ UNCHANGED <<breaker, deep, quick, cached, plan, at, used, missed,
                 failed, bound, outcome, down, excused, lookedAt>>

CannotSwitch(n) ==
  /\ Goes(n, "switch", "look") /\ Current(n) \notin cached
  /\ at' = [at EXCEPT ![n] = @ + 1]
  /\ UNCHANGED <<breaker, llms, plan, used, missed, failed, bound, outcome,
                 down, disturbed, rivals, excused, lookedAt>>

\* on_provider_switched, after the lock: first the deep LLM, then the quick.
Disturbs(n) ==
  disturbed' = disturbed \cup
                 {m \in Nodes \ {n} : pc[m] \notin {"new", "done"}}

\* mutant: only the quick LLM follows the switch
SetDeepNot(n) ==
  /\ Goes(n, "deep", "quick") /\ deep' = deep /\ Disturbs(n)
  /\ UNCHANGED <<breaker, active, quick, cached, plan, at, used, missed,
                 failed, bound, outcome, down, rivals, excused, lookedAt>>

SetDeep(n) ==
  /\ Goes(n, "deep", "quick") /\ deep' = Current(n) /\ Disturbs(n)
  /\ UNCHANGED <<breaker, active, quick, cached, plan, at, used, missed,
                 failed, bound, outcome, down, rivals, excused, lookedAt>>

SetQuick(n) ==
  /\ Goes(n, "quick", "call") /\ quick' = Current(n) /\ Disturbs(n)
  /\ UNCHANGED <<breaker, active, deep, cached, plan, at, used, missed,
                 failed, bound, outcome, down, rivals, excused, lookedAt>>

\* The structured call.  Whatever is wrong with it, an answer that cannot be
\* parsed for one, leads to the free-text call.
Asks(n) ==
  /\ pc[n] = "call" /\ n \in Structured /\ bound[n] = "unasked"
  /\ \E answer \in {"answered", "failed"} :
       bound' = [bound EXCEPT ![n] = answer]
  /\ UNCHANGED <<breaker, llms, pc, plan, at, used, missed, failed, outcome,
                 down, disturbed, rivals, excused, lookedAt>>

\* The node calls its LLM: whatever is behind it at that moment.
Calls(n) ==
  /\ pc[n] = "call" /\ n \notin missed
  /\ n \in Structured => bound[n] = "failed"
  /\ LET p == IF n \in DeepNodes THEN deep ELSE quick IN
       /\ used' = [used EXCEPT ![n] = @ \cup {p}]
       /\ missed' = missed \/ (p \in down /\ missed' = missed \cup {n})
  /\ UNCHANGED <<breaker, llms, pc, plan, at, failed, bound, outcome, down,
                 disturbed, rivals, excused, lookedAt>>

\* The attempt is over, and with it what the node remembered of it.
Forgets(n) ==
  /\ used' = [used EXCEPT ![n] = {}] /\ lookedAt' = [lookedAt EXCEPT ![n] = 0]
  /\ bound' = [bound EXCEPT ![n] = "unasked"] /\ missed' = missed \ {n}
  /\ disturbed' = disturbed \ {n}

Returns(n, what) ==
  /\ Goes(n, "call", "done") /\ outcome' = [outcome EXCEPT ![n] = what]
  /\ plan' = [plan EXCEPT ![n] = << >>] /\ at' = [at EXCEPT ![n] = 1]
  /\ failed' = failed \ {n}

\* mutant: the provider that is active now is charged
RecordsActive(n, after) ==
  Changes([circuit EXCEPT ![active] = after],
          IF after.state = "open" THEN {active} ELSE {})

Records(n, after) ==
  Changes([circuit EXCEPT ![Current(n)] = after],
          IF after.state = "open" THEN {Current(n)} ELSE {})

Answered(n) == bound[n] = "answered" \/ (used[n] # {} /\ n \notin missed)

\* The provider of the turn is given the credit, whoever answered.
Succeeds(n) ==
  /\ Answered(n) \/ (n \in Swallowing /\ n \in missed)
  /\ Returns(n, "result")
  /\ Records(n, Succeeded(circuit[Current(n)])) /\ Forgets(n)
  /\ UNCHANGED <<llms, down, rivals, excused>>

\* A failure of the provider; the next one is tried.
Fails(n) ==
  /\ n \in missed \ Wrapping /\ Goes(n, "call", "look")
  /\ at' = [at EXCEPT ![n] = @ + 1] /\ failed' = failed \cup {n}
  /\ excused' = IF n \in disturbed THEN excused \cup {Current(n)} ELSE excused
  /\ Records(n, Failed(circuit[Current(n)])) /\ Forgets(n)
  /\ UNCHANGED <<llms, plan, outcome, down, rivals>>

\* Any other error, an LLMOutputError or an answer that breaks the contract for
\* one, is raised; it counts against the provider all the same.
Raises(n) ==
  /\ used[n] # {} \/ bound[n] # "unasked"
  /\ Returns(n, "error")
  /\ excused' = excused \cup {Current(n)}
  /\ Records(n, Failed(circuit[Current(n)])) /\ Forgets(n)
  /\ UNCHANGED <<llms, down, rivals>>

\* raise last_error: a TypeError when there is none.
GivesUp(n) ==
  /\ at[n] > Len(plan[n]) /\ Goes(n, "look", "done")
  /\ outcome' = [outcome EXCEPT ![n] = IF n \in failed THEN "error"
                                       ELSE "nothing"]
  /\ UNCHANGED <<breaker, llms, plan, at, used, missed, failed, bound, down,
                 disturbed, rivals, excused, lookedAt>>

-----------------------------------------------------------------------------
Step(n) ==
  \/ Begin(n) \/ Lists(n) \/ Skips(n) \/ Tries(n) \/ Ensure(n)
  \/ Switch(n) \/ CannotSwitch(n) \/ SetDeep(n) \/ SetQuick(n)
  \/ Asks(n) \/ Calls(n)
  \/ Succeeds(n) \/ Fails(n) \/ Raises(n) \/ GivesUp(n)

Next == (\E n \in Nodes : Step(n)) \/ (\E p \in Providers : WindowPasses(p))

Spec == Init /\ [][Next]_vars

\* Every thread gets to run, and a call of an LLM returns or times out
\* (llm_runtime.timeout_sec).
FairSpec == Spec /\ \A n \in Nodes : WF_vars(Step(n))

-----------------------------------------------------------------------------
(* Properties *)

\* When no switch is under way, the active provider and the deep and the quick
\* LLM are each those of the last switch, or of one of the last switches that
\* overlapped: without an overlap they are the same provider's, and no LLM is
\* left with a provider that was given up before.  (The structured LLMs stay
\* with the primary, whatever switch_provider logs.)
ActiveIsUsed == Switching = {} => {active, deep, quick} \subseteq rivals

\* The free text a node gets comes from the provider it is charged to, unless
\* another node switched while it was under way.
Attributed ==
  \A n \in Nodes :
    pc[n] = "call" /\ n \notin disturbed => used[n] \subseteq {Current(n)}

\* A provider that answers every call has no failure on its circuit, unless its
\* client could not be created, an error that is not its own was charged to it
\* (as every LLMOutputError is), or the attempt was disturbed by a switch.
OnlyFaultsCount ==
  \A p \in Providers \ (down \cup excused) :
    circuit[p] = [state |-> "closed", failures |-> 0]

\* While a circuit is open and its window has not passed, the only attempts
\* under way are those that looked before it opened.
OpenShields ==
  \A n \in Nodes :
    pc[n] \in {"ensure", "switch", "deep", "quick", "call"}
    /\ IsOpen(Current(n)) => lookedAt[n] < openings[Current(n)]

\* A node ends without having tried anything (raise None) only if the circuit
\* of each provider of its list has opened, or its client could not be made.
NothingTriedMeansTripped ==
  \A n \in Nodes : outcome[n] = "nothing" =>
    \A p \in Range(plan[n]) :
      openings[p] > 0 \/ p \in Unmapped \cup excused

\* Every node that begins ends.
EveryNodeEnds == \A n \in Nodes : pc[n] = "list" ~> pc[n] = "done"
=============================================================================
