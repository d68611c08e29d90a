---------------------------- MODULE AsanGlobals ----------------------------
(***************************************************************************)
(* Instrumented globals, lib/asan/asan_globals.cc: modules register and    *)
(* unregister theirs, and around the dynamic initialization of one         *)
(* translation unit the globals of the others are poisoned.  Every call    *)
(* runs under mu_for_globals and is one step.                              *)
(***************************************************************************)
EXTENDS AsanShadow, SequencesExt

CONSTANTS
  Units,      \* translation units
  Globals     \* unit -> its globals with dynamic initialization, in order

VARIABLES
  gshadow,    \* shadow of the memory of all globals
  all_globals,    \* list_of_all_globals, newest first
  dynamic_init,   \* list_of_dynamic_init_globals, newest first
  registered, \* units that are loaded
  initializing,   \* the unit whose initializers run, as a sequence
  stale       \* history: globals of unloaded units that a later initialization
              \* poisoned again

globalVars == <<gshadow, all_globals, dynamic_init, registered, initializing, stale>>

GlobalsOf(units) == UNION {ToSet(Globals[u]) : u \in units}
Apply(Op(_, _), sh, gs) == FoldSeq(LAMBDA g, s : Op(s, g), sh, gs)

UnregisterGlobal(sh, g) == PoisonShadow(sh, g.beg, g.size_with_redzone, 0)
PoisonGlobal(sh, g) == PoisonShadow(sh, g.beg, g.size_with_redzone, InitializationOrder)
UnpoisonGlobal(sh, g) == PoisonRedZones(PoisonShadow(sh, g.beg, g.size_with_redzone, 0), g)

\* __asan_register_globals: redzones are poisoned, lists grow at the front.
RegisterGlobals(u) ==
  /\ u \notin registered /\ initializing = << >>
  /\ Len(all_globals) < 6   \* bound
  /\ gshadow' = Apply(PoisonRedZones, gshadow, Globals[u])
  /\ all_globals' = Reverse(Globals[u]) \o all_globals
  /\ dynamic_init' = Reverse(Globals[u]) \o dynamic_init
  /\ registered' = registered \cup {u}
  /\ stale' = stale \ ToSet(Globals[u])
  /\ UNCHANGED initializing

\* __asan_unregister_globals opens the memory and leaves the lists as they are.
UnregisterGlobals(u) ==
  /\ u \in registered /\ initializing = << >>
  /\ gshadow' = Apply(UnregisterGlobal, gshadow, Globals[u])
  /\ registered' = registered \ {u}
  /\ UNCHANGED <<all_globals, dynamic_init, initializing, stale>>

\* The list runs newest first: the unit's globals lie from last to first.
BugFromCurrentUnit(u, i) ==
  LET last == Globals[u][Len(Globals[u])]
      first == Globals[u][1]
  IN \E j \in 1 .. i : dynamic_init[j] = last /\ \A k \in j .. i : dynamic_init[k] # first
FromCurrentUnit(u, i) ==
  LET last == Globals[u][Len(Globals[u])]
      first == Globals[u][1]
  IN \E j \in 1 .. i : dynamic_init[j] = last
                       /\ \A k \in j .. i - 1 : dynamic_init[k] # first

BeforeDynamicInit(u) ==
  /\ u \in registered /\ initializing = << >> /\ Globals[u] # << >>
  /\ LET others == {i \in DOMAIN dynamic_init : ~FromCurrentUnit(u, i)} IN
     /\ gshadow' = Apply(LAMBDA sh, i : PoisonGlobal(sh, dynamic_init[i]),
                         gshadow, SetToSeq(others))
     /\ stale' = stale \cup ({dynamic_init[i] : i \in others} \ GlobalsOf(registered))
  /\ initializing' = <<u>>
  /\ UNCHANGED <<all_globals, dynamic_init, registered>>

AfterDynamicInit ==
  /\ initializing # << >>
  /\ gshadow' = Apply(UnpoisonGlobal, gshadow, dynamic_init)
  /\ initializing' = << >>
  /\ UNCHANGED <<all_globals, dynamic_init, registered, stale>>

GlobalsInit ==
  /\ gshadow = [a \in {GranuleOf(b) : b \in UNION {g.beg .. g.beg + g.size_with_redzone :
                          g \in GlobalsOf(Units)}} |-> 0]
  /\ all_globals = << >> /\ dynamic_init = << >>
  /\ registered = {} /\ initializing = << >> /\ stale = {}

GlobalsNext ==
  \/ \E u \in Units : RegisterGlobals(u) \/ UnregisterGlobals(u) \/ BeforeDynamicInit(u)
  \/ AfterDynamicInit

-----------------------------------------------------------------------------
Body(g) == g.beg .. g.beg + g.size - 1
Redzones(g) == g.beg + g.size .. g.beg + g.size_with_redzone - 1

\* A loaded global can be touched and its redzone cannot; while a unit
\* initializes, no byte of another unit's global can; the memory of an unloaded
\* one is open again, until an initialization of a later unit goes through the
\* list that still has it.
GlobalsAreGuarded ==
  /\ \A u \in registered : \A g \in ToSet(Globals[u]) :
       IF initializing \in {<< >>, <<u>>}
       THEN /\ \A a \in Body(g) : ~AddressIsPoisoned(gshadow, a)
            /\ \A a \in Redzones(g) : AddressIsPoisoned(gshadow, a)
       ELSE \A a \in Body(g) \cup Redzones(g) : AddressIsPoisoned(gshadow, a)
  /\ \A g \in GlobalsOf(Units) \ (GlobalsOf(registered) \cup stale) :
       \A a \in Body(g) \cup Redzones(g) : ~AddressIsPoisoned(gshadow, a)
=============================================================================
