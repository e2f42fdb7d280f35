-------------------------------- MODULE Link --------------------------------
(***************************************************************************)
(* The functions that signature files register (libengine/ey_signature.c,  *)
(* ey_work.c, ey_event.c) and how ey_load_post_action turns their names    *)
(* into addresses (do_link, libengine/ey_engine.c), until the engine is    *)
(* destroyed.                                                              *)
(*                                                                         *)
(* A function is registered by its name alone, from the prologue of a      *)
(* file ("%event-init ..."), or with its address, by the ey_add_ and       *)
(* ey_set_ macros called from a library or from a file init function.      *)
(*                                                                         *)
(* The caller loads once and destroys the engine afterwards, as every      *)
(* caller in the repository does.  Outside the model: ey_add_file_init     *)
(* (do_link asserts that no address is there yet, so its first use stops   *)
(* the program) and the predefined functions, which decoders register with *)
(* their address and do_link leaves alone.                                 *)
(***************************************************************************)
EXTENDS Sequences, Naturals, FiniteSets

CONSTANTS
  EventCount,     \* the events of the engine are 1..EventCount
  FunctionNames,  \* names of the functions for works and events
  Inits,          \* names of file init functions
  Finits,         \* names of file finit functions
  Static          \* names the JIT does not know: functions of internal linkage

ASSUME LinkAssumption ==
  /\ EventCount \in Nat
  /\ IsFiniteSet(Inits) /\ IsFiniteSet(Finits)
  /\ Static \subseteq FunctionNames \cup Inits \cup Finits

\* The works, taken together, and the events own functions; do_link takes the
\* owners in this order, and the functions of an owner in the order of Kinds.
Work     == 0
Owners   == 0..EventCount
Kinds(o) == IF o = Work THEN <<"init", "finit">> ELSE <<"init", "finit", "preprocessor">>
Slots    == UNION {{<<o, n>> : n \in DOMAIN Kinds(o)} : o \in Owners}

\* An ey_code_t: its function and whether its handle has an address.
Code(S)     == [function : S, handle : BOOLEAN]
NoCode      == [function |-> "none", handle |-> FALSE]
Unbound(f)  == [function |-> f, handle |-> FALSE]
Bound(f)    == [function |-> f, handle |-> TRUE]

VARIABLES
  phase,    \* where ey_engine_load or ey_engine_destroy stands
  hook,     \* the user-defined function of every slot
  inits,    \* ey_file_init_list
  finits,   \* ey_file_finit_list
  pos,      \* the entry of a list, or the owner, that is next
  entered,  \* history: the file init functions called, in order
  ended,    \* history: the file finit functions called, in order
  given     \* history: the names on finits that came with an address

linkVars == <<phase, hook, inits, finits, pos, entered, ended, given>>

LinkInit ==
  /\ phase = "parse"
  /\ hook = [s \in Slots |-> NoCode]
  /\ inits = <<>> /\ finits = <<>>
  /\ pos = 1
  /\ entered = <<>> /\ ended = <<>> /\ given = {}

-----------------------------------------------------------------------------
(* Registration, when the call returns zero.                               *)

Listed(f, list) == \E n \in DOMAIN list : list[n].function = f

\* Mutant: a second registration of the name is another entry.
AddAgain(c, list) == Append(list, c)

\* ey_signature_add_init, ey_signature_add_finit: the first of a name stays.
Add(c, list) == IF Listed(c.function, list) THEN list ELSE Append(list, c)

\* Mutant: the last one to register wins.
SetLast(s, c) == hook' = [hook EXCEPT ![s] = c]

\* ey_event_set_runtime_*, ey_work_set_runtime_* returning zero: the slot is
\* empty, or holds the same name, in which case it stays as it is.
Set(s, c) ==
  \/ hook[s] = NoCode /\ hook' = [hook EXCEPT ![s] = c]
  \/ hook[s].function = c.function /\ UNCHANGED hook

\* While files are parsed the library of an %import may register as well;
\* in a file init function everything comes with its address.
Registering == phase = "parse" \/ phase = "init"

AddFinit(c) ==
  /\ Registering
  /\ phase = "init" => c.handle
  /\ finits' = Add(c, finits)
  /\ given' = IF c.handle /\ ~Listed(c.function, finits)
                THEN given \cup {c.function} ELSE given
  /\ UNCHANGED <<phase, hook, inits, pos, entered, ended>>

SetHook(s, c) ==
  /\ Registering
  /\ phase = "init" => c.handle
  /\ Set(s, c)
  /\ UNCHANGED <<phase, inits, finits, pos, entered, ended, given>>

AddInit(f) ==
  /\ phase = "parse"
  /\ inits' = Add(Unbound(f), inits)
  /\ UNCHANGED <<phase, hook, finits, pos, entered, ended, given>>

Fail == phase' = "failed" /\ UNCHANGED <<hook, inits, finits, pos, entered, ended, given>>

\* A file is refused, a prologue finds another function in its slot, the JIT
\* does not compile or relocate.  (The macros return -1 to their caller.)
ParseFails == phase = "parse" /\ Fail

-----------------------------------------------------------------------------
(* do_link.                                                                *)

Goto(next) == phase' = next /\ pos' = 1

\* Every file is compiled and the JIT has relocated the program.
Relocate ==
  /\ phase = "parse"
  /\ Goto("inits")
  /\ UNCHANGED <<hook, inits, finits, entered, ended, given>>

CallInit ==
  /\ phase = "inits" /\ pos \in DOMAIN inits
  /\ inits[pos].function \notin Static
  /\ phase' = "init"
  /\ inits' = [inits EXCEPT ![pos] = Bound(@.function)]
  /\ entered' = Append(entered, inits[pos].function)
  /\ UNCHANGED <<hook, finits, pos, ended, given>>

NoSuchInit ==
  /\ phase = "inits" /\ pos \in DOMAIN inits
  /\ inits[pos].function \in Static
  /\ Fail

InitReturns ==
  /\ phase = "init"
  /\ phase' = "inits" /\ pos' = pos + 1
  /\ UNCHANGED <<hook, inits, finits, entered, ended, given>>

InitFails == phase = "init" /\ Fail

InitsDone ==
  /\ phase = "inits" /\ pos > Len(inits)
  /\ Goto("finits")
  /\ UNCHANGED <<hook, inits, finits, entered, ended, given>>

\* Mutant: the loop does not advance.
LinkFinitInPlace ==
  /\ phase = "finits" /\ pos \in DOMAIN finits
  /\ finits[pos].function \notin Static
  /\ finits' = [finits EXCEPT ![pos] = Bound(@.function)]
  /\ UNCHANGED <<phase, hook, inits, pos, entered, ended, given>>

\* The address of a file finit function is looked up, also where there is one.
LinkFinit ==
  /\ phase = "finits" /\ pos \in DOMAIN finits
  /\ finits[pos].function \notin Static
  /\ finits' = [finits EXCEPT ![pos] = Bound(@.function)]
  /\ pos' = pos + 1
  /\ UNCHANGED <<phase, hook, inits, entered, ended, given>>

\* One that is not found: the NULL has taken the place of the address, if there
\* was one, when the load fails.
NoSuchFinit ==
  /\ phase = "finits" /\ pos \in DOMAIN finits
  /\ finits[pos].function \in Static
  /\ phase' = "failed"
  /\ finits' = [finits EXCEPT ![pos] = Unbound(@.function)]
  /\ UNCHANGED <<hook, inits, pos, entered, ended, given>>

FinitsDone ==
  /\ phase = "finits" /\ pos > Len(finits)
  /\ phase' = "hooks" /\ pos' = Work
  /\ UNCHANGED <<hook, inits, finits, entered, ended, given>>

\* Mutant: the functions of a work are passed over like those of an event.
PassedOverAll(s) == \E n \in 1..s[2] - 1 : hook[<<s[1], n>>].handle

\* The loop over the events goes on to the next event as soon as it meets a
\* function that has an address; the two functions of a work are independent.
PassedOver(s) ==
  s[1] # Work /\ \E n \in 1..s[2] - 1 : hook[<<s[1], n>>].handle

\* The functions of owner o that need an address, up to the first whose name
\* is not found.
ToLink(o) ==
  {s \in Slots : s[1] = o /\ hook[s] # NoCode /\ ~hook[s].handle /\ ~PassedOver(s)}
Found(o)  ==
  {s \in ToLink(o) : \A t \in ToLink(o) : t[2] <= s[2] => hook[t].function \notin Static}

LinkOwner ==
  /\ phase = "hooks" /\ pos \in Owners
  /\ hook' = [s \in Slots |->
       IF s \in Found(pos) THEN Bound(hook[s].function) ELSE hook[s]]
  /\ IF Found(pos) = ToLink(pos)
       THEN pos' = pos + 1 /\ UNCHANGED phase
       ELSE phase' = "failed" /\ UNCHANGED pos
  /\ UNCHANGED <<inits, finits, entered, ended, given>>

\* Then the prefix and postfix arrays, and the preprocessors' compilation.
LinkDone ==
  /\ phase = "hooks" /\ pos > EventCount
  /\ phase' \in {"loaded", "failed"}
  /\ UNCHANGED <<hook, inits, finits, pos, entered, ended, given>>

-----------------------------------------------------------------------------
(* ey_engine_destroy: ey_signature_finit walks the finit functions.        *)

Destroy ==
  /\ phase \in {"loaded", "failed"}
  /\ Goto("unload")
  /\ UNCHANGED <<hook, inits, finits, entered, ended, given>>

\* Mutant: the list is walked from its end.
CallFinitBackwards ==
  /\ phase = "unload" /\ pos \in DOMAIN finits
  /\ pos' = pos + 1
  /\ LET c == finits[Len(finits) + 1 - pos] IN
       ended' = IF c.handle THEN Append(ended, c.function) ELSE ended
  /\ UNCHANGED <<phase, hook, inits, finits, entered, given>>

CallFinit ==
  /\ phase = "unload" /\ pos \in DOMAIN finits
  /\ pos' = pos + 1
  /\ ended' = IF finits[pos].handle THEN Append(ended, finits[pos].function) ELSE ended
  /\ UNCHANGED <<phase, hook, inits, finits, entered, given>>

Gone ==
  /\ phase = "unload" /\ pos > Len(finits)
  /\ Goto("gone")
  /\ UNCHANGED <<hook, inits, finits, entered, ended, given>>

Register ==
  \/ \E f \in Inits : AddInit(f)
  \/ \E f \in Finits, h \in BOOLEAN : AddFinit([function |-> f, handle |-> h])
  \/ \E s \in Slots, f \in FunctionNames, h \in BOOLEAN :
       SetHook(s, [function |-> f, handle |-> h])

DoLink ==
  \/ ParseFails \/ Relocate
  \/ CallInit \/ NoSuchInit \/ InitReturns \/ InitFails \/ InitsDone
  \/ LinkFinit \/ NoSuchFinit \/ FinitsDone
  \/ LinkOwner \/ LinkDone

Unload == Destroy \/ CallFinit \/ Gone

LinkNext == Register \/ DoLink \/ Unload

\* Loading goes on unless a file init function does not return; whether and
\* when the engine is destroyed is up to the program.
LinkSpec ==
  /\ LinkInit /\ [][LinkNext]_linkVars
  /\ WF_linkVars(DoLink) /\ WF_linkVars(CallFinit \/ Gone)

-----------------------------------------------------------------------------
FunctionsOf(list) == [n \in DOMAIN list |-> list[n].function]

\* The functions with an address, of the first n entries.
HandledTo(list, n) ==
  LET walk[k \in 0..Len(list)] ==
        IF k = 0 THEN <<>>
        ELSE IF list[k].handle THEN Append(walk[k - 1], list[k].function) ELSE walk[k - 1]
  IN  walk[n]

Handled(list) == HandledTo(list, Len(list))

(***************************************************************************)
(* File init functions are called in the order of registration, each once, *)
(* and the call of one that failed is the last ("when eyoung IPS engine    *)
(* finds initializing failure, it will stop"); a loaded engine has called  *)
(* all of them.                                                            *)
(***************************************************************************)
InitsInOrder ==
  /\ entered = SubSeq(FunctionsOf(inits), 1, Len(entered))
  /\ \A m, n \in DOMAIN entered : entered[m] = entered[n] => m = n
  /\ phase = "loaded" => Len(entered) = Len(inits)

Ended == {ended[n] : n \in DOMAIN ended}

(***************************************************************************)
(* When the engine is gone, the finit functions that have an address have  *)
(* been called, each once, in the order of registration; once the load has *)
(* succeeded, that is all of them.  If it has failed, wherever that was,   *)
(* those that came with an address are among them, but for at most one,    *)
(* whose name the JIT did not know when all file init functions had been   *)
(* called; those that came by name alone are not, unless all file init     *)
(* functions had been called.                                              *)
(***************************************************************************)
FinitsInOrder ==
  /\ phase = "gone" => ended = Handled(finits)
  /\ \A m, n \in DOMAIN ended : ended[m] = ended[n] => m = n
  /\ phase = "loaded" => Handled(finits) = FunctionsOf(finits)
  /\ phase = "gone" => \A f, g \in given \ Ended :
       f = g /\ f \in Static /\ Len(entered) = Len(inits)
  /\ Ended \subseteq given \/ Len(entered) = Len(inits)

(***************************************************************************)
(* The first function registered for a slot keeps it, and an address once  *)
(* known is never lost: prologues of several files, libraries and file     *)
(* init functions compete for the slots of the same event.                 *)
(***************************************************************************)
FirstKeepsTheSlot ==
  [][\A s \in Slots : hook[s] # NoCode =>
       /\ hook'[s].function = hook[s].function
       /\ hook[s].handle => hook'[s].handle]_linkVars

(***************************************************************************)
(* In a loaded engine every function of a work has its address, and so has *)
(* every function of an event of which none was registered with its        *)
(* address: ey_runtime.c asserts it wherever it calls one.  In an event    *)
(* that mixes the two a function that came by name may stay without one,   *)
(* if another before it has its address.                                   *)
(***************************************************************************)
HooksBoundUnlessMixed ==
  phase = "loaded" =>
    \A s \in Slots : hook[s] # NoCode /\ ~hook[s].handle =>
      /\ s[1] # Work
      /\ \E t \in Slots : t[1] = s[1] /\ t[2] < s[2] /\ hook[t].handle

\* ey_engine_load returns, if the file init functions do.
LoadEnds == (phase = "inits") ~> (phase \in {"loaded", "failed"})
=============================================================================
