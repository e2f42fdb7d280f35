-------------------------------- MODULE Load --------------------------------
(***************************************************************************)
(* ey_engine_load (libengine/engine.c): every file is parsed (ey_parser.c, *)
(* gram.y), its signatures go into the signature hash and its rhs items    *)
(* into the lists of their events (ey_signature.c), its signatures join    *)
(* those of the engine (ey_compiler.c); when all files are done the prefix *)
(* and postfix arrays are set (ey_engine.c).  The tables that result are   *)
(* what module Rules takes for granted.  (Module Link has the functions.)  *)
(*                                                                         *)
(* The parser calls an action of the grammar as soon as it has read what   *)
(* the action needs: events, then signature by signature the number, the   *)
(* items, the end.  The engine loads once: after a failure every caller in *)
(* the repository destroys it.                                             *)
(*                                                                         *)
(* The hash of file names takes the address of a name for its key, and the *)
(* copy that it keeps is freed with the parser of the file; so the memory  *)
(* of parser_fslab that holds names is modelled, other memory is not.  (The*)
(* hash of signatures takes an address as well, but 8 divides the address  *)
(* of a number and there are 8 lines: all signatures share one line.)      *)
(*                                                                         *)
(* A file that the parser gives up in its middle takes its prologue along: *)
(* the names of its imports are freed, and those of the events it declares.*)
(***************************************************************************)
EXTENDS Import, Sequences, SequencesExt

CONSTANTS
  Names,    \* of files, libraries and events
  Inputs,   \* lists of files; a file has a name, imports, events, signatures
  Step      \* EVENT_ARRAY_STEP

\* What the grammar makes of a file: an alternative has at least one item, a
\* signature at least one alternative.
Signatures == [id : Nat, alternatives : Seq(Seq(Names) \ {<<>>}) \ {<<>>}]
Files == [name : Names, imports : Seq(Names), events : Seq(Names),
          signatures : Seq(Signatures)]

\* ey_engine_load refuses an empty list of files.
ASSUME LoadAssumption ==
  /\ Step \in Nat \ {0}
  /\ Inputs \subseteq Seq(Files) \ {<<>>}

VARIABLES
  files,    \* the argument of ey_engine_load
  file,     \* the index of the file under way
  stage,    \* "open", "imports", "events", "number", "items", "arrays", and
            \* "loaded", "failed" or "crashed"
  refused,  \* the file was refused for its name
  at,       \* the import, event or signature of the file that is next
  copy,     \* the cell of parser->filename
  names,    \* filename_hash: the cells it points to
  declared, \* the %events of the file so far: places in the array
  event,    \* event_array: the names of the events
  size,     \* event_size
  waiting,  \* item_list of every event: the numbers of items
  rhs_id,   \* the number given last
  alts,     \* the alternatives of the signature under way, lists of items
  parsed,   \* signature_list of the file
  hash,     \* signature_hash: the numbers of signatures
  list,     \* signature_list of the engine
  prefix, postfix

parser == <<file, stage, refused, at>>
memory == <<text, used, copy, names>>
library == <<attached, imported>>
table  == <<event, size, waiting>>
rules  == <<rhs_id, alts, parsed, hash, list>>
arrays == <<prefix, postfix>>
vars   == <<files, parser, memory, library, declared, table, rules, arrays>>

File      == files[file]
Signature == File.signatures[at]

Init ==
  /\ files \in Inputs
  /\ file = 1 /\ stage = "open" /\ refused = FALSE /\ at = 1
  /\ text = [c \in Cells |-> "nothing"] /\ used = {} /\ names = {} /\ copy \in Cells
  /\ attached = {} /\ imported = {} /\ declared = <<>>
  /\ event = <<>> /\ size = Step /\ waiting = <<>>
  /\ rhs_id = 0 /\ alts = <<>> /\ parsed = <<>> /\ hash = {} /\ list = <<>>
  /\ prefix = <<>> /\ postfix = <<>>

-----------------------------------------------------------------------------
(* ey_parse_file, the name.                                                *)

Refuse == stage' = "failed" /\ refused' = TRUE /\ UNCHANGED <<files, file, at>>

\* ey_hash_find with the caller's string: it looks at the line of that address,
\* which may be any.
Known ==
  /\ stage = "open"
  /\ \E c \in names : text[c] = File.name
  /\ Refuse
  /\ UNCHANGED <<memory, library, declared, table, rules, arrays>>

Conflict(c) == \E d \in names : LineOf[d] = LineOf[c] /\ text'[d] = File.name

\* ... or does not find it: copy the name, insert the copy.
Open(c) ==
  /\ stage = "open"
  /\ Put(c, File.name)
  /\ copy' = c
  /\ IF Conflict(c)
       THEN /\ Refuse
            /\ UNCHANGED <<used, names>>
       ELSE /\ used' = used \cup {c}
            /\ names' = names \cup {c}
            /\ stage' = "imports" /\ at' = 1
            /\ UNCHANGED <<files, file, refused>>
  /\ UNCHANGED <<library, declared, table, rules, arrays>>

Parsing == stage \in {"imports", "events", "number", "items"}

\* Some other string of the file gets a cell.
Token(c) ==
  /\ Parsing
  /\ Put(c, "token")
  /\ used' = used \cup {c}
  /\ UNCHANGED <<files, parser, copy, names, library, declared, table, rules, arrays>>

\* No memory, no file, a failure of the JIT: nothing but the copy is freed.
Fails ==
  /\ \/ stage \in {"open", "arrays"} /\ UNCHANGED used
     \/ stage = "number" /\ at > Len(File.signatures) /\ used' = used \ {copy}
  /\ stage' = "failed"
  /\ UNCHANGED <<files, file, refused, at, text, copy, names, library, declared,
                 table, rules, arrays>>

\* An error of syntax, a conflict between definitions, a library that does not
\* open: the destructors of the grammar free the prologue, an event's name once
\* for every %event that stands for it.  The second time the slab stops the
\* program.
Once(s) == \A m, n \in DOMAIN s : s[m] = s[n] => m = n

Abort ==
  /\ stage' = IF Once(declared) THEN "failed" ELSE "crashed"
  /\ used' = used \ ({copy} \cup imported)
  /\ UNCHANGED <<files, file, refused, at, text, copy, names, library, declared,
                 table, rules, arrays>>

Aborts == Parsing /\ Abort

-----------------------------------------------------------------------------
(* The prologue.                                                           *)

Import(c) ==
  /\ stage = "imports" /\ at <= Len(File.imports)
  /\ Attach(c, File.imports[at])
  /\ at' = at + 1
  /\ UNCHANGED <<files, file, stage, refused, copy, names, declared, table, rules, arrays>>

ImportsDone ==
  /\ stage = "imports" /\ at > Len(File.imports)
  /\ stage' = "events" /\ at' = 1
  /\ UNCHANGED <<files, file, refused, memory, library, declared, table, rules, arrays>>

Defined(e) == \E n \in DOMAIN event : event[n] = e
PlaceOf(e) == CHOOSE n \in DOMAIN event' : event'[n] = e

\* Mutant: the lists of the events stay with the old array.
GrowEmpty(e) ==
  /\ size' = size + Step
  /\ event' = Append(event, e)
  /\ waiting' = [n \in 1..Len(event) + 1 |-> <<>>]

\* A new array, to which the lists of the events move.
Grow(e) ==
  /\ size' = size + Step
  /\ event' = Append(event, e)
  /\ waiting' = Append(waiting, <<>>)

AddEvent(e) ==
  /\ size' = size
  /\ event' = Append(event, e)
  /\ waiting' = Append(waiting, <<>>)

AllocEvent ==
  /\ stage = "events" /\ at <= Len(File.events)
  /\ LET e == File.events[at] IN
       /\ \/ Defined(e) /\ UNCHANGED table
          \/ ~Defined(e) /\ Len(event) = size /\ Grow(e)
          \/ ~Defined(e) /\ Len(event) < size /\ AddEvent(e)
       /\ declared' = Append(declared, PlaceOf(e))
  /\ at' = at + 1
  /\ UNCHANGED <<files, file, stage, refused, memory, library, rules, arrays>>

EventsDone ==
  /\ stage = "events" /\ at > Len(File.events)
  /\ stage' = "number" /\ at' = 1
  /\ UNCHANGED <<files, file, refused, memory, library, declared, table, rules, arrays>>

-----------------------------------------------------------------------------
(* Signatures.                                                             *)

\* Mutant: the number of a signature is looked up in its own file only.
NumberTakenHere == \E n \in DOMAIN parsed : parsed[n].id = Signature.id
NumberTaken == Signature.id \in hash

\* signature_lhs.
Number ==
  /\ stage = "number" /\ at <= Len(File.signatures)
  /\ ~NumberTaken
  /\ stage' = "items"
  /\ alts' = <<>>
  /\ UNCHANGED <<files, file, refused, at, memory, library, declared, table, rhs_id,
                 parsed, hash, list, arrays>>

NumberRefused ==
  /\ stage = "number" /\ at <= Len(File.signatures)
  /\ NumberTaken
  /\ Abort

\* Where the next item goes: an alternative that is not complete, or a new one.
Complete(n) == Len(alts[n]) = Len(Signature.alternatives[n])
AllComplete ==
  Len(alts) = Len(Signature.alternatives) /\ \A n \in DOMAIN alts : Complete(n)

NewAlternative == alts = <<>> \/ Complete(Len(alts))
NextEvent ==
  IF NewAlternative THEN Signature.alternatives[Len(alts) + 1][1]
                    ELSE Signature.alternatives[Len(alts)][Len(Last(alts)) + 1]

\* Mutant: an item goes to the head of its alternative.
PlaceFirst(i) ==
  IF NewAlternative THEN Append(alts, <<i>>)
                    ELSE [alts EXCEPT ![Len(alts)] = <<i>> \o @]

Place(i) ==
  IF NewAlternative THEN Append(alts, <<i>>)
                    ELSE [alts EXCEPT ![Len(alts)] = Append(@, i)]

\* rhs_name, signature_rhs, signature_rhs_list, signature_pipe_list.
Item ==
  /\ stage = "items" /\ ~AllComplete
  /\ Defined(NextEvent)
  /\ rhs_id' = rhs_id + 1
  /\ alts' = Place([rhs_id |-> rhs_id', event |-> NextEvent])
  /\ UNCHANGED <<files, parser, memory, library, declared, table, parsed, hash, list, arrays>>

NoSuchEvent ==
  /\ stage = "items" /\ ~AllComplete
  /\ ~Defined(NextEvent)
  /\ Abort

\* The items that wait for event e: each goes to the tail of the list.
ItemsFor(items, e) ==
  LET walk[n \in 0..Len(items)] ==
        IF n = 0 THEN <<>>
        ELSE IF items[n].event = e THEN Append(walk[n - 1], items[n]) ELSE walk[n - 1]
  IN  walk[Len(items)]

NewItems(n) == ItemsFor(FlattenSeq(alts), event[n])

\* ey_alloc_signature, ey_insert_signature.
Insert ==
  /\ stage = "items" /\ AllComplete
  /\ hash' = hash \cup {Signature.id}
  /\ parsed' = Append(parsed, [id |-> Signature.id, alternatives |-> alts])
  /\ waiting' = [n \in DOMAIN waiting |-> waiting[n] \o NewItems(n)]
  /\ stage' = "number" /\ at' = at + 1
  /\ UNCHANGED <<files, file, refused, memory, library, declared, event, size, rhs_id,
                 alts, list, arrays>>

\* The file is written (ey_output_cfile), compiled, and joins the engine; its
\* prologue lives on, and no destructor is left that would free it.
Join ==
  /\ stage = "number" /\ at > Len(File.signatures)
  /\ Extracted
  /\ list' = list \o parsed
  /\ parsed' = <<>>
  /\ used' = used \ {copy}
  /\ imported' = {}
  /\ IF file < Len(files) THEN file' = file + 1 /\ stage' = "open"
                          ELSE file' = file /\ stage' = "arrays"
  /\ UNCHANGED <<files, refused, at, text, copy, names, attached, table, rhs_id, alts,
                 hash, arrays>>

\* Mutant: the next file inherits the prologue.
FileDoneInherits == Join /\ UNCHANGED declared
FileDone == Join /\ declared' = <<>>

-----------------------------------------------------------------------------
(* do_prefix_postfix.  ey_load_post_action wants at least one item.        *)

Alternatives == FlattenSeq([n \in DOMAIN list |-> list[n].alternatives])
ItemsOf(a)   == {a[k].rhs_id : k \in DOMAIN a}

Before(a, k) == IF k = 1 THEN 0 ELSE a[k - 1].rhs_id
Behind(a, k) == IF k = Len(a) THEN 0 ELSE a[k + 1].rhs_id

AlternativeOf(i) == CHOOSE a \in ToSet(Alternatives) : i \in ItemsOf(a)
PlaceIn(a, i)    == CHOOSE k \in DOMAIN a : a[k].rhs_id = i

SetArrays ==
  /\ stage = "arrays" /\ rhs_id > 0
  /\ prefix' = [i \in 1..rhs_id |->
                  LET a == AlternativeOf(i) IN Before(a, PlaceIn(a, i))]
  /\ postfix' = [i \in 1..rhs_id |->
                   LET a == AlternativeOf(i) IN Behind(a, PlaceIn(a, i))]
  /\ stage' = "loaded"
  /\ UNCHANGED <<files, file, refused, at, memory, library, declared, table, rules>>

Next ==
  \/ Known \/ Fails \/ Aborts
  \/ \E c \in Cells : Open(c) \/ Token(c) \/ Import(c)
  \/ ImportsDone \/ AllocEvent \/ EventsDone
  \/ Number \/ NumberRefused \/ Item \/ NoSuchEvent \/ Insert \/ FileDone
  \/ SetArrays

Spec == Init /\ [][Next]_vars

-----------------------------------------------------------------------------
Inserted == list \o parsed
InsertedItems ==
  FlattenSeq(FlattenSeq([n \in DOMAIN Inserted |-> Inserted[n].alternatives]))

(***************************************************************************)
(* The list of an event has the items that wait for the event, all of them *)
(* and in the order of their numbers, through every growth of the array in *)
(* which the lists are anchored (as long as no file has failed, which      *)
(* leaves items on the lists that are no more); the array never holds more *)
(* events than it has room for.                                            *)
(***************************************************************************)
ListsComplete ==
  /\ Len(event) = Len(waiting) /\ Len(event) <= size
  /\ stage \notin {"failed", "crashed"} =>
    \A n \in DOMAIN event : waiting[n] = ItemsFor(InsertedItems, event[n])

(***************************************************************************)
(* The numbers of a loaded engine are 1..rhs_id in the order of the text,  *)
(* every item once; and the arrays link the neighbours in an alternative   *)
(* and nothing else.  This is what module Rules builds on.                 *)
(***************************************************************************)
TablesFit ==
  stage = "loaded" =>
    /\ [k \in DOMAIN InsertedItems |-> InsertedItems[k].rhs_id] = [k \in 1..rhs_id |-> k]
    /\ \A n \in DOMAIN Alternatives :
         LET I == ItemsOf(Alternatives[n]) IN
         \A i \in I : /\ prefix[i] = (IF i - 1 \in I THEN i - 1 ELSE 0)
                      /\ postfix[i] = (IF i + 1 \in I THEN i + 1 ELSE 0)

(***************************************************************************)
(* No two signatures have the same number, in one file or in several, nor  *)
(* does a file that is named twice get through: the names of the generated *)
(* functions, __condition_1_0_0 and the like, are made from the numbers.   *)
(***************************************************************************)
NumbersUnique ==
  \A m, n \in DOMAIN Inserted : Inserted[m].id = Inserted[n].id => m = n

(***************************************************************************)
(* Until a file is given up, the name of every library stands where its    *)
(* entry says, whatever memory was freed and used again since; so each     *)
(* %import of the file finds its library when the file is written.  A      *)
(* library that is imported again is opened again only if its name came to *)
(* another line.                                                           *)
(***************************************************************************)
LibrariesKnown ==
  /\ stage \notin {"failed", "crashed"} =>
       /\ \A l \in attached : l.cell \in used /\ text[l.cell] = l.library
       /\ Extracted
  /\ \A k, l \in attached :
       k.library = l.library /\ k # l => LineOf[k.cell] # LineOf[l.cell]

(***************************************************************************)
(* A file that cannot be loaded stops the program only if it declares an   *)
(* event twice itself; that it shares events with other files does no harm,*)
(* although the name of such an event is freed for it once more.           *)
(***************************************************************************)
CrashIfRepeated == stage = "crashed" => ~Once(File.events)

(***************************************************************************)
(* A file is refused for its name only if it has been parsed: "file %s has *)
(* been parsed" (ey_parser.c).                                             *)
(***************************************************************************)
RefusedIfParsed ==
  refused => \E n \in 1..file - 1 : files[n].name = File.name
=============================================================================
