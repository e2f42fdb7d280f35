------------------------------- MODULE Import -------------------------------
(***************************************************************************)
(* The libraries that signature files import (libengine/ey_import.c) and   *)
(* the memory of parser_fslab in which their names stand.                  *)
(*                                                                         *)
(* The hash of libraries, like that of file names, takes the address of a  *)
(* name for its key: a name is looked for on the line of the address where *)
(* the parser has just put it.  The entry keeps that address; the memory   *)
(* belongs to the %import, and goes when the parser gives up the file.     *)
(*                                                                         *)
(* What opens a library and reads its sections (ey_elf.c) succeeds here;   *)
(* where it fails nothing is entered and the file is given up (Load's      *)
(* Abort).  What a library's init function registers is in module Link.    *)
(* ey_detach_library is called by nobody.                                  *)
(***************************************************************************)
EXTENDS Integers

CONSTANTS
  Cells,    \* items of parser_fslab large enough for a name
  LineOf    \* the line, in either hash of names, for the address of a cell

ASSUME ImportAssumption == LineOf \in [Cells -> 0..7]

VARIABLES
  text,     \* what stands in a cell
  used,     \* the cells allocated
  attached, \* library_hash: what was opened, and where its name stands
  imported  \* the cells of the names in the %imports of the file under way

Put(c, name) ==
  /\ c \notin used
  /\ text' = [text EXCEPT ![c] = name]

\* ey_hash_find with the name in cell c.
Entry(c, memory) ==
  {l \in attached : LineOf[l.cell] = LineOf[c] /\ memory[l.cell] = memory[c]}

\* Mutant: the copy of a name that is known is freed at once.
AttachFrees(c, name) ==
  /\ Put(c, name)
  /\ imported' = imported \cup {c}
  /\ IF Entry(c, text') # {}
       THEN UNCHANGED <<attached, used>>
       ELSE attached' = attached \cup {[cell |-> c, library |-> name]} /\ used' = used \cup {c}

\* %import: the name gets a cell; a library that is not found is opened,
\* entered and initialised.
Attach(c, name) ==
  /\ Put(c, name)
  /\ used' = used \cup {c}
  /\ imported' = imported \cup {c}
  /\ attached' = IF Entry(c, text') # {} THEN attached
                 ELSE attached \cup {[cell |-> c, library |-> name]}

\* ey_extract_library finds what every %import of the file asks for.
Extracted == \A c \in imported : Entry(c, text) # {}
=============================================================================
