----------------------------- MODULE EntryStore -----------------------------
(***************************************************************************)
(* What the NVRAM promises its users (inc/aj_nvram.h): a set of entries    *)
(* with unique ids, each with its contents, that survive the process.      *)
(* Sizes are in words of four bytes; an entry takes one for its header.    *)
(***************************************************************************)
EXTENDS Naturals, Sequences, FiniteSets

CONSTANTS
  Ids,       \* the ids in use
  Contents,  \* what may be written to an entry
  Words,     \* words in all
  Free       \* the word that fills an entry not yet written

VARIABLE entries  \* the contents of each id that exists

Size(contents)   == 1 + Len(contents)
Used(es)         == Cardinality(UNION {{id} \X (0 .. Len(es[id])) : id \in DOMAIN es})
Without(es, id)  == [other \in DOMAIN es \ {id} |-> es[other]]
With(es, id, contents) ==
  [other \in DOMAIN es \cup {id} |-> IF other = id THEN contents ELSE es[other]]
Nothing          == <<>>

Init == entries = Nothing

\* "If a data set with the same id already exists, its contents are discarded":
\* also when there turns out to be no room for the new ones.
Write(id, contents) ==
  LET rest == Without(entries, id)
  IN entries' = IF Used(rest) + Size(contents) <= Words THEN With(rest, id, contents) ELSE rest

Delete(id) == entries' = Without(entries, id)

Clear == entries' = Nothing

\* The process ends while it writes an entry: the old contents are gone (Delete),
\* or the entry has been made anew and not filled.  Or it ends while the file is
\* written anew, and everything is lost.
Crash ==
  \/ \E id \in Ids, contents \in Contents : Write(id, [i \in DOMAIN contents |-> Free])
  \/ Clear

Next ==
  \/ \E id \in Ids : Delete(id) \/ \E contents \in Contents : Write(id, contents)
  \/ Clear \/ Crash

Spec == Init /\ [][Next]_entries
=============================================================================
