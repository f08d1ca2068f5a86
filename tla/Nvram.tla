------------------------------- MODULE Nvram -------------------------------
(***************************************************************************)
(* The NVRAM block (nvram/aj_nvram.c) and the file that keeps it on Linux  *)
(* (target/linux/aj_target_nvram.c).  The block is a row of words of four  *)
(* bytes, written here as two halves; an entry is a header, with its id    *)
(* and capacity, and that many words.  A deleted entry has id 0 and stays  *)
(* until the block is compacted.  The sentinel before the block is in the  *)
(* file exactly when the file is not empty.                                *)
(*                                                                         *)
(* A call is a step.  Every write inside it stores the file; a process     *)
(* that ends inside a call starts again from the file stored last.         *)
(***************************************************************************)
EXTENDS Naturals, Sequences, FiniteSetsExt

CONSTANTS
  Ids,         \* the ids in use
  Contents,    \* what is written to entries: nonempty sequences of words
  NvramSize,   \* AJ_NVRAM_SIZE without the sentinel, in words
  INVALID_DATA,\* 0xFFFF
  NvramFaults  \* "crash": a process may end inside a call; "compacting": also
               \* between two moves of a compaction

ASSUME NvramAssumption ==
  /\ INVALID_DATA \in Nat /\ NvramSize \in Nat \ {0} /\ NvramSize < INVALID_DATA
  /\ Ids \subseteq 1 .. INVALID_DATA - 1
  /\ Contents \subseteq Seq((0 .. INVALID_DATA) \X (0 .. INVALID_DATA)) \ {<<>>}
  /\ NvramFaults \subseteq {"crash", "compacting"}

VARIABLES
  mem,       \* AJ_EMULATED_NVRAM, between two calls also what the file holds
  isCompact

nvramVars == <<mem, isCompact>>

INVALID_ID == 0
Block      == 1 .. NvramSize
Half       == 0 .. INVALID_DATA
FF         == <<INVALID_DATA, INVALID_DATA>>
Zero       == <<0, 0>>
Erased     == [p \in Block |-> FF]
Null       == 0

NvramInit == mem = Erased /\ isCompact = FALSE

-----------------------------------------------------------------------------
(* The walk over the entries *)

IdAt(m, p)       == m[p][1]
CapacityAt(m, p) == m[p][2]

\* Where a walk from the start of the block reads a header.
Reached(m) ==
  LET walk[p \in Nat] ==
        IF p \notin Block THEN {}
        ELSE {p} \cup IF IdAt(m, p) = INVALID_DATA THEN {} ELSE walk[p + 1 + CapacityAt(m, p)]
  IN walk[1]

Headers(m) == {p \in Reached(m) : IdAt(m, p) # INVALID_DATA}
Live(m)    == {p \in Headers(m) : IdAt(m, p) # INVALID_ID}

\* AJ_FindNVEntry; with INVALID_DATA it finds the end of the entries.
AJ_FindNVEntry(m, id) ==
  LET found == {p \in Reached(m) : IdAt(m, p) = id} IN IF found = {} THEN Null ELSE Min(found)

\* The words of the entries at ps, headers and contents.
Taken(m, ps)   == UNION {p .. p + CapacityAt(m, p) : p \in ps}
WordsOf(m, ps) == Cardinality(Taken(m, ps))

-----------------------------------------------------------------------------
(* _AJ_CompactNVStorage *)

\* Where word j of `words' goes when these are moved to the front of the block, in
\* order, and the word that comes to place i.
PlaceOf(words, j) == Cardinality({k \in words : k <= j})
WordAt(words, i)  == CHOOSE j \in words : PlaceOf(words, j) = i

\* The entries at `moved' have been moved to the front, the rest of the block is
\* still as it was.
Moving(m, moved) ==
  LET words == Taken(m, moved)
  IN [i \in Block |-> IF i <= Cardinality(words) THEN m[WordAt(words, i)] ELSE m[i]]

\* Mutant of Compacted: what was behind the entries is left there.
CompactedOnly(m) == Moving(m, Live(m))

\* As many words are cleared as the deleted entries took.
Compacted(m) ==
  LET kept    == WordsOf(m, Live(m))
      garbage == WordsOf(m, Headers(m) \ Live(m))
  IN [i \in Block |-> IF i \in kept + 1 .. kept + garbage THEN FF ELSE Moving(m, Live(m))[i]]

-----------------------------------------------------------------------------
(* Creating, writing, deleting *)

\* Mutant of Fits: the header is forgotten.
FitsNoHeader(m, capacity) ==
  LET p == AJ_FindNVEntry(m, INVALID_DATA) IN p # Null /\ p + capacity - 1 <= NvramSize

Fits(m, capacity) ==
  LET p == AJ_FindNVEntry(m, INVALID_DATA) IN p # Null /\ p + capacity <= NvramSize

\* AJ_NVRAM_Create compacts the block when there is no space and it may help.
MustCompact(m, compact, capacity) == ~Fits(m, capacity) /\ ~compact

Space(m, compact, capacity) == IF MustCompact(m, compact, capacity) THEN Compacted(m) ELSE m

Created(m, id, capacity) == [m EXCEPT ![AJ_FindNVEntry(m, INVALID_DATA)] = <<id, capacity>>]

Filled(m, p, contents) == [i \in Block |-> IF i - p \in DOMAIN contents THEN contents[i - p] ELSE m[i]]

\* Mutant of Deleted: the first entry goes, whatever its id.
DeletedFirst(m, id) ==
  IF AJ_FindNVEntry(m, id) = Null THEN m ELSE [m EXCEPT ![1][1] = INVALID_ID]

Deleted(m, id) ==
  LET p == AJ_FindNVEntry(m, id) IN IF p = Null THEN m ELSE [m EXCEPT ![p][1] = INVALID_ID]

\* Mutant of StaysCompact: a deletion leaves the flag as it is.
StaysCompactAlways(id) == isCompact

StaysCompact(id) == isCompact /\ AJ_FindNVEntry(mem, id) = Null

\* AJ_NVRAM_Open(id, "w"), AJ_NVRAM_Write of all the contents, AJ_NVRAM_Close.
Write(id, contents) ==
  LET capacity == Len(contents)
      deleted  == Deleted(mem, id)
      compact  == StaysCompact(id)
      space     == Space(deleted, compact, capacity)
  IN /\ isCompact' = (compact \/ MustCompact(deleted, compact, capacity))
     /\ mem' = IF Fits(space, capacity)
               THEN Filled(Created(space, id, capacity), AJ_FindNVEntry(space, INVALID_DATA), contents)
               ELSE space

Delete(id) ==
  /\ mem' = Deleted(mem, id)
  /\ isCompact' = StaysCompact(id)

\* The words of a pointer's size behind the header are zeroed.  It is called for
\* credentials only, and none of them is smaller than that.
SecureDelete(id) ==
  LET p == AJ_FindNVEntry(mem, id)
  IN /\ p # Null => CapacityAt(mem, p) >= 2
     /\ mem' = IF p = Null THEN mem ELSE Filled(Deleted(mem, id), p, <<Zero, Zero>>)
     /\ isCompact' = StaysCompact(id)

\* What it returns is what the live entries leave of the block.
GetSizeRemaining ==
  /\ mem' = IF isCompact THEN mem ELSE Compacted(mem)
  /\ isCompact' = TRUE

AJ_NVRAM_Clear == mem' = Erased /\ UNCHANGED isCompact

-----------------------------------------------------------------------------
(* The process ends inside a call and starts again: AJ_NVRAM_Init *)

\* What the file may hold when _AJ_CompactNVStorage is done and, with "compacting",
\* between two of its moves, each of which stores the file.
StoredInCompaction(m) ==
  {Compacted(m)} \cup
    IF "compacting" \in NvramFaults THEN {Moving(m, {q \in Live(m) : q <= p}) : p \in Live(m)} ELSE {}

\* And inside a Write: the old entry deleted, the block compacted, the new entry
\* created.
StoredInWrite(id, contents) ==
  LET capacity == Len(contents)
      deleted  == Deleted(mem, id)
      compact  == StaysCompact(id)
      space    == Space(deleted, compact, capacity)
  IN {deleted}
       \cup (IF MustCompact(deleted, compact, capacity) THEN StoredInCompaction(deleted) ELSE {})
       \cup (IF Fits(space, capacity) THEN {Created(space, id, capacity)} ELSE {})

\* fopen(nvFile, "w") has emptied the file, and nothing is written yet.
Emptied == Erased

NvramCrash ==
  /\ "crash" \in NvramFaults
  /\ mem' \in {mem, Emptied} \cup StoredInCompaction(mem)
               \cup UNION {StoredInWrite(id, contents) : id \in Ids, contents \in Contents}
  /\ isCompact' = FALSE

NvramNext ==
  \/ \E id \in Ids :
       \/ \E contents \in Contents : Write(id, contents)
       \/ Delete(id) \/ SecureDelete(id)
  \/ GetSizeRemaining \/ AJ_NVRAM_Clear \/ NvramCrash

NvramSpec == NvramInit /\ [][NvramNext]_nvramVars

-----------------------------------------------------------------------------
(* Properties *)

\* The types of the block's words and of the flag; every entry ends in the block.
BlockOK ==
  /\ mem \in [Block -> Half \X Half]
  /\ isCompact \in BOOLEAN
  /\ \A p \in Headers(mem) : p + CapacityAt(mem, p) <= NvramSize

\* The contents of the entry a walk finds.
EntryOf(id) == LET p == AJ_FindNVEntry(mem, id) IN SubSeq(mem, p + 1, p + CapacityAt(mem, p))

Store == INSTANCE EntryStore WITH
  Words <- NvramSize, Free <- FF,
  entries <- [id \in {IdAt(mem, p) : p \in Live(mem)} |-> EntryOf(id)]

\* The block is a set of entries (inc/aj_nvram.h), each written as a whole and
\* never touched by another's writing, deletion or finished compaction; a write
\* fails only when the entries that exist really leave no room, and a deleted
\* entry never comes back.  A process that ends loses the entry it was writing,
\* or finds it made and not filled, or, if it ends while the file is empty, loses
\* all of them.  It promises nothing to a process that ends between two moves of
\* a compaction: _AJ_NV_Move stores the file after each, so that entries are then
\* in it twice, or old words in the place of a header ("compacting").
KeepsEntries == Store!Spec

\* No two entries have one id, and behind the entries there is nothing but free
\* words: a walk stops exactly where AJ_NVRAM_Create will put the next entry, and
\* never takes what deleted or moved entries left behind for a header.  The flag
\* that saves a compaction is never stale: a block said to be compact has no
\* deleted entry in it.  All this as long as no process ends between two moves of
\* a compaction, as above.
LayoutOK ==
  /\ BlockOK
  /\ \A i \in WordsOf(mem, Headers(mem)) + 1 .. NvramSize : mem[i] = FF
  /\ \A p, q \in Live(mem) : IdAt(mem, p) = IdAt(mem, q) => p = q
  /\ isCompact => Headers(mem) = Live(mem)
=============================================================================
