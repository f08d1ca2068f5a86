--------------------------- MODULE StorageProofs ----------------------------
(***************************************************************************)
(* Proofs about what the device keeps: PropertyStore, for any texts,       *)
(* languages and faults, and the block of NVRAM below it, Nvram, for any   *)
(* size, ids and contents.  The two have no step in common.                *)
(***************************************************************************)
EXTENDS PropertyStore, Nvram, FiniteSetTheorems, WellFoundedInduction, TLAPS

-----------------------------------------------------------------------------
(* The property store *)

\* Values that may be saved: the device has a name, the default language is
\* supported or not set, or was torn and still is.
Sound(values) ==
  /\ values \in [Fields -> Values]
  /\ values["DeviceName"] # Empty
  /\ values["DefaultLanguage"] \in Supported \cup {Empty, Blank}
  /\ values["DefaultLanguage"] = Blank => nv["DefaultLanguage"] = Blank

\* What the entries hold is as sound as what is saved.
SoundEntries ==
  /\ nv["DeviceName"] # Empty
  /\ nv["DefaultLanguage"] \in Supported \cup {Empty, Blank, Absent}

\* The inductive invariant.
IInv == TypeOK /\ RamIsSaved /\ ToldAgrees /\ Sound(ram) /\ SoundEntries

\* The names and languages a field's value is compared with are distinct.
LEMMA Distinct ==
  /\ Supported \subseteq Values /\ Generated \in Values /\ English \in Supported
  /\ Generated # Empty /\ Generated # Blank /\ Blank # Empty
  /\ Absent \notin Values
  /\ Empty \notin Supported /\ Blank \notin Supported
BY TextAssumption DEF Values

\* A name that is made is a name, and nothing else changes.
LEMMA InitMandatoryType ==
  ASSUME NEW values \in [Fields -> Values]
  PROVE  /\ InitMandatoryPropertiesInRAM(values) \in [Fields -> Values]
         /\ InitMandatoryPropertiesInRAM(values)["DeviceName"] # Empty
         /\ \A f \in Fields : (f # "DeviceName" \/ values[f] # Empty)
                                => InitMandatoryPropertiesInRAM(values)[f] = values[f]
BY Distinct DEF InitMandatoryPropertiesInRAM, Fields

\* After a start memory is what the entries say, and sound if they are.
LEMMA BootKeeps ==
  ASSUME IInv, nv' \in [Fields -> Values \cup {Absent}], SoundEntries', Boot
  PROVE  IInv'
<1> DEFINE loaded == [f \in Fields |-> IF nv'[f] # Absent THEN nv'[f] ELSE Empty]
<1>1. loaded \in [Fields -> Values]
  BY DEF Values
<1>2. ram' = InitMandatoryPropertiesInRAM(loaded) /\ announce' = TRUE /\ told' = told /\ failed' = failed
  BY DEF Boot
<1>3. "DeviceName" \in Fields /\ "DefaultLanguage" \in Fields
  BY DEF Fields
<1> HIDE DEF loaded
<1>4. ram' \in [Fields -> Values] /\ ram'["DeviceName"] # Empty
      /\ ram'["DefaultLanguage"] = loaded["DefaultLanguage"]
  BY <1>1, <1>2, <1>3, InitMandatoryType
<1>5. \A f \in Fields : nv'[f] # Absent => loaded[f] = nv'[f] /\ ram'[f] = nv'[f]
  BY <1>1, <1>2, <1>3, InitMandatoryType DEF loaded, SoundEntries
<1>6. TypeOK'
  BY <1>2, <1>4 DEF IInv, TypeOK
<1>7. RamIsSaved'
  BY <1>5 DEF RamIsSaved
<1>8. ToldAgrees'
  BY <1>2 DEF ToldAgrees
<1>9. Sound(ram)'
  BY <1>3, <1>4, Distinct DEF Sound, SoundEntries, loaded
<1> QED
  BY <1>6, <1>7, <1>8, <1>9 DEF IInv

\* A save of sound values, finished or cut off.
LEMMA SaveKeeps ==
  ASSUME IInv, NEW values, Sound(values), Save(values)
  PROVE  IInv'
<1>1. "DeviceName" \in Fields /\ "DefaultLanguage" \in Fields
  BY DEF Fields
<1>2. CASE SaveAll(values)
  <2>1. PICK full \in SUBSET {f \in Fields : nv[f] = Absent /\ "room" \in Faults} :
          /\ ram' = values
          /\ nv' = [f \in Fields |-> IF f \in full THEN Absent ELSE values[f]]
          /\ announce' = TRUE /\ told' = told /\ failed' = failed
    BY <1>2 DEF SaveAll
  <2>2. TypeOK'
    BY <2>1 DEF IInv, TypeOK, Sound
  <2>3. RamIsSaved'
    BY <2>1 DEF RamIsSaved
  <2>4. ToldAgrees'
    BY <2>1 DEF ToldAgrees
  <2>5. Sound(ram)'
    <3>1. values["DefaultLanguage"] = Blank => nv'["DefaultLanguage"] = Blank
      <4>1. values["DefaultLanguage"] = Blank => "DefaultLanguage" \notin full
        BY TextAssumption DEF Sound
      <4> QED
        BY <4>1, <2>1, <1>1
    <3> QED
      BY <2>1, <3>1 DEF Sound
  <2>6. SoundEntries'
    BY <2>1, <1>1, TextAssumption DEF Sound, SoundEntries
  <2> QED
    BY <2>2, <2>3, <2>4, <2>5, <2>6 DEF IInv
<1>3. CASE CrashInSaveAll(values)
  <2>1. PICK n \in 0 .. 4,
             next \in {"old"} \cup (IF "torn" \in Faults THEN {Absent, Blank} ELSE {}) :
          nv' = [f \in Fields |-> IF Order(f) <= n THEN values[f]
                                  ELSE IF Order(f) = n + 1 /\ next # "old" THEN next ELSE nv[f]]
    BY <1>3 DEF CrashInSaveAll
  <2>2. \A f \in Fields : \/ nv'[f] = values[f] \/ nv'[f] = nv[f]
                          \/ nv'[f] \in {Absent, Blank}
    BY <2>1
  <2>3. nv' \in [Fields -> Values \cup {Absent}]
    BY <2>1, <2>2 DEF IInv, TypeOK, Sound, Values
  <2>4. SoundEntries'
    BY <2>2, <1>1, TextAssumption DEF IInv, Sound, SoundEntries
  <2> QED
    BY <1>3, <2>3, <2>4, BootKeeps DEF CrashInSaveAll
<1> QED
  BY <1>2, <1>3 DEF Save

\* Values read back from the entries, over sound ones, are those that memory had
\* where the entries exist.
LEMMA LoadAllKeeps ==
  ASSUME IInv, NEW values, Sound(values),
         ram' = LoadAll(values), UNCHANGED <<nv, announce, told, failed>>
  PROVE  IInv'
<1>1. "DeviceName" \in Fields /\ "DefaultLanguage" \in Fields
  BY DEF Fields
<1>2. ram' = [f \in Fields |-> IF nv[f] # Absent THEN nv[f] ELSE values[f]]
  BY DEF LoadAll
<1>3. TypeOK'
  BY <1>2 DEF IInv, TypeOK, Sound
<1>4. RamIsSaved'
  BY <1>2 DEF RamIsSaved
<1>5. AllSaved => ram' = ram
  <2>1. AllSaved => \A f \in Fields : ram'[f] = ram[f]
    BY <1>2 DEF AllSaved, IInv, RamIsSaved
  <2> QED
    BY <2>1, <1>2 DEF IInv, TypeOK
<1>6. ToldAgrees'
  BY <1>5 DEF IInv, ToldAgrees, AllSaved, Shown
<1>7. Sound(ram)'
  BY <1>1, <1>2, <1>3 DEF IInv, Sound, SoundEntries, TypeOK
<1>8. SoundEntries'
  BY DEF IInv, SoundEntries
<1> QED
  BY <1>3, <1>4, <1>6, <1>7, <1>8 DEF IInv

\* Memory after a request is sound.
LEMMA UpdatedSound ==
  ASSUME IInv, NEW items \in Requests
  PROVE  Sound(Updated(items))
<1>1. \A f \in DOMAIN items : items[f] \in Values
  BY DEF Requests, Values
<1>2. \A f \in Fields : \/ Updated(items)[f] = ram[f]
                        \/ f \in DOMAIN items /\ Accepts(f, items[f]) /\ Updated(items)[f] = items[f]
  BY DEF Updated
<1>3. Updated(items) \in [Fields -> Values]
  BY <1>1, <1>2 DEF Updated, IInv, TypeOK
<1>4. "DeviceName" \in Fields /\ "DefaultLanguage" \in Fields
  BY DEF Fields
<1>5. Updated(items)["DeviceName"] # Empty
  BY <1>2, <1>4 DEF Accepts, IInv, Sound
<1>6. \/ Updated(items)["DefaultLanguage"] = ram["DefaultLanguage"]
      \/ Updated(items)["DefaultLanguage"] \in Supported
  BY <1>2, <1>4 DEF Accepts
<1> QED
  BY <1>3, <1>5, <1>6, Distinct DEF IInv, Sound

LEMMA ClearedSound ==
  ASSUME IInv, NEW keys
  PROVE  Sound(Cleared(keys))
<1> DEFINE cleared == [f \in Fields |-> IF f \in keys \cap Public THEN Empty ELSE ram[f]]
<1>1. "DeviceName" \in Fields /\ "DefaultLanguage" \in Fields
  BY DEF Fields
<1>2. cleared \in [Fields -> Values] /\ cleared["DefaultLanguage"] \in {Empty, ram["DefaultLanguage"]}
  BY <1>1 DEF IInv, TypeOK, Values
<1>3. Cleared(keys) = IF keys \cap Public = {} THEN ram ELSE InitMandatoryPropertiesInRAM(cleared)
  BY DEF Cleared
<1> HIDE DEF cleared
<1>4. CASE keys \cap Public = {}
  BY <1>3, <1>4 DEF IInv
<1>5. CASE keys \cap Public # {}
  BY <1>1, <1>2, <1>3, <1>5, InitMandatoryType, Distinct DEF IInv, Sound
<1> QED
  BY <1>4, <1>5

\* The entries are empty and memory has a name.
LEMMA InitIInv == Init => IInv
<1> SUFFICES ASSUME Init PROVE IInv
  OBVIOUS
<1> DEFINE empty == [f \in Fields |-> Empty]
<1>1. "DeviceName" \in Fields /\ "DefaultLanguage" \in Fields
  BY DEF Fields
<1>2. empty \in [Fields -> Values] /\ empty["DefaultLanguage"] = Empty
  BY <1>1 DEF Values
<1>3. ram = InitMandatoryPropertiesInRAM(empty)
  BY DEF Init
<1> HIDE DEF empty
<1>4. Sound(ram)
  BY <1>1, <1>2, <1>3, InitMandatoryType, Distinct DEF Sound
<1>5. TypeOK
  BY <1>4 DEF Init, TypeOK, Sound
<1>6. RamIsSaved /\ ToldAgrees
  BY DEF Init, RamIsSaved, ToldAgrees
<1>7. SoundEntries
  BY <1>1, TextAssumption DEF Init, SoundEntries
<1> QED
  BY <1>4, <1>5, <1>6, <1>7 DEF IInv

\* Every step keeps the inductive invariant.
LEMMA NextIInv == IInv /\ [Next]_vars => IInv'
<1> SUFFICES ASSUME IInv, [Next]_vars PROVE IInv'
  OBVIOUS
<1>1. ASSUME NEW items \in Requests, UpdateConfigurations(items) PROVE IInv'
  BY <1>1, UpdatedSound, SaveKeeps DEF UpdateConfigurations
<1>2. ASSUME NEW items \in Requests, RejectUpdate(items) PROVE IInv'
  <2>1. CASE \E key \in DOMAIN items : Accepts(key, items[key])
    BY <1>2, <2>1, UpdatedSound, LoadAllKeeps DEF RejectUpdate, about
  <2>2. CASE ~ \E key \in DOMAIN items : Accepts(key, items[key])
    <3>1. UNCHANGED vars
      BY <1>2, <2>2 DEF RejectUpdate, vars
    <3> QED
      BY <3>1 DEF vars, about, IInv, TypeOK, RamIsSaved, ToldAgrees, AllSaved, Shown, Sound, SoundEntries
  <2> QED
    BY <2>1, <2>2
<1>3. ASSUME NEW keys \in SUBSET Keys, ResetConfigurations(keys) PROVE IInv'
  BY <1>3, ClearedSound, SaveKeeps DEF ResetConfigurations
<1>4. ASSUME NEW keys \in SUBSET Keys, RejectReset(keys) PROVE IInv'
  <2>1. CASE keys \cap Public # {}
    BY <1>4, <2>1, ClearedSound, LoadAllKeeps DEF RejectReset, about
  <2>2. CASE keys \cap Public = {}
    <3>1. UNCHANGED vars
      BY <1>4, <2>2 DEF RejectReset, vars
    <3> QED
      BY <3>1 DEF vars, about, IInv, TypeOK, RamIsSaved, ToldAgrees, AllSaved, Shown, Sound, SoundEntries
  <2> QED
    BY <2>1, <2>2
<1>5. ASSUME NEW realm \in Texts \cup {Empty}, NEW passcode \in Texts, SetPasscode(realm, passcode)
      PROVE  IInv'
  <2>1. Sound([ram EXCEPT !["RealmName"] = realm, !["Passcode"] = passcode])
    BY DEF IInv, Sound, Values, Fields
  <2> QED
    BY <1>5, <2>1, SaveKeeps DEF SetPasscode
<1>6. ASSUME FactoryReset PROVE IInv'
  <2> DEFINE empty == [f \in Fields |-> Empty]
  <2>1. "DeviceName" \in Fields /\ "DefaultLanguage" \in Fields
    BY DEF Fields
  <2>2. empty \in [Fields -> Values] /\ empty["DefaultLanguage"] = Empty
    BY <2>1 DEF Values
  <2>3. Save(InitMandatoryPropertiesInRAM(empty))
    BY <1>6 DEF FactoryReset
  <2> HIDE DEF empty
  <2>4. Sound(InitMandatoryPropertiesInRAM(empty))
    BY <2>1, <2>2, InitMandatoryType, Distinct DEF Sound
  <2> QED
    BY <2>3, <2>4, SaveKeeps
<1>7. ASSUME Restart PROVE IInv'
  BY <1>7 DEF Restart, IInv, TypeOK, RamIsSaved, ToldAgrees, Sound, SoundEntries
<1>8. ASSUME Announce PROVE IInv'
  <2>1. Shown(ram) \in [Public -> Values]
    BY Distinct DEF Shown, IInv, TypeOK, Public, Fields
  <2>2. /\ announce' = FALSE /\ UNCHANGED <<ram, nv>>
        /\ \/ told' = Shown(ram) /\ failed' = FALSE
           \/ told' = told /\ failed' = TRUE
    BY <1>8 DEF Announce
  <2>3. TypeOK' /\ ToldAgrees'
    BY <2>1, <2>2 DEF IInv, TypeOK, ToldAgrees, Shown
  <2> QED
    BY <2>2, <2>3 DEF IInv, RamIsSaved, Sound, SoundEntries
<1>9. ASSUME Crash PROVE IInv'
  BY <1>9, BootKeeps DEF Crash, IInv, TypeOK, SoundEntries
<1>10. ASSUME UNCHANGED vars PROVE IInv'
  BY <1>10 DEF vars, about, IInv, TypeOK, RamIsSaved, ToldAgrees, AllSaved, Shown, Sound, SoundEntries
<1> QED
  BY <1>1, <1>2, <1>3, <1>4, <1>5, <1>6, <1>7, <1>8, <1>9, <1>10 DEF Next

\* The inductive invariant holds always.
LEMMA InductiveInvariant == Spec => []IInv
BY InitIInv, NextIInv, PTL DEF Spec

\* Memory holds a value for every field and NVRAM an entry or none, whatever a
\* request or a failed save leaves behind.
THEOREM TypeOKHolds == Spec => []TypeOK
<1>1. IInv => TypeOK
  BY DEF IInv
<1> QED
  BY <1>1, InductiveInvariant, PTL

\* Whatever requests were refused halfway, saves found no room or were cut off,
\* memory and NVRAM agree on every field that has an entry (PropertyStore.c,
\* ConfigService.c), for any values and faults.
THEOREM RamIsSavedHolds == Spec => []RamIsSaved
<1>1. IInv => RamIsSaved
  BY DEF IInv
<1> QED
  BY <1>1, InductiveInvariant, PTL

\* The values that About must have are there unless an entry was torn
\* (AboutPropGetter, AJSVC_PropertyStore_ReadAll).
THEOREM AnnounceableHolds == Spec => []Announceable
<1>1. IInv => Announceable
  BY TextAssumption DEF IInv, Sound, Announceable, Untorn, Shown, Public, Fields
<1> QED
  BY <1>1, InductiveInvariant, PTL

\* While no announcement is due and the last attempt did not fail, it told what
\* is saved (AJ_AboutSetShouldAnnounce in AJSVC_PropertyStore_SaveAll; a failed
\* attempt is not made again, aj_about.c:228).
THEOREM ToldAgreesHolds == Spec => []ToldAgrees
<1>1. IInv => ToldAgrees
  BY DEF IInv
<1> QED
  BY <1>1, InductiveInvariant, PTL

-----------------------------------------------------------------------------
(* The block: numbers, and the places of words moved to the front *)

\* A set of numbers has a least element.
LEMMA LeastOf ==
  ASSUME NEW S \in SUBSET Nat, S # {}
  PROVE  \E n \in S : \A k \in S : n <= k
<1> DEFINE R == OpToRel(<, Nat)
<1>1. IsWellFoundedOn(R, Nat)
  BY NatLessThanWellFounded
<1> HIDE DEF R
<1>2. PICK n \in S : \A k \in S : <<k, n>> \notin R
  BY <1>1, WFMin
<1>3. \A k \in S : ~ (k < n)
  BY <1>2 DEF R, OpToRel
<1> QED
  BY <1>3

\* What is counted for a place is the words up to it: none before the block, one
\* more at each word, all of them at its end.
LEMMA PlaceCounts ==
  ASSUME NEW n \in Nat, NEW words \in SUBSET (1 .. n)
  PROVE  /\ IsFiniteSet(words) /\ Cardinality(words) \in Nat
         /\ PlaceOf(words, 0) = 0 /\ PlaceOf(words, n) = Cardinality(words)
         /\ \A j \in Nat : /\ PlaceOf(words, j) \in 0 .. Cardinality(words)
                           /\ PlaceOf(words, j + 1) = PlaceOf(words, j) + IF j + 1 \in words THEN 1 ELSE 0
<1> DEFINE upTo(j) == {k \in words : k <= j}
<1>0. \A k \in words : k \in Nat /\ 1 <= k /\ k <= n
  OBVIOUS
<1>1. IsFiniteSet(1 .. n)
  BY FS_Interval
<1>2. IsFiniteSet(words) /\ Cardinality(words) \in Nat
  BY <1>1, FS_Subset, FS_CardinalityType
<1>3. ASSUME NEW j \in Nat
      PROVE  /\ IsFiniteSet(upTo(j)) /\ Cardinality(upTo(j)) \in 0 .. Cardinality(words)
             /\ Cardinality(upTo(j + 1)) = Cardinality(upTo(j)) + IF j + 1 \in words THEN 1 ELSE 0
  <2>1. upTo(j) \in SUBSET words
    OBVIOUS
  <2>2. IsFiniteSet(upTo(j)) /\ Cardinality(upTo(j)) \in Nat /\ Cardinality(upTo(j)) <= Cardinality(words)
    BY <1>2, <2>1, FS_Subset, FS_CardinalityType
  <2>3. CASE j + 1 \in words
    <3>1. upTo(j + 1) = upTo(j) \cup {j + 1} /\ j + 1 \notin upTo(j)
      <4>1. \A k \in words : k <= j + 1 <=> (k <= j \/ k = j + 1)
        BY <1>0
      <4>2. ~(j + 1 <= j)
        OBVIOUS
      <4> QED BY <2>3, <4>1, <4>2, Zenon
    <3> HIDE DEF upTo
    <3> QED BY <2>2, <2>3, <3>1, FS_AddElement
  <2>4. CASE j + 1 \notin words
    <3>1. upTo(j + 1) = upTo(j)
      <4>1. \A k \in words : k <= j + 1 <=> k <= j
        BY <1>0, <2>4
      <4> QED BY <4>1
    <3> HIDE DEF upTo
    <3> QED BY <2>2, <2>4, <3>1
  <2> HIDE DEF upTo
  <2> QED BY <1>2, <2>2, <2>3, <2>4
<1>4. upTo(0) = {} /\ upTo(n) = words
  <2>1. \A k \in words : ~(k <= 0) /\ k <= n
    BY <1>0
  <2> QED BY <2>1, Zenon
<1>5. \A j : PlaceOf(words, j) = Cardinality(upTo(j))
  BY DEF PlaceOf
<1> HIDE DEF upTo
<1> QED
  BY <1>2, <1>3, <1>4, <1>5, FS_EmptySet

\* The order of the words is kept.
LEMMA PlaceOrder ==
  ASSUME NEW n \in Nat, NEW words \in SUBSET (1 .. n), NEW i \in Nat, NEW j \in Nat, i < j
  PROVE  /\ PlaceOf(words, i) <= PlaceOf(words, j)
         /\ j \in words => PlaceOf(words, i) < PlaceOf(words, j)
<1>1. ASSUME NEW k \in Nat, i <= k PROVE PlaceOf(words, i) <= PlaceOf(words, k)
  <2>1. IsFiniteSet({x \in words : x <= k})
    BY PlaceCounts, FS_Subset
  <2>2. {x \in words : x <= i} \in SUBSET {x \in words : x <= k}
    <3>1. \A x \in words : x \in Nat
      OBVIOUS
    <3>2. \A x \in words : x <= i => x <= k
      BY <1>1, <3>1
    <3> QED BY <3>2
  <2> QED BY <2>1, <2>2, FS_Subset DEF PlaceOf
<1>2. j - 1 \in Nat /\ i <= j - 1 /\ (j - 1) + 1 = j
  OBVIOUS
<1>3. PlaceOf(words, j) = PlaceOf(words, j - 1) + IF j \in words THEN 1 ELSE 0
  <2> DEFINE before == j - 1
  <2>1. before \in Nat /\ before + 1 = j
    BY <1>2
  <2> HIDE DEF before
  <2>2. PlaceOf(words, before + 1) = PlaceOf(words, before) + IF before + 1 \in words THEN 1 ELSE 0
    BY <2>1, PlaceCounts
  <2>3. PlaceOf(words, j) = PlaceOf(words, before) + IF j \in words THEN 1 ELSE 0
    BY <2>1, <2>2
  <2> QED BY <2>3 DEF before
<1>4. PlaceOf(words, i) \in Nat /\ PlaceOf(words, j - 1) \in Nat
  <2>1. \A k \in Nat : PlaceOf(words, k) \in 0 .. Cardinality(words) /\ Cardinality(words) \in Nat
    BY PlaceCounts
  <2> QED BY <1>2, <2>1
<1> QED
  BY <1>1, <1>2, <1>3, <1>4

\* Every place up to the number of the words is taken, by one word.
LEMMA PlaceTaken ==
  ASSUME NEW n \in Nat, NEW words \in SUBSET (1 .. n)
  PROVE  /\ \A i \in 1 .. Cardinality(words) : \E j \in words : PlaceOf(words, j) = i
         /\ \A j \in words : /\ PlaceOf(words, j) \in 1 .. Cardinality(words)
                             /\ WordAt(words, PlaceOf(words, j)) = j
<1>1. ASSUME NEW i \in 1 .. Cardinality(words) PROVE \E j \in words : PlaceOf(words, j) = i
  <2> DEFINE S == {j \in Nat : PlaceOf(words, j) >= i}
  <2>1. n \in S
    BY PlaceCounts
  <2> HIDE DEF S
  <2>2. PICK j \in S : \A k \in S : j <= k
    BY <2>1, LeastOf DEF S
  <2>3. j \in Nat /\ j # 0 /\ PlaceOf(words, j) >= i
    BY <2>2, PlaceCounts DEF S
  <2>4. j - 1 \in Nat /\ j - 1 \notin S
    BY <2>2, <2>3 DEF S
  <2>5. PlaceOf(words, j) = PlaceOf(words, j - 1) + IF j \in words THEN 1 ELSE 0
    <3>1. (j - 1) + 1 = j
      BY <2>3
    <3> QED BY <2>4, <3>1, PlaceCounts
  <2>6. PlaceOf(words, j - 1) \in Nat /\ ~(PlaceOf(words, j - 1) >= i)
    BY <2>4, PlaceCounts DEF S
  <2> QED BY <2>3, <2>5, <2>6
<1>2. ASSUME NEW j \in words
      PROVE  /\ PlaceOf(words, j) \in 1 .. Cardinality(words)
             /\ WordAt(words, PlaceOf(words, j)) = j
  <2>1. j \in Nat /\ 0 < j
    OBVIOUS
  <2>2. PlaceOf(words, 0) < PlaceOf(words, j)
    BY <2>1, PlaceOrder
  <2>3. PlaceOf(words, j) \in 0 .. Cardinality(words) /\ PlaceOf(words, 0) = 0 /\ Cardinality(words) \in Nat
    BY <2>1, PlaceCounts
  <2>4. ASSUME NEW k \in words, PlaceOf(words, k) = PlaceOf(words, j) PROVE k = j
    <3>1. k \in Nat
      OBVIOUS
    <3>2. k < j => PlaceOf(words, k) < PlaceOf(words, j)
      BY <2>1, <3>1, PlaceOrder
    <3>3. j < k => PlaceOf(words, j) < PlaceOf(words, k)
      BY <2>1, <3>1, PlaceOrder
    <3> QED BY <2>1, <2>3, <2>4, <3>1, <3>2, <3>3
  <2>5. WordAt(words, PlaceOf(words, j)) = j
    BY <2>4 DEF WordAt
  <2> QED BY <2>2, <2>3, <2>5
<1> QED
  BY <1>1, <1>2

\* The words of an entry stay together.
LEMMA PlaceTogether ==
  ASSUME NEW n \in Nat, NEW words \in SUBSET (1 .. n), NEW p \in Nat, NEW c \in Nat,
         p .. p + c \subseteq words, NEW k \in 0 .. c
  PROVE  PlaceOf(words, p + k) = PlaceOf(words, p) + k
<1> DEFINE S == {x \in 0 .. c : PlaceOf(words, p + x) # PlaceOf(words, p) + x}
<1> SUFFICES ASSUME S # {} PROVE FALSE
  OBVIOUS
<1>1. S \in SUBSET Nat
  OBVIOUS
<1>2. PICK x \in S : \A y \in S : x <= y
  <2> HIDE DEF S
  <2> QED BY <1>1, LeastOf
<1>3. PlaceOf(words, p) \in Nat
  <2>1. PlaceOf(words, p) \in 0 .. Cardinality(words) /\ Cardinality(words) \in Nat
    BY PlaceCounts
  <2> QED BY <2>1
<1>4. x # 0 /\ x \in 0 .. c
  BY <1>3
<1>5. x - 1 \in 0 .. c /\ x - 1 \notin S
  BY <1>2, <1>4
<1>6. PlaceOf(words, p + (x - 1)) = PlaceOf(words, p) + (x - 1)
  BY <1>5
<1>7. p + (x - 1) \in Nat /\ (p + (x - 1)) + 1 = p + x /\ p + x \in words
  BY <1>4, <1>5
<1>8. PlaceOf(words, p + x) = PlaceOf(words, p + (x - 1)) + 1
  BY <1>7, PlaceCounts
<1> QED
  BY <1>2, <1>3, <1>4, <1>6, <1>8
-----------------------------------------------------------------------------
(* The walk *)

\* The block m is a row of entries, with their headers at H, and free from e on.
Tiled(m, H, e) ==
  /\ m \in [Block -> Half \X Half]
  /\ e \in 1 .. NvramSize + 1 /\ H \subseteq 1 .. e - 1
  /\ \A p \in H : IdAt(m, p) # INVALID_DATA /\ p + CapacityAt(m, p) < e
  /\ \A i \in 1 .. e - 1 : \E p \in H : i \in p .. p + CapacityAt(m, p)
  /\ \A p, q \in H : p < q => p + CapacityAt(m, p) < q
  /\ \A i \in e .. NvramSize : m[i] = FF

\* The types of what is in a block.
LEMMA WordTypes ==
  ASSUME NEW m \in [Block -> Half \X Half], NEW p \in Block
  PROVE  /\ p \in Nat /\ p # 0 /\ IdAt(m, p) \in Nat /\ CapacityAt(m, p) \in Nat
         /\ m[p] = <<IdAt(m, p), CapacityAt(m, p)>>
         /\ IdAt(m, p) <= INVALID_DATA /\ CapacityAt(m, p) <= INVALID_DATA
BY NvramAssumption DEF Block, Half, IdAt, CapacityAt

\* Where a walk from p reads a header: where every set of places with p in it is
\* read that is closed under going from one entry to the next.
Closed(m, S) ==
  \A x \in S : IdAt(m, x) # INVALID_DATA /\ x + 1 + CapacityAt(m, x) \in Block
                 => x + 1 + CapacityAt(m, x) \in S
From(m, p) == IF p \in Block THEN {q \in Block : \A S \in SUBSET Block : p \in S /\ Closed(m, S) => q \in S}
              ELSE {}

\* So the walk has a value: its recursion is that of such sets.
LEMMA FromWalks ==
  ASSUME NEW m \in [Block -> Half \X Half], NEW p \in Nat
  PROVE  From(m, p) = IF p \notin Block THEN {}
                        ELSE {p} \cup IF IdAt(m, p) = INVALID_DATA THEN {} ELSE From(m, p + 1 + CapacityAt(m, p))
<1>1. CASE p \notin Block
  BY <1>1 DEF From
<1>2. CASE p \in Block /\ IdAt(m, p) = INVALID_DATA
  <2>1. {p} \in SUBSET Block /\ Closed(m, {p})
    BY <1>2 DEF Closed
  <2>2. From(m, p) = {p}
    BY <1>2, <2>1 DEF From
  <2> QED BY <1>2, <2>2
<1>3. CASE p \in Block /\ IdAt(m, p) # INVALID_DATA
  <2> DEFINE n == p + 1 + CapacityAt(m, p)
  <2>1. ASSUME NEW q \in From(m, p), q # p PROVE q \in From(m, n)
    <3>1. n \in Block
      <4>1. SUFFICES ASSUME n \notin Block PROVE FALSE
        OBVIOUS
      <4>2. {p} \in SUBSET Block /\ Closed(m, {p})
        BY <1>3, <4>1 DEF Closed
      <4> QED BY <1>3, <2>1, <4>2 DEF From
    <3>2. ASSUME NEW S \in SUBSET Block, n \in S, Closed(m, S) PROVE q \in S
      <4>1. {p} \cup S \in SUBSET Block /\ Closed(m, {p} \cup S)
        BY <1>3, <3>2 DEF Closed
      <4> QED BY <1>3, <2>1, <4>1 DEF From
    <3> HIDE DEF n
    <3> QED BY <1>3, <2>1, <3>1, <3>2 DEF From
  <2>2. p \in From(m, p)
    BY <1>3 DEF From
  <2>3. ASSUME NEW q \in From(m, n) PROVE q \in From(m, p)
    <3>1. n \in Block
      BY <2>3 DEF From
    <3>2. ASSUME NEW S \in SUBSET Block, p \in S, Closed(m, S) PROVE q \in S
      <4>1. n \in S
        BY <1>3, <3>1, <3>2 DEF Closed
      <4> HIDE DEF n
      <4> QED BY <2>3, <3>1, <3>2, <4>1 DEF From
    <3> HIDE DEF n
    <3> QED BY <1>3, <2>3, <3>1, <3>2 DEF From
  <2> HIDE DEF n
  <2>4. From(m, p) = {p} \cup From(m, n)
    BY <2>1, <2>2, <2>3
  <2> QED BY <1>3, <2>4 DEF n
<1> QED
  BY <1>1, <1>2, <1>3

\* The next entry is behind the last word of the one before.
LEMMA NextEntry ==
  ASSUME NEW m, NEW H, NEW e, Tiled(m, H, e), NEW p \in H
  PROVE  /\ p + 1 + CapacityAt(m, p) \in H \cup {e}
         /\ \A x \in H \cup {e} : p < x => p + 1 + CapacityAt(m, p) <= x
<1>1. /\ e \in Nat /\ H \subseteq Block
      /\ \A q \in H : q \in Nat /\ 1 <= q /\ q < e /\ CapacityAt(m, q) \in Nat /\ q + CapacityAt(m, q) < e
      /\ \A q, x \in H : q < x => q + CapacityAt(m, q) < x
      /\ \A i \in 1 .. e - 1 : \E q \in H : i \in q .. q + CapacityAt(m, q)
  <2>1. e \in 1 .. NvramSize + 1 /\ H \subseteq 1 .. e - 1 /\ NvramSize \in Nat
    BY NvramAssumption DEF Tiled
  <2>2. H \subseteq Block
    BY <2>1 DEF Block
  <2>3. \A q \in H : CapacityAt(m, q) \in Nat
    BY <2>2, WordTypes DEF Tiled
  <2> QED BY <2>1, <2>2, <2>3 DEF Tiled
<1> DEFINE n == p + 1 + CapacityAt(m, p)
<1>2. n \in Nat /\ 1 <= n /\ n <= e
  BY <1>1
<1>3. ASSUME n < e PROVE n \in H
  <2>1. PICK q \in H : n \in q .. q + CapacityAt(m, q)
    BY <1>1, <1>2, <1>3
  <2>2. /\ q \in Nat /\ CapacityAt(m, q) \in Nat /\ p \in Nat /\ CapacityAt(m, p) \in Nat
        /\ q <= n /\ n <= q + CapacityAt(m, q)
    BY <1>1, <1>2, <2>1
  <2>3. ~(q < p)
    <3>1. q < p => q + CapacityAt(m, q) < p
      BY <1>1
    <3> QED BY <2>2, <3>1
  <2>4. ~(q = p)
    <3>1. p + CapacityAt(m, p) < n
      BY <2>2
    <3> HIDE DEF n
    <3> QED BY <1>2, <2>2, <3>1
  <2>5. p < q
    BY <2>2, <2>3, <2>4
  <2>6. p + CapacityAt(m, p) < q
    BY <1>1, <2>5
  <2>7. q = n
    BY <2>2, <2>6
  <2> QED BY <2>7
<1>4. n \in H \cup {e}
  <2> HIDE DEF n
  <2> QED BY <1>1, <1>2, <1>3
<1>5. ASSUME NEW x \in H \cup {e}, p < x PROVE n <= x
  <2>1. CASE x = e
    BY <1>2, <2>1
  <2>2. CASE x \in H
    <3>1. p + CapacityAt(m, p) < x /\ x \in Nat /\ p \in Nat /\ CapacityAt(m, p) \in Nat
      BY <1>1, <1>5, <2>2
    <3> QED BY <3>1
  <2> QED BY <2>1, <2>2
<1> QED
  BY <1>4, <1>5

\* A walk over a row of entries reads their headers, and the free word behind them
\* if there is one.
LEMMA Walked ==
  ASSUME NEW m, NEW H, NEW e, Tiled(m, H, e)
  PROVE  /\ Reached(m) = H \cup ({e} \cap Block)
         /\ Headers(m) = H
         /\ e \in Block => IdAt(m, e) = INVALID_DATA
<1> DEFINE walks(f) == f = [p \in Nat |-> IF p \notin Block THEN {}
                                            ELSE {p} \cup IF IdAt(m, p) = INVALID_DATA THEN {} ELSE f[p + 1 + CapacityAt(m, p)]]
           walk == CHOOSE f : walks(f)
           from == [p \in Nat |-> From(m, p)]
<1>0. /\ m \in [Block -> Half \X Half] /\ NvramSize \in Nat /\ e \in Nat /\ 1 <= e /\ e <= NvramSize + 1
      /\ \A p \in H : p \in Block /\ p \in Nat /\ p < e /\ IdAt(m, p) # INVALID_DATA /\ CapacityAt(m, p) \in Nat
  <2>1. NvramSize \in Nat /\ e \in 1 .. NvramSize + 1 /\ H \subseteq 1 .. e - 1 /\ m \in [Block -> Half \X Half]
    BY NvramAssumption DEF Tiled
  <2>2. H \subseteq Block
    BY <2>1 DEF Block
  <2> QED BY <2>1, <2>2, WordTypes DEF Tiled
<1>1. walks(from)
  <2>1. \A p \in Nat : p \in Block => p + 1 + CapacityAt(m, p) \in Nat
    BY <1>0, WordTypes
  <2>2. ASSUME NEW p \in Nat
        PROVE  from[p] = IF p \notin Block THEN {}
                           ELSE {p} \cup IF IdAt(m, p) = INVALID_DATA THEN {} ELSE from[p + 1 + CapacityAt(m, p)]
    <3>1. CASE p \notin Block
      BY <1>0, <3>1, FromWalks
    <3>2. CASE p \in Block
      <4>1. from[p + 1 + CapacityAt(m, p)] = From(m, p + 1 + CapacityAt(m, p))
        BY <2>1, <3>2
      <4> QED BY <1>0, <3>2, <4>1, FromWalks
    <3> QED BY <3>1, <3>2
  <2>3. from = [p \in Nat |-> from[p]]
    OBVIOUS
  <2> HIDE DEF from
  <2> QED BY <2>2, <2>3
<1>2. walks(walk)
  BY <1>1
<1>3. Reached(m) = walk[1]
  BY DEF Reached
<1>4. ASSUME NEW p \in Nat
      PROVE  walk[p] = IF p \notin Block THEN {}
                         ELSE {p} \cup IF IdAt(m, p) = INVALID_DATA THEN {} ELSE walk[p + 1 + CapacityAt(m, p)]
  <2> HIDE DEF walk
  <2> QED BY <1>2
<1> HIDE DEF walk, walks, from
<1> DEFINE rest(h) == {x \in H \cup ({e} \cap Block) : h <= x}
           Bad == {k \in Nat : \E h \in H \cup {e} : k = e - h /\ walk[h] # rest(h)}
<1>5. e \in Block => IdAt(m, e) = INVALID_DATA
  BY <1>0 DEF Tiled, Block, FF, IdAt
<1>6. Bad = {}
  <2> SUFFICES ASSUME Bad # {} PROVE FALSE
    OBVIOUS
  <2>1. PICK k \in Bad : \A j \in Bad : k <= j
    <3>1. Bad \in SUBSET Nat
      OBVIOUS
    <3> HIDE DEF Bad
    <3> QED BY <3>1, LeastOf
  <2>2. PICK h \in H \cup {e} : k = e - h /\ walk[h] # rest(h)
    BY <2>1
  <2>3. CASE h = e
    <3>1. rest(e) = {e} \cap Block
      BY <1>0
    <3>2. walk[e] = {e} \cap Block
      <4>1. walk[e] = IF e \notin Block THEN {}
                        ELSE {e} \cup IF IdAt(m, e) = INVALID_DATA THEN {} ELSE walk[e + 1 + CapacityAt(m, e)]
        BY <1>0, <1>4
      <4>2. CASE e \in Block
        BY <1>5, <4>1, <4>2
      <4>3. CASE e \notin Block
        BY <4>1, <4>3
      <4> QED BY <4>2, <4>3
    <3> QED BY <2>2, <2>3, <3>1, <3>2
  <2>4. CASE h \in H
    <3> DEFINE n == h + 1 + CapacityAt(m, h)
    <3>1. n \in H \cup {e} /\ \A x \in H \cup {e} : h < x => n <= x
      BY <2>4, NextEntry
    <3>2. n \in Nat /\ h < n /\ n <= e
      BY <1>0, <2>4, <3>1
    <3>3. walk[n] = rest(n)
      <4>1. e - n \in Nat /\ e - n < k
        BY <1>0, <2>2, <2>4, <3>2
      <4>2. e - n \notin Bad
        BY <2>1, <4>1
      <4> QED BY <3>1, <4>1, <4>2
    <3>4. walk[h] = {h} \cup walk[n]
      BY <1>0, <1>4, <2>4
    <3> HIDE DEF n
    <3>5. rest(h) = {h} \cup rest(n)
      <4>1. \A x \in H \cup ({e} \cap Block) : h <= x <=> (x = h \/ n <= x)
        BY <1>0, <2>4, <3>1, <3>2
      <4> QED BY <2>4, <4>1, Zenon
    <3> QED BY <2>2, <3>3, <3>4, <3>5
  <2> QED BY <2>2, <2>3, <2>4
<1>7. 1 \in H \cup {e}
  <2>1. CASE e = 1
    BY <2>1
  <2>2. CASE e # 1
    <3>1. 1 \in 1 .. e - 1
      BY <1>0, <2>2
    <3>2. PICK p \in H : 1 \in p .. p + CapacityAt(m, p)
      BY <3>1 DEF Tiled
    <3>3. 1 <= p /\ p <= 1 /\ p \in Nat
      BY <1>0, <3>2 DEF Tiled
    <3> QED BY <3>2, <3>3
  <2> QED BY <2>1, <2>2
<1>8. walk[1] = rest(1)
  <2>1. e - 1 \in Nat
    BY <1>0
  <2> QED BY <1>6, <1>7, <2>1
<1>9. rest(1) = H \cup ({e} \cap Block)
  <2>1. \A x \in H \cup ({e} \cap Block) : 1 <= x
    BY <1>0 DEF Tiled
  <2> QED BY <2>1, Zenon
<1>10. Reached(m) = H \cup ({e} \cap Block)
  BY <1>3, <1>8, <1>9
<1>11. Headers(m) = H
  BY <1>0, <1>5, <1>10 DEF Headers
<1> QED
  BY <1>5, <1>10, <1>11

-----------------------------------------------------------------------------
(* Entries and the room they leave *)

\* No id is there twice.
Unique(m, H) == \A p, q \in H : IdAt(m, p) # INVALID_ID /\ IdAt(m, p) = IdAt(m, q) => p = q

Kept(m, H) == {p \in H : IdAt(m, p) # INVALID_ID}

\* What a row of entries is made of.
LEMMA TiledTypes ==
  ASSUME NEW m, NEW H, NEW e, Tiled(m, H, e)
  PROVE  /\ NvramSize \in Nat /\ e \in Nat /\ 1 <= e /\ e <= NvramSize + 1
         /\ m \in [Block -> Half \X Half] /\ Live(m) = Kept(m, H) /\ Headers(m) = H
         /\ \A p \in H : /\ p \in Block /\ p \in Nat /\ 1 <= p /\ p < e
                         /\ CapacityAt(m, p) \in Nat /\ p + CapacityAt(m, p) < e
                         /\ IdAt(m, p) \in Nat /\ IdAt(m, p) # INVALID_DATA
<1>1. NvramSize \in Nat /\ e \in 1 .. NvramSize + 1 /\ H \subseteq 1 .. e - 1 /\ m \in [Block -> Half \X Half]
  BY NvramAssumption DEF Tiled
<1>2. H \subseteq Block
  BY <1>1 DEF Block
<1>3. Headers(m) = H /\ Live(m) = Kept(m, H)
  BY Walked DEF Live, Kept
<1> QED
  BY <1>1, <1>2, <1>3, WordTypes DEF Tiled

\* There is room for an entry exactly when it ends in the block.
LEMMA FitsIs ==
  ASSUME NEW m, NEW H, NEW e, Tiled(m, H, e), NEW c \in Nat
  PROVE  /\ Fits(m, c) <=> e + c <= NvramSize
         /\ Fits(m, c) => e \in Block /\ AJ_FindNVEntry(m, INVALID_DATA) = e
<1>1. Reached(m) = H \cup ({e} \cap Block) /\ (e \in Block => IdAt(m, e) = INVALID_DATA)
  BY Walked
<1>2. {p \in Reached(m) : IdAt(m, p) = INVALID_DATA} = {e} \cap Block
  BY <1>1, TiledTypes
<1>3. CASE e \in Block
  <2>1. AJ_FindNVEntry(m, INVALID_DATA) = Min({e})
    BY <1>2, <1>3 DEF AJ_FindNVEntry
  <2>2. Min({e}) = e
    BY TiledTypes DEF Min
  <2> QED BY <1>3, <2>1, <2>2, TiledTypes DEF Fits, Null
<1>4. CASE e \notin Block
  <2>1. AJ_FindNVEntry(m, INVALID_DATA) = Null
    BY <1>2, <1>4 DEF AJ_FindNVEntry
  <2>2. ~ Fits(m, c) /\ e = NvramSize + 1
    BY <1>4, <2>1, TiledTypes DEF Fits, Block
  <2> QED BY <2>2, TiledTypes
<1> QED
  BY <1>3, <1>4

\* An id is found where its entry is.
LEMMA FindIs ==
  ASSUME NEW m, NEW H, NEW e, Tiled(m, H, e), Unique(m, H), NEW id, id # INVALID_DATA, id # INVALID_ID
  PROVE  /\ \A p \in H : IdAt(m, p) = id => AJ_FindNVEntry(m, id) = p
         /\ (\A p \in H : IdAt(m, p) # id) => AJ_FindNVEntry(m, id) = Null
<1>1. Reached(m) = H \cup ({e} \cap Block) /\ (e \in Block => IdAt(m, e) = INVALID_DATA)
  BY Walked
<1>2. {p \in Reached(m) : IdAt(m, p) = id} = {p \in H : IdAt(m, p) = id}
  BY <1>1
<1>3. ASSUME NEW p \in H, IdAt(m, p) = id PROVE AJ_FindNVEntry(m, id) = p
  <2>1. {q \in H : IdAt(m, q) = id} = {p}
    BY <1>3 DEF Unique
  <2>2. AJ_FindNVEntry(m, id) = Min({p})
    BY <1>2, <2>1 DEF AJ_FindNVEntry
  <2>3. Min({p}) = p
    BY TiledTypes DEF Min
  <2> QED BY <2>2, <2>3
<1>4. ASSUME \A p \in H : IdAt(m, p) # id PROVE AJ_FindNVEntry(m, id) = Null
  BY <1>2, <1>4 DEF AJ_FindNVEntry
<1> QED
  BY <1>3, <1>4

\* What the entries of a block hold.
StoredIn(m) ==
  [id \in {IdAt(m, p) : p \in Live(m)} |->
     LET p == AJ_FindNVEntry(m, id) IN SubSeq(m, p + 1, p + CapacityAt(m, p))]

\* Words of a block, as the contents of an entry.
LEMMA ContentsAre ==
  ASSUME NEW m \in [Block -> Half \X Half], NEW p \in Block, NEW c \in Nat, p + c <= NvramSize
  PROVE  SubSeq(m, p + 1, p + c) = [k \in 1 .. c |-> m[p + k]]
<1>1. p \in Nat /\ NvramSize \in Nat
  BY NvramAssumption DEF Block
<1>2. m \in Seq(Half \X Half) /\ Len(m) = NvramSize
  BY <1>1 DEF Block
<1>3. SubSeq(m, p + 1, p + c) = [k \in 1 .. (p + c - (p + 1) + 1) |-> m[k + (p + 1) - 1]]
  BY <1>1, <1>2
<1>4. p + c - (p + 1) + 1 = c /\ \A k \in 1 .. c : k + (p + 1) - 1 = p + k
  BY <1>1
<1> QED
  BY <1>3, <1>4

\* es has each entry that is not deleted under its id.
Holds(es, m, H) ==
  /\ es = [id \in DOMAIN es |-> es[id]]
  /\ DOMAIN es = {IdAt(m, p) : p \in Kept(m, H)}
  /\ \A p \in Kept(m, H) : es[IdAt(m, p)] = [k \in 1 .. CapacityAt(m, p) |-> m[p + k]]

LEMMA StoredIs ==
  ASSUME NEW m, NEW H, NEW e, Tiled(m, H, e), Unique(m, H)
  PROVE  Holds(StoredIn(m), m, H)
<1>1. Live(m) = Kept(m, H)
  BY TiledTypes
<1>2. ASSUME NEW p \in Kept(m, H)
      PROVE  StoredIn(m)[IdAt(m, p)] = [k \in 1 .. CapacityAt(m, p) |-> m[p + k]]
  <2>1. p \in H /\ IdAt(m, p) # INVALID_ID /\ IdAt(m, p) # INVALID_DATA
    BY TiledTypes DEF Kept
  <2>2. AJ_FindNVEntry(m, IdAt(m, p)) = p
    BY <2>1, FindIs
  <2>3. StoredIn(m)[IdAt(m, p)] = SubSeq(m, p + 1, p + CapacityAt(m, p))
    BY <1>1, <2>2 DEF StoredIn
  <2>4. p \in Block /\ CapacityAt(m, p) \in Nat /\ p + CapacityAt(m, p) <= NvramSize
    BY <2>1, TiledTypes
  <2> QED BY <2>3, <2>4, ContentsAre, TiledTypes
<1> QED
  BY <1>1, <1>2 DEF StoredIn, Holds

\* One function does.
LEMMA SameStored ==
  ASSUME NEW m, NEW H, NEW e, Tiled(m, H, e), Unique(m, H), NEW es, Holds(es, m, H)
  PROVE  StoredIn(m) = es
<1> DEFINE st == StoredIn(m)
<1>1. Holds(st, m, H)
  BY StoredIs
<1> HIDE DEF st
<1>2. /\ DOMAIN st = DOMAIN es
      /\ \A p \in Kept(m, H) : st[IdAt(m, p)] = es[IdAt(m, p)]
      /\ \A id \in DOMAIN es : \E p \in Kept(m, H) : id = IdAt(m, p)
  BY <1>1 DEF Holds
<1>3. \A id \in DOMAIN es : st[id] = es[id]
  BY <1>2
<1>4. st = [id \in DOMAIN st |-> st[id]] /\ es = [id \in DOMAIN es |-> es[id]]
  BY <1>1 DEF Holds
<1>5. st = es
  BY <1>2, <1>3, <1>4
<1> QED
  BY <1>5 DEF st

-----------------------------------------------------------------------------
(* What a call does to the entries *)

\* An entry that is deleted, and its words written over or not: the others stay.
LEMMA DeleteKeeps ==
  ASSUME NEW m, NEW H, NEW e, Tiled(m, H, e), Unique(m, H), NEW p \in Kept(m, H),
         NEW n \in [Block -> Half \X Half], n[p] = <<INVALID_ID, CapacityAt(m, p)>>,
         \A i \in Block : i \notin p .. p + CapacityAt(m, p) => n[i] = m[i]
  PROVE  /\ Tiled(n, H, e) /\ Unique(n, H) /\ Kept(n, H) = Kept(m, H) \ {p}
         /\ StoredIn(n) = Store!Without(StoredIn(m), IdAt(m, p))
<1>0. /\ NvramSize \in Nat /\ e \in Nat /\ 1 <= e /\ e <= NvramSize + 1
      /\ \A q \in H : /\ q \in Block /\ q \in Nat /\ 1 <= q /\ q < e
                      /\ CapacityAt(m, q) \in Nat /\ q + CapacityAt(m, q) < e
                      /\ IdAt(m, q) \in Nat /\ IdAt(m, q) # INVALID_DATA
      /\ p \in H /\ INVALID_ID # INVALID_DATA
  <2>1. INVALID_ID # INVALID_DATA
    BY NvramAssumption DEF INVALID_ID
  <2> QED BY <2>1, TiledTypes DEF Kept
<1>1. \A q \in H : q < p => q + CapacityAt(m, q) < p
  BY <1>0 DEF Tiled
<1>2. \A q \in H : p < q => p + CapacityAt(m, p) < q
  BY <1>0 DEF Tiled
<1>3. ASSUME NEW q \in H, q # p, NEW k \in 0 .. CapacityAt(m, q) PROVE n[q + k] = m[q + k]
  <2>1. q + k \in Block
    BY <1>0 DEF Block
  <2>2. q + k \notin p .. p + CapacityAt(m, p)
    BY <1>0, <1>1, <1>2, <1>3
  <2> QED BY <2>1, <2>2
<1>4. ASSUME NEW q \in H, q # p PROVE n[q] = m[q]
  <2>1. 0 \in 0 .. CapacityAt(m, q) /\ q + 0 = q
    BY <1>0
  <2>2. n[q + 0] = m[q + 0]
    BY <1>3, <1>4, <2>1
  <2> QED BY <2>1, <2>2
<1>5. \A q \in H : CapacityAt(n, q) = CapacityAt(m, q) /\ IdAt(n, q) = IF q = p THEN INVALID_ID ELSE IdAt(m, q)
  BY <1>4 DEF CapacityAt, IdAt
<1>6. \A i \in e .. NvramSize : n[i] = FF
  <2> SUFFICES ASSUME NEW i \in e .. NvramSize PROVE n[i] = FF
    OBVIOUS
  <2>1. i \in Block /\ i \notin p .. p + CapacityAt(m, p)
    BY <1>0 DEF Block
  <2>2. m[i] = FF
    BY DEF Tiled
  <2> QED BY <2>1, <2>2
<1>7. Tiled(n, H, e)
  BY <1>0, <1>5, <1>6 DEF Tiled
<1>8. Unique(n, H) /\ Kept(n, H) = Kept(m, H) \ {p}
  BY <1>5 DEF Unique, Kept
<1> DEFINE es == Store!Without(StoredIn(m), IdAt(m, p))
<1>9. /\ DOMAIN StoredIn(m) = {IdAt(m, q) : q \in Kept(m, H)}
      /\ \A q \in Kept(m, H) : StoredIn(m)[IdAt(m, q)] = [k \in 1 .. CapacityAt(m, q) |-> m[q + k]]
  <2>1. Holds(StoredIn(m), m, H)
    BY StoredIs
  <2> HIDE DEF StoredIn
  <2> QED BY <2>1 DEF Holds
<1>10. /\ DOMAIN es = DOMAIN StoredIn(m) \ {IdAt(m, p)}
       /\ \A id \in DOMAIN es : es[id] = StoredIn(m)[id]
       /\ es = [id \in DOMAIN es |-> es[id]]
  BY DEF Store!Without
<1> HIDE DEF es, StoredIn
<1>11. {IdAt(n, q) : q \in Kept(n, H)} = DOMAIN es
  <2>1. \A q \in Kept(m, H) : q = p <=> IdAt(m, q) = IdAt(m, p)
    BY DEF Unique, Kept
  <2>2. \A q \in Kept(n, H) : q \in Kept(m, H) /\ q # p /\ IdAt(n, q) = IdAt(m, q)
    BY <1>5, <1>8 DEF Kept
  <2> QED BY <1>8, <1>9, <1>10, <2>1, <2>2
<1>12. ASSUME NEW q \in Kept(n, H)
       PROVE  es[IdAt(n, q)] = [k \in 1 .. CapacityAt(n, q) |-> n[q + k]]
  <2>1. q \in Kept(m, H) /\ q \in H /\ q # p /\ IdAt(n, q) = IdAt(m, q) /\ CapacityAt(n, q) = CapacityAt(m, q)
    BY <1>5, <1>8 DEF Kept
  <2>2. es[IdAt(n, q)] = StoredIn(m)[IdAt(m, q)]
    BY <1>10, <1>11, <2>1
  <2>3. \A k \in 1 .. CapacityAt(m, q) : k \in 0 .. CapacityAt(m, q)
    BY <1>0, <2>1
  <2>4. \A k \in 1 .. CapacityAt(m, q) : n[q + k] = m[q + k]
    BY <1>3, <2>1, <2>3
  <2> QED BY <1>9, <2>1, <2>2, <2>4
<1>13. StoredIn(n) = es
  <2>1. Holds(es, n, H)
    BY <1>10, <1>11, <1>12 DEF Holds
  <2> QED BY <1>7, <1>8, <2>1, SameStored
<1> QED
  BY <1>7, <1>8, <1>13 DEF es

\* n is m with the entry of an id behind the others, which holds `new'.
Adds(n, m, H, e, id, new) ==
  LET c == CapacityAt(n, e)
  IN /\ n \in [Block -> Half \X Half] /\ e \in Block /\ IdAt(n, e) = id
     /\ id # INVALID_ID /\ id # INVALID_DATA /\ e + c <= NvramSize
     /\ \A i \in Block : i \notin e .. e + c => n[i] = m[i]
     /\ new = [k \in 1 .. c |-> n[e + k]]
     /\ \A p \in H : IdAt(m, p) # id

\* So the others stay.
Added(n, m, H, e, id, new) ==
  /\ Tiled(n, H \cup {e}, e + 1 + CapacityAt(n, e)) /\ Unique(n, H \cup {e})
  /\ Kept(n, H \cup {e}) = Kept(m, H) \cup {e}
  /\ StoredIn(n) = Store!With(StoredIn(m), id, new)

LEMMA CreateKeeps ==
  ASSUME NEW m, NEW H, NEW e, Tiled(m, H, e), Unique(m, H),
         NEW id, NEW n, NEW new, Adds(n, m, H, e, id, new)
  PROVE  Added(n, m, H, e, id, new)
<1> DEFINE c == CapacityAt(n, e)
<1>0. /\ NvramSize \in Nat /\ e \in Nat /\ 1 <= e /\ e <= NvramSize + 1 /\ e \in Block
      /\ \A q \in H : /\ q \in Block /\ q \in Nat /\ 1 <= q /\ q < e
                      /\ CapacityAt(m, q) \in Nat /\ q + CapacityAt(m, q) < e
                      /\ IdAt(m, q) \in Nat /\ IdAt(m, q) # INVALID_DATA
  BY TiledTypes DEF Adds
<1>a. /\ n \in [Block -> Half \X Half] /\ id # INVALID_ID /\ id # INVALID_DATA /\ e + c <= NvramSize
      /\ IdAt(n, e) = id /\ c \in Nat /\ new = [k \in 1 .. c |-> n[e + k]]
      /\ \A i \in Block : i \notin e .. e + c => n[i] = m[i]
      /\ \A p \in H : IdAt(m, p) # id
  BY WordTypes DEF Adds
<1> HIDE DEF c
<1>1. ASSUME NEW q \in H, NEW k \in 0 .. CapacityAt(m, q) PROVE n[q + k] = m[q + k]
  <2>1. q + k \in Block /\ q + k \notin e .. e + c
    BY <1>0 DEF Block
  <2> QED BY <1>a, <2>1
<1>2. ASSUME NEW q \in H PROVE n[q] = m[q]
  <2>1. 0 \in 0 .. CapacityAt(m, q) /\ q + 0 = q
    BY <1>0, <1>a
  <2>2. n[q + 0] = m[q + 0]
    BY <1>1, <2>1
  <2> QED BY <2>1, <2>2
<1>3. /\ \A q \in H : CapacityAt(n, q) = CapacityAt(m, q) /\ IdAt(n, q) = IdAt(m, q)
      /\ CapacityAt(n, e) = c /\ IdAt(n, e) = id
  <2>1. \A q \in H : CapacityAt(n, q) = CapacityAt(m, q) /\ IdAt(n, q) = IdAt(m, q)
    BY <1>2 DEF CapacityAt, IdAt
  <2> QED BY <1>a, <2>1 DEF c
<1>4. Tiled(n, H \cup {e}, e + 1 + c)
  <2> DEFINE G == H \cup {e}
             f == e + 1 + c
  <2>1. f \in 1 .. NvramSize + 1 /\ G \subseteq 1 .. f - 1
    BY <1>0, <1>a
  <2>2. \A p \in G : IdAt(n, p) # INVALID_DATA /\ p + CapacityAt(n, p) < f
    BY <1>0, <1>3, <1>a
  <2>3. ASSUME NEW i \in 1 .. f - 1 PROVE \E p \in G : i \in p .. p + CapacityAt(n, p)
    <3>1. CASE i < e
      <4>1. i \in 1 .. e - 1
        BY <1>0, <3>1
      <4>2. PICK p \in H : i \in p .. p + CapacityAt(m, p)
        BY <4>1 DEF Tiled
      <4> QED BY <1>3, <4>2
    <3>2. CASE ~(i < e)
      <4>1. i \in e .. e + CapacityAt(n, e)
        BY <1>0, <1>3, <1>a, <3>2
      <4> QED BY <4>1
    <3> QED BY <3>1, <3>2
  <2>4. \A p, q \in G : p < q => p + CapacityAt(n, p) < q
    <3>1. \A p, q \in H : p < q => p + CapacityAt(m, p) < q
      BY DEF Tiled
    <3> QED BY <1>0, <1>3, <3>1
  <2>5. ASSUME NEW i \in f .. NvramSize PROVE n[i] = FF
    <3>1. i \in Block /\ i \notin e .. e + c /\ i \in e .. NvramSize
      BY <1>0, <1>a DEF Block
    <3> QED BY <1>a, <3>1 DEF Tiled
  <2> HIDE DEF f, G
  <2>6. Tiled(n, G, f)
    BY <1>a, <2>1, <2>2, <2>3, <2>4, <2>5 DEF Tiled
  <2> QED BY <2>6 DEF f, G
<1>5. Unique(n, H \cup {e}) /\ Kept(n, H \cup {e}) = Kept(m, H) \cup {e}
  <2>1. Unique(n, H \cup {e})
    BY <1>3, <1>a DEF Unique
  <2>2. Kept(n, H \cup {e}) = Kept(m, H) \cup {e}
    BY <1>3, <1>a DEF Kept
  <2> QED BY <2>1, <2>2
<1> DEFINE es == Store!With(StoredIn(m), id, new)
<1>6. /\ DOMAIN StoredIn(m) = {IdAt(m, q) : q \in Kept(m, H)}
      /\ \A q \in Kept(m, H) : StoredIn(m)[IdAt(m, q)] = [k \in 1 .. CapacityAt(m, q) |-> m[q + k]]
  <2>1. Holds(StoredIn(m), m, H)
    BY StoredIs
  <2> HIDE DEF StoredIn
  <2> QED BY <2>1 DEF Holds
<1> HIDE DEF StoredIn
<1>7. /\ DOMAIN es = DOMAIN StoredIn(m) \cup {id}
      /\ es[id] = new
      /\ \A x \in DOMAIN StoredIn(m) : x # id => es[x] = StoredIn(m)[x]
      /\ es = [x \in DOMAIN es |-> es[x]]
  BY DEF Store!With
<1> HIDE DEF es
<1>8. {IdAt(n, q) : q \in Kept(n, H \cup {e})} = DOMAIN es
  <2>1. \A q \in Kept(m, H) : IdAt(n, q) = IdAt(m, q)
    BY <1>3, <1>a DEF Kept
  <2>2. {IdAt(n, q) : q \in Kept(m, H) \cup {e}} = {IdAt(m, q) : q \in Kept(m, H)} \cup {id}
    BY <1>3, <2>1
  <2> QED BY <1>5, <1>6, <1>7, <2>2
<1>9. ASSUME NEW q \in Kept(n, H \cup {e})
      PROVE  es[IdAt(n, q)] = [k \in 1 .. CapacityAt(n, q) |-> n[q + k]]
  <2>1. CASE q = e
    BY <1>3, <1>7, <1>a, <2>1
  <2>2. CASE q # e
    <3>1. q \in Kept(m, H) /\ q \in H /\ IdAt(n, q) = IdAt(m, q) /\ CapacityAt(n, q) = CapacityAt(m, q)
      BY <1>3, <1>5, <2>2 DEF Kept
    <3>2. es[IdAt(n, q)] = StoredIn(m)[IdAt(m, q)]
      <4>1. IdAt(m, q) \in DOMAIN StoredIn(m)
        BY <1>6, <3>1, Zenon
      <4>2. IdAt(m, q) # id
        BY <1>a, <3>1
      <4> QED BY <1>7, <3>1, <4>1, <4>2, Zenon
    <3>3. \A k \in 1 .. CapacityAt(m, q) : k \in 0 .. CapacityAt(m, q)
      BY <1>0, <3>1
    <3>4. \A k \in 1 .. CapacityAt(m, q) : n[q + k] = m[q + k]
      BY <1>1, <3>1, <3>3
    <3> QED BY <1>6, <3>1, <3>2, <3>4
  <2> QED BY <2>1, <2>2
<1>10. StoredIn(n) = es
  <2>1. Holds(es, n, H \cup {e})
    BY <1>7, <1>8, <1>9 DEF Holds
  <2> QED BY <1>4, <1>5, <2>1, SameStored
<1> QED
  BY <1>4, <1>5, <1>10 DEF Added, es, c

\* The words of the entries at some of the headers are words before the end of
\* the entries; those at all of them are all these.
LEMMA TakenIs ==
  ASSUME NEW m, NEW H, NEW e, Tiled(m, H, e), NEW S \in SUBSET H
  PROVE  /\ Taken(m, S) \in SUBSET (1 .. e - 1) /\ Taken(m, S) \in SUBSET (1 .. NvramSize)
         /\ IsFiniteSet(Taken(m, S)) /\ WordsOf(m, S) \in Nat /\ WordsOf(m, S) <= e - 1
         /\ Taken(m, H) = 1 .. e - 1 /\ WordsOf(m, H) = e - 1
<1>0. /\ NvramSize \in Nat /\ e \in Nat /\ 1 <= e /\ e <= NvramSize + 1
      /\ \A q \in H : /\ q \in Nat /\ 1 <= q /\ q < e
                      /\ CapacityAt(m, q) \in Nat /\ q + CapacityAt(m, q) < e
  BY TiledTypes
<1>1. ASSUME NEW G \in SUBSET H, NEW i \in Taken(m, G) PROVE i \in 1 .. e - 1
  <2>1. PICK p \in G : i \in p .. p + CapacityAt(m, p)
    BY DEF Taken
  <2> QED BY <1>0, <2>1
<1>2. ASSUME NEW i \in 1 .. e - 1 PROVE i \in Taken(m, H)
  <2>1. PICK p \in H : i \in p .. p + CapacityAt(m, p)
    BY DEF Tiled
  <2> QED BY <2>1 DEF Taken
<1>3. Taken(m, S) \in SUBSET (1 .. e - 1)
  BY <1>1
<1>4. Taken(m, H) = 1 .. e - 1
  BY <1>1, <1>2
<1>5. IsFiniteSet(1 .. e - 1) /\ Cardinality(1 .. e - 1) = e - 1
  BY <1>0, FS_Interval
<1>6. (1 .. e - 1) \in SUBSET (1 .. NvramSize)
  BY <1>0
<1>7. /\ IsFiniteSet(Taken(m, S)) /\ Cardinality(Taken(m, S)) \in Nat
      /\ Cardinality(Taken(m, S)) <= e - 1
  BY <1>3, <1>5, FS_Subset, FS_CardinalityType
<1> QED
  BY <1>3, <1>4, <1>5, <1>6, <1>7 DEF WordsOf

\* Compaction: the entries that are not deleted come to the front, each in one
\* piece, in their order and with their contents; all that is behind them is free.
LEMMA CompactKeeps ==
  ASSUME NEW m, NEW H, NEW e, Tiled(m, H, e), Unique(m, H)
  PROVE  \E G : /\ Tiled(Compacted(m), G, WordsOf(m, Live(m)) + 1) /\ Unique(Compacted(m), G)
                /\ Kept(Compacted(m), G) = G
                /\ StoredIn(Compacted(m)) = StoredIn(m)
                /\ \A id : (\A p \in Kept(m, H) : IdAt(m, p) # id) => \A p \in G : IdAt(Compacted(m), p) # id
<1> DEFINE K     == Kept(m, H)
           words == Taken(m, K)
           n     == Cardinality(words)
           place(j) == PlaceOf(words, j)
           new   == Compacted(m)
           G     == {place(p) : p \in K}
<1>0. /\ NvramSize \in Nat /\ e \in Nat /\ 1 <= e /\ e <= NvramSize + 1
      /\ m \in [Block -> Half \X Half] /\ Live(m) = K /\ Headers(m) = H
      /\ \A q \in H : /\ q \in Block /\ q \in Nat /\ 1 <= q /\ q < e
                      /\ CapacityAt(m, q) \in Nat /\ q + CapacityAt(m, q) < e
                      /\ IdAt(m, q) \in Nat /\ IdAt(m, q) # INVALID_DATA
      /\ K \subseteq H /\ \A q \in K : IdAt(m, q) # INVALID_ID
  BY TiledTypes DEF Kept
<1>1. /\ words \in SUBSET (1 .. NvramSize) /\ words \in SUBSET Block
      /\ n \in Nat /\ n <= e - 1 /\ n = WordsOf(m, Live(m)) /\ IsFiniteSet(words)
  <2>1. K \in SUBSET H
    BY <1>0
  <2>2. /\ Taken(m, K) \in SUBSET (1 .. NvramSize) /\ IsFiniteSet(Taken(m, K))
        /\ WordsOf(m, K) \in Nat /\ WordsOf(m, K) <= e - 1
    BY <2>1, TakenIs
  <2> QED BY <1>0, <2>2 DEF WordsOf, Block
<1>2. \A p \in K : \A k \in 0 .. CapacityAt(m, p) : p + k \in words
  <2> SUFFICES ASSUME NEW p \in K, NEW k \in 0 .. CapacityAt(m, p) PROVE p + k \in words
    OBVIOUS
  <2>1. p + k \in p .. p + CapacityAt(m, p)
    BY <1>0
  <2> QED BY <2>1 DEF Taken
<1>3. \A j \in words : \E p \in K : \E k \in 0 .. CapacityAt(m, p) : j = p + k
  <2> SUFFICES ASSUME NEW j \in words PROVE \E p \in K : \E k \in 0 .. CapacityAt(m, p) : j = p + k
    OBVIOUS
  <2>1. PICK p \in K : j \in p .. p + CapacityAt(m, p)
    BY DEF Taken
  <2>2. j - p \in 0 .. CapacityAt(m, p) /\ j = p + (j - p)
    BY <1>0, <2>1
  <2> QED BY <2>2
<1>4. /\ \A i \in 1 .. n : \E j \in words : place(j) = i
      /\ \A j \in words : place(j) \in 1 .. n /\ WordAt(words, place(j)) = j
  BY <1>0, <1>1, PlaceTaken
<1>5. \A p \in K : \A k \in 0 .. CapacityAt(m, p) : place(p + k) = place(p) + k
  <2> SUFFICES ASSUME NEW p \in K, NEW k \in 0 .. CapacityAt(m, p) PROVE place(p + k) = place(p) + k
    OBVIOUS
  <2>1. p .. p + CapacityAt(m, p) \subseteq words
    BY DEF Taken
  <2>2. p \in Nat /\ CapacityAt(m, p) \in Nat
    BY <1>0
  <2> DEFINE c == CapacityAt(m, p)
  <2> HIDE DEF words, c
  <2>3. /\ NvramSize \in Nat /\ words \in SUBSET (1 .. NvramSize) /\ p \in Nat /\ c \in Nat
        /\ p .. p + c \subseteq words /\ k \in 0 .. c
    BY <1>0, <1>1, <2>1, <2>2 DEF c
  <2> QED BY <2>3, PlaceTogether
<1>6. \A i, j \in Nat : i < j => /\ place(i) <= place(j)
                                 /\ j \in words => place(i) < place(j)
  BY <1>0, <1>1, PlaceOrder
<1>7. new \in [Block -> Half \X Half] /\ (\A j \in words : new[place(j)] = m[j])
      /\ \A i \in n + 1 .. NvramSize : new[i] = FF
  <2> DEFINE garbage == WordsOf(m, Headers(m) \ Live(m))
  <2>1. /\ Moving(m, K) = [i \in Block |-> IF i <= n THEN m[WordAt(words, i)] ELSE m[i]]
        /\ new = [i \in Block |-> IF i \in n + 1 .. n + garbage THEN FF ELSE Moving(m, K)[i]]
    BY <1>0, <1>1 DEF Moving, Compacted
  <2>2. garbage \in Nat /\ n + garbage >= e - 1
    <3>1. H \ K \in SUBSET H /\ K \in SUBSET H
      BY <1>0
    <3>2. /\ IsFiniteSet(Taken(m, H \ K)) /\ Cardinality(Taken(m, H \ K)) \in Nat
          /\ Taken(m, H) = 1 .. e - 1
      BY <3>1, TakenIs DEF WordsOf
    <3>3. Taken(m, H) = words \cup Taken(m, H \ K)
      BY <1>0 DEF Taken
    <3>4. Cardinality(words \cup Taken(m, H \ K))
            = n + Cardinality(Taken(m, H \ K)) - Cardinality(words \cap Taken(m, H \ K))
      BY <1>1, <3>2, FS_Union
    <3>5. Cardinality(words \cap Taken(m, H \ K)) \in Nat
      BY <1>1, FS_Intersection, FS_CardinalityType
    <3>6. Cardinality(1 .. e - 1) = e - 1
      BY <1>0, FS_Interval
    <3>7. garbage = Cardinality(Taken(m, H \ K))
      BY <1>0 DEF WordsOf
    <3>8. e - 1 = n + garbage - Cardinality(words \cap Taken(m, H \ K))
      BY <3>2, <3>3, <3>4, <3>6, <3>7
    <3> HIDE DEF garbage, n, words, K
    <3> QED BY <1>0, <1>1, <3>2, <3>5, <3>7, <3>8
  <2> HIDE DEF garbage, words, new
  <2>3. \A i \in 1 .. n : WordAt(words, i) \in words
    BY <1>4
  <2>4. FF \in Half \X Half
    BY NvramAssumption DEF FF, Half
  <2>5. \A i \in Block : i \in Nat /\ 1 <= i /\ i <= NvramSize
    BY <1>0 DEF Block
  <2>6. ASSUME NEW i \in Block PROVE new[i] \in Half \X Half
    <3>1. CASE i <= n
      <4>1. i \in 1 .. n
        BY <2>5, <3>1, <1>1
      <4>2. WordAt(words, i) \in Block
        BY <1>1, <2>3, <4>1
      <4>3. m[WordAt(words, i)] \in Half \X Half
        BY <1>0, <4>2
      <4> QED BY <2>1, <2>4, <3>1, <4>3
    <3>2. CASE ~(i <= n)
      <4>1. m[i] \in Half \X Half
        BY <1>0
      <4> QED BY <2>1, <2>4, <3>2, <4>1
    <3> QED BY <3>1, <3>2
  <2>7. new \in [Block -> Half \X Half]
    BY <2>1, <2>6
  <2>8. ASSUME NEW j \in words PROVE new[place(j)] = m[j]
    <3>1. place(j) \in 1 .. n /\ WordAt(words, place(j)) = j
      BY <1>4
    <3> HIDE DEF place
    <3>2. place(j) \in Block /\ place(j) <= n /\ place(j) \notin n + 1 .. n + garbage
      BY <1>0, <1>1, <2>2, <3>1 DEF Block
    <3> QED BY <2>1, <3>1, <3>2
  <2>9. ASSUME NEW i \in n + 1 .. NvramSize PROVE new[i] = FF
    <3>1. i \in Block /\ ~(i <= n) /\ i \in Nat
      BY <1>0, <1>1 DEF Block
    <3>2. CASE i \in n + 1 .. n + garbage
      BY <2>1, <3>1, <3>2
    <3>3. CASE i \notin n + 1 .. n + garbage
      <4>1. i \in e .. NvramSize
        BY <1>0, <1>1, <2>2, <3>1, <3>3
      <4>2. m[i] = FF
        BY <4>1 DEF Tiled
      <4> QED BY <2>1, <3>1, <3>3, <4>2
    <3> QED BY <3>2, <3>3
  <2> QED BY <2>7, <2>8, <2>9
<1> HIDE DEF words, n, new, place, K
<1>8. \A p \in K : p \in words /\ p \in Nat /\ place(p) \in Nat
  <2> SUFFICES ASSUME NEW p \in K PROVE p \in words /\ p \in Nat /\ place(p) \in Nat
    OBVIOUS
  <2>1. 0 \in 0 .. CapacityAt(m, p) /\ p + 0 = p
    BY <1>0
  <2> QED BY <1>0, <1>1, <1>2, <1>4, <2>1
<1>9. \A p \in K : /\ IdAt(new, place(p)) = IdAt(m, p) /\ CapacityAt(new, place(p)) = CapacityAt(m, p)
                   /\ \A k \in 0 .. CapacityAt(m, p) : /\ place(p) + k \in 1 .. n
                                                       /\ new[place(p) + k] = m[p + k]
  <2>1. \A p \in K : \A k \in 0 .. CapacityAt(m, p) : place(p) + k \in 1 .. n /\ new[place(p) + k] = m[p + k]
    BY <1>2, <1>4, <1>5, <1>7
  <2>2. \A p \in K : new[place(p)] = m[p]
    BY <1>7, <1>8
  <2> QED BY <2>1, <2>2 DEF IdAt, CapacityAt
<1>10. \A p, q \in K : place(p) < place(q) => p < q
  BY <1>6, <1>8
<1>11. \A p, q \in K : place(p) = place(q) => p = q
  BY <1>6, <1>8
<1>12. Tiled(new, G, n + 1)
  <2>1. n + 1 \in 1 .. NvramSize + 1
    BY <1>0, <1>1
  <2>2. \A p \in K : /\ place(p) \in 1 .. n /\ IdAt(new, place(p)) # INVALID_DATA
                     /\ place(p) + CapacityAt(new, place(p)) < n + 1
    <3> SUFFICES ASSUME NEW p \in K
                 PROVE  /\ place(p) \in 1 .. n /\ IdAt(new, place(p)) # INVALID_DATA
                        /\ place(p) + CapacityAt(new, place(p)) < n + 1
      OBVIOUS
    <3>1. CapacityAt(m, p) \in 0 .. CapacityAt(m, p) /\ 0 \in 0 .. CapacityAt(m, p)
      BY <1>0
    <3>2. place(p) + CapacityAt(m, p) \in 1 .. n /\ place(p) + 0 \in 1 .. n
      BY <1>9, <3>1
    <3> QED BY <1>0, <1>1, <1>8, <1>9, <3>2
  <2>3. ASSUME NEW i \in 1 .. (n + 1) - 1 PROVE \E g \in G : i \in g .. g + CapacityAt(new, g)
    <3>1. i \in 1 .. n
      BY <1>1
    <3>2. PICK j \in words : place(j) = i
      BY <1>4, <3>1
    <3>3. PICK p \in K : \E k \in 0 .. CapacityAt(m, p) : j = p + k
      BY <1>3
    <3>4. PICK k \in 0 .. CapacityAt(m, p) : j = p + k
      BY <3>3
    <3>5. i = place(p) + k
      BY <1>5, <3>2, <3>4
    <3>6. i \in place(p) .. place(p) + CapacityAt(new, place(p))
      BY <1>0, <1>8, <1>9, <3>5
    <3> QED BY <3>6
  <2>4. ASSUME NEW p \in K, NEW q \in K, place(p) < place(q)
        PROVE  place(p) + CapacityAt(new, place(p)) < place(q)
    <3>1. p < q
      BY <1>10, <2>4
    <3>2. p + CapacityAt(m, p) < q
      BY <1>0, <3>1 DEF Tiled
    <3>3. place(p + CapacityAt(m, p)) < place(q)
      BY <1>0, <1>6, <1>8, <3>2
    <3>4. CapacityAt(m, p) \in 0 .. CapacityAt(m, p)
      BY <1>0
    <3> QED BY <1>5, <1>9, <3>3, <3>4
  <2>5. G \subseteq 1 .. (n + 1) - 1
    BY <1>1, <2>2
  <2>6. \A i \in n + 1 .. NvramSize : new[i] = FF
    BY <1>7
  <2> HIDE DEF Tiled
  <2>7. \A g \in G : IdAt(new, g) # INVALID_DATA /\ g + CapacityAt(new, g) < n + 1
    BY <2>2
  <2>8. \A g, h \in G : g < h => g + CapacityAt(new, g) < h
    BY <2>4
  <2> HIDE DEF G
  <2> QED BY <1>7, <2>1, <2>3, <2>5, <2>6, <2>7, <2>8 DEF Tiled
<1>13. Unique(new, G)
  BY <1>0, <1>9 DEF Unique
<1>14. Kept(new, G) = G
  BY <1>0, <1>9 DEF Kept
<1>15. StoredIn(new) = StoredIn(m)
  <2>1. Holds(StoredIn(m), m, H)
    BY StoredIs
  <2> DEFINE es == StoredIn(m)
  <2> HIDE DEF es
  <2>2. /\ es = [id \in DOMAIN es |-> es[id]]
        /\ DOMAIN es = {IdAt(m, p) : p \in K}
        /\ \A p \in K : es[IdAt(m, p)] = [k \in 1 .. CapacityAt(m, p) |-> m[p + k]]
    BY <2>1 DEF Holds, K, es
  <2>3. {IdAt(new, g) : g \in G} = {IdAt(m, p) : p \in K}
    BY <1>9
  <2>4. ASSUME NEW p \in K
        PROVE  es[IdAt(new, place(p))] = [k \in 1 .. CapacityAt(new, place(p)) |-> new[place(p) + k]]
    <3>1. \A k \in 1 .. CapacityAt(m, p) : k \in 0 .. CapacityAt(m, p)
      BY <1>0
    <3>2. \A k \in 1 .. CapacityAt(m, p) : new[place(p) + k] = m[p + k]
      BY <1>9, <3>1
    <3> QED BY <1>9, <2>2, <3>2
  <2>5. \A g \in G : es[IdAt(new, g)] = [k \in 1 .. CapacityAt(new, g) |-> new[g + k]]
    BY <2>4
  <2> HIDE DEF G
  <2>6. Holds(es, new, G)
    BY <1>14, <2>2, <2>3, <2>5 DEF Holds
  <2> QED BY <1>12, <1>13, <2>6, SameStored DEF es
<1>16. ASSUME NEW id, \A p \in K : IdAt(m, p) # id PROVE \A g \in G : IdAt(new, g) # id
  BY <1>9, <1>16
<1> HIDE DEF G
<1> QED
  BY <1>1, <1>12, <1>13, <1>14, <1>15, <1>16 DEF new, K

\* The store counts as the block does.
LEMMA SameCardinality ==
  ASSUME NEW S PROVE Store!Cardinality(S) = Cardinality(S)
BY DEF Store!Cardinality, Cardinality

\* The words that are taken are those of the entries that exist: word k of the
\* entry with an id is one, and no other.
LEMMA UsedIs ==
  ASSUME NEW m, NEW H, NEW e, Tiled(m, H, e), Unique(m, H)
  PROVE  Store!Used(StoredIn(m)) = WordsOf(m, Live(m))
<1> DEFINE K     == Kept(m, H)
           es    == StoredIn(m)
           words == Taken(m, K)
           pairs == UNION {{id} \X (0 .. Len(es[id])) : id \in DOMAIN es}
           at(j) == CHOOSE p \in K : j \in p .. p + CapacityAt(m, p)
           f     == [j \in words |-> <<IdAt(m, at(j)), j - at(j)>>]
<1>0. /\ Live(m) = K /\ K \subseteq H
      /\ \A q \in H : /\ q \in Nat /\ CapacityAt(m, q) \in Nat /\ IdAt(m, q) \in Nat
      /\ \A p, q \in K : IdAt(m, p) = IdAt(m, q) => p = q
  BY TiledTypes DEF Kept, Unique
<1>1. DOMAIN es = {IdAt(m, p) : p \in K} /\ \A p \in K : Len(es[IdAt(m, p)]) = CapacityAt(m, p)
  <2>1. Holds(es, m, H)
    BY StoredIs
  <2> HIDE DEF es
  <2>2. DOMAIN es = {IdAt(m, p) : p \in K}
    BY <2>1 DEF Holds
  <2>3. ASSUME NEW p \in K PROVE Len(es[IdAt(m, p)]) = CapacityAt(m, p)
    <3>1. es[IdAt(m, p)] = [k \in 1 .. CapacityAt(m, p) |-> m[p + k]]
      BY <2>1 DEF Holds
    <3>2. CapacityAt(m, p) \in Nat
      BY <1>0
    <3> QED BY <3>1, <3>2
  <2> QED BY <2>2, <2>3
<1>2. pairs = UNION {{IdAt(m, p)} \X (0 .. CapacityAt(m, p)) : p \in K}
  <2> HIDE DEF es, K
  <2>1. \A x : (\E id \in DOMAIN es : x \in {id} \X (0 .. Len(es[id])))
                 <=> \E p \in K : x \in {IdAt(m, p)} \X (0 .. CapacityAt(m, p))
    BY <1>1
  <2> QED BY <2>1
<1>3. \A j \in words : at(j) \in K /\ j \in at(j) .. at(j) + CapacityAt(m, at(j))
  BY DEF Taken
<1>4. IsFiniteSet(words)
  <2>1. K \in SUBSET H
    BY <1>0
  <2> QED BY <2>1, TakenIs
<1>5. \A p \in K : \A k \in 0 .. CapacityAt(m, p) : p + k \in words /\ at(p + k) = p
  <2> SUFFICES ASSUME NEW p \in K, NEW k \in 0 .. CapacityAt(m, p) PROVE p + k \in words /\ at(p + k) = p
    OBVIOUS
  <2>1. p + k \in p .. p + CapacityAt(m, p)
    BY <1>0
  <2>2. p + k \in words
    BY <2>1 DEF Taken
  <2>3. at(p + k) \in K /\ p + k \in at(p + k) .. at(p + k) + CapacityAt(m, at(p + k))
    BY <1>3, <2>2
  <2>4. \A x, y \in H : x < y => x + CapacityAt(m, x) < y
    BY DEF Tiled
  <2> HIDE DEF at, words, K
  <2> QED BY <1>0, <2>1, <2>2, <2>3, <2>4
<1> HIDE DEF at, words, K, pairs
<1>6. f \in [words -> pairs]
  <2> SUFFICES ASSUME NEW j \in words PROVE <<IdAt(m, at(j)), j - at(j)>> \in pairs
    OBVIOUS
  <2>1. at(j) \in K /\ j - at(j) \in 0 .. CapacityAt(m, at(j))
    BY <1>0, <1>3
  <2> QED BY <1>2, <2>1
<1>7. \A i, j \in words : f[i] = f[j] => i = j
  <2> SUFFICES ASSUME NEW i \in words, NEW j \in words, f[i] = f[j] PROVE i = j
    OBVIOUS
  <2>1. IdAt(m, at(i)) = IdAt(m, at(j)) /\ i - at(i) = j - at(j)
    OBVIOUS
  <2>2. at(i) \in K /\ at(j) \in K /\ at(i) = at(j)
    BY <1>0, <1>3, <2>1
  <2>3. i \in Int /\ j \in Int /\ at(i) \in Int
    BY <1>0, <1>3, <2>2
  <2> QED BY <2>1, <2>2, <2>3
<1>8. \A x \in pairs : \E j \in words : f[j] = x
  <2> SUFFICES ASSUME NEW x \in pairs PROVE \E j \in words : f[j] = x
    OBVIOUS
  <2>1. PICK p \in K : x \in {IdAt(m, p)} \X (0 .. CapacityAt(m, p))
    BY <1>2
  <2>2. PICK k \in 0 .. CapacityAt(m, p) : x = <<IdAt(m, p), k>>
    BY <2>1
  <2>3. p + k \in words /\ at(p + k) = p
    BY <1>5
  <2>4. (p + k) - p = k
    BY <1>0
  <2>5. f[p + k] = x
    BY <2>2, <2>3, <2>4
  <2> QED BY <2>3, <2>5
<1>9. ExistsBijection(words, pairs)
  <2> HIDE DEF f
  <2>1. f \in Bijection(words, pairs)
    BY <1>6, <1>7, <1>8 DEF Bijection, Injection, IsInjective, Surjection
  <2> QED BY <2>1 DEF ExistsBijection
<1>10. Cardinality(pairs) = Cardinality(words)
  BY <1>4, <1>9, FS_Bijection
<1>11. WordsOf(m, Live(m)) = Cardinality(words)
  BY <1>0 DEF WordsOf, words
<1>12. Store!Used(StoredIn(m)) = Cardinality(pairs)
  <2> HIDE DEF es
  <2>1. Store!Used(es) = Cardinality(pairs)
    BY SameCardinality DEF Store!Used, pairs
  <2> QED BY <2>1 DEF es
<1> QED BY <1>10, <1>11, <1>12

\* After its deletion, an id is not there and the others are as they were.
LEMMA DeletedIs ==
  ASSUME NEW m, NEW H, NEW e, Tiled(m, H, e), Unique(m, H), NEW id \in Ids
  PROVE  /\ Tiled(Deleted(m, id), H, e) /\ Unique(Deleted(m, id), H)
         /\ \A p \in H : IdAt(Deleted(m, id), p) # id
         /\ StoredIn(Deleted(m, id)) = Store!Without(StoredIn(m), id)
         /\ AJ_FindNVEntry(m, id) = Null => Deleted(m, id) = m
<1>0. id # INVALID_ID /\ id # INVALID_DATA /\ INVALID_ID \in Half
  BY NvramAssumption DEF INVALID_ID, Half
<1>1. CASE \A p \in H : IdAt(m, p) # id
  <2>1. Deleted(m, id) = m
    BY <1>0, <1>1, FindIs DEF Deleted
  <2>2. Holds(StoredIn(m), m, H)
    BY StoredIs
  <2> DEFINE es == StoredIn(m)
  <2> HIDE DEF es
  <2>3. DOMAIN es = DOMAIN es \ {id} /\ es = [x \in DOMAIN es |-> es[x]]
    BY <1>1, <2>2 DEF Holds, Kept, es
  <2>4. Store!Without(es, id) = es
    BY <2>3 DEF Store!Without
  <2> QED BY <1>1, <2>1, <2>4 DEF es
<1>2. ASSUME NEW p \in H, IdAt(m, p) = id
      PROVE  /\ Tiled(Deleted(m, id), H, e) /\ Unique(Deleted(m, id), H)
             /\ \A q \in H : IdAt(Deleted(m, id), q) # id
             /\ StoredIn(Deleted(m, id)) = Store!Without(StoredIn(m), id)
             /\ AJ_FindNVEntry(m, id) # Null
  <2> DEFINE n == [m EXCEPT ![p][1] = INVALID_ID]
  <2>1. AJ_FindNVEntry(m, id) = p /\ p \in Block /\ p # 0 /\ p \in Kept(m, H) /\ m \in [Block -> Half \X Half]
    BY <1>0, <1>2, FindIs, TiledTypes DEF Kept
  <2>2. Deleted(m, id) = n
    BY <2>1 DEF Deleted, Null
  <2>3. m[p] = <<IdAt(m, p), CapacityAt(m, p)>> /\ m[p] \in Half \X Half
    BY <2>1, WordTypes
  <2>4. n[p] = <<INVALID_ID, CapacityAt(m, p)>> /\ \A i \in Block : i # p => n[i] = m[i]
    BY <2>1, <2>3
  <2>5. n \in [Block -> Half \X Half]
    <3>1. [m[p] EXCEPT ![1] = INVALID_ID] \in Half \X Half
      BY <1>0, <2>3
    <3> QED BY <2>1, <3>1
  <2>6. p \in p .. p + CapacityAt(m, p)
    BY TiledTypes
  <2> HIDE DEF n
  <2>7. /\ Tiled(n, H, e) /\ Unique(n, H) /\ Kept(n, H) = Kept(m, H) \ {p}
        /\ StoredIn(n) = Store!Without(StoredIn(m), IdAt(m, p))
    BY <2>1, <2>4, <2>5, <2>6, DeleteKeeps
  <2>8. ASSUME NEW q \in H PROVE IdAt(n, q) # id
    <3>1. CASE q = p
      BY <1>0, <2>4, <3>1 DEF IdAt
    <3>2. CASE q # p
      <4>1. q \in Block
        BY TiledTypes
      <4>2. IdAt(n, q) = IdAt(m, q)
        BY <2>4, <3>2, <4>1 DEF IdAt
      <4> QED BY <1>0, <1>2, <3>2, <4>2 DEF Unique
    <3> QED BY <3>1, <3>2
  <2> QED BY <1>2, <2>1, <2>2, <2>7, <2>8 DEF Null
<1> QED
  BY <1>1, <1>2

\* s, made of m for an entry of that id and capacity: the entries are as they were,
\* and there is room exactly when they leave it.
Room(s, m, compact, c, id, G, f) ==
  /\ Tiled(s, G, f) /\ Unique(s, G)
  /\ \A p \in G : IdAt(s, p) # id
  /\ StoredIn(s) = StoredIn(m)
  /\ compact \/ MustCompact(m, compact, c) => Kept(s, G) = G
  /\ Fits(s, c) <=> Store!Used(StoredIn(m)) + (1 + c) <= NvramSize
  /\ Fits(s, c) => f + c <= NvramSize /\ f \in Block /\ AJ_FindNVEntry(s, INVALID_DATA) = f


\* Whatever compaction there is, there is room for an entry exactly when those
\* that exist leave it.
LEMMA SpaceIs ==
  ASSUME NEW m, NEW H, NEW e, Tiled(m, H, e), Unique(m, H),
         NEW compact \in BOOLEAN, compact => Kept(m, H) = H, NEW c \in Nat,
         NEW id, \A p \in H : IdAt(m, p) # id
  PROVE  \E G, f : Room(Space(m, compact, c), m, compact, c, id, G, f)
<1> DEFINE used == WordsOf(m, Live(m))
<1>0. Store!Used(StoredIn(m)) = used
  BY UsedIs
<1>1. /\ used \in Nat /\ used <= e - 1 /\ WordsOf(m, H) = e - 1
      /\ Live(m) = Kept(m, H) /\ e \in Nat /\ 1 <= e /\ NvramSize \in Nat
  <2>1. Kept(m, H) \in SUBSET H
    BY DEF Kept
  <2>2. /\ WordsOf(m, Kept(m, H)) \in Nat /\ WordsOf(m, Kept(m, H)) <= e - 1
        /\ WordsOf(m, H) = e - 1
    BY <2>1, TakenIs
  <2> QED BY <2>2, TiledTypes
<1>2. Fits(m, c) <=> e + c <= NvramSize
  BY FitsIs
<1>3. CASE ~ MustCompact(m, compact, c)
  <2>1. Space(m, compact, c) = m
    BY <1>3 DEF Space
  <2>2. Fits(m, c) <=> used + (1 + c) <= NvramSize
    <3>1. CASE Fits(m, c)
      BY <1>1, <1>2, <3>1
    <3>2. CASE ~ Fits(m, c)
      <4>1. compact
        BY <1>3, <3>2 DEF MustCompact
      <4>2. used = e - 1
        BY <1>1, <4>1
      <4> QED BY <1>1, <1>2, <3>2, <4>2
    <3> QED BY <3>1, <3>2
  <2>3. Fits(m, c) => e + c <= NvramSize /\ e \in Block /\ AJ_FindNVEntry(m, INVALID_DATA) = e
    BY FitsIs
  <2> HIDE DEF used
  <2>4. compact \/ MustCompact(m, compact, c) => Kept(m, H) = H
    BY <1>3
  <2>5. Room(m, m, compact, c, id, H, e)
    BY <1>0, <2>2, <2>3, <2>4 DEF Room
  <2> QED BY <2>1, <2>5
<1>4. CASE MustCompact(m, compact, c)
  <2> DEFINE n == Compacted(m)
  <2>1. Space(m, compact, c) = n
    BY <1>4 DEF Space
  <2>2. PICK G : /\ Tiled(n, G, used + 1) /\ Unique(n, G) /\ Kept(n, G) = G
                 /\ StoredIn(n) = StoredIn(m)
                 /\ \A x : (\A p \in Kept(m, H) : IdAt(m, p) # x) => \A p \in G : IdAt(n, p) # x
    BY CompactKeeps
  <2> HIDE DEF n, used
  <2>3. /\ Fits(n, c) <=> (used + 1) + c <= NvramSize
        /\ Fits(n, c) => used + 1 \in Block /\ AJ_FindNVEntry(n, INVALID_DATA) = used + 1
    BY <2>2, FitsIs
  <2>4. \A p \in G : IdAt(n, p) # id
    BY <2>2 DEF Kept
  <2>5. Fits(n, c) <=> used + (1 + c) <= NvramSize
    BY <1>1, <2>3
  <2>6. Fits(n, c) => (used + 1) + c <= NvramSize
    BY <2>3
  <2>7. Room(n, m, compact, c, id, G, used + 1)
    BY <1>0, <2>2, <2>3, <2>4, <2>5, <2>6 DEF Room
  <2> QED BY <2>1, <2>7
<1> QED BY <1>3, <1>4

-----------------------------------------------------------------------------
(* The invariant *)

\* The entries a walk finds tile the block up to the free words, have different
\* ids, and are all alive when the flag says so.
Laid(m, compact) ==
  /\ compact \in BOOLEAN
  /\ Tiled(m, Headers(m), WordsOf(m, Headers(m)) + 1)
  /\ Unique(m, Headers(m))
  /\ compact => Kept(m, Headers(m)) = Headers(m)

NvramInv == Laid(mem, isCompact)

\* Any row of entries is the one a walk finds.
LEMMA LaidBy ==
  ASSUME NEW m, NEW H, NEW e, Tiled(m, H, e), Unique(m, H),
         NEW compact \in BOOLEAN, compact => Kept(m, H) = H
  PROVE  Laid(m, compact)
<1>1. Headers(m) = H /\ e \in Nat
  BY TiledTypes
<1>2. WordsOf(m, H) = e - 1
  BY TakenIs
<1>3. WordsOf(m, H) + 1 = e
  BY <1>1, <1>2
<1> QED BY <1>1, <1>3 DEF Laid

LEMMA InvLayout == NvramInv => LayoutOK
<1> SUFFICES ASSUME NvramInv PROVE LayoutOK
  OBVIOUS
<1> DEFINE H == Headers(mem)
           e == WordsOf(mem, H) + 1
<1>1. Tiled(mem, H, e) /\ Unique(mem, H) /\ isCompact \in BOOLEAN /\ (isCompact => Kept(mem, H) = H)
  BY DEF NvramInv, Laid
<1> HIDE DEF e, H
<1>2. /\ NvramSize \in Nat /\ e \in Nat /\ e <= NvramSize + 1
      /\ mem \in [Block -> Half \X Half] /\ Live(mem) = Kept(mem, H) /\ Headers(mem) = H
      /\ \A p \in H : p \in Nat /\ CapacityAt(mem, p) \in Nat /\ p + CapacityAt(mem, p) < e
  BY <1>1, TiledTypes
<1>3. BlockOK
  BY <1>1, <1>2 DEF BlockOK
<1>4. \A i \in WordsOf(mem, Headers(mem)) + 1 .. NvramSize : mem[i] = FF
  BY <1>1 DEF Tiled, e, H
<1>5. \A p, q \in Live(mem) : IdAt(mem, p) = IdAt(mem, q) => p = q
  BY <1>1, <1>2 DEF Kept, Unique
<1> QED BY <1>1, <1>2, <1>3, <1>4, <1>5 DEF LayoutOK

-----------------------------------------------------------------------------
(* The calls *)

\* A block with nothing in it.
LEMMA ErasedIs ==
  ASSUME NEW compact \in BOOLEAN
  PROVE  Laid(Erased, compact) /\ StoredIn(Erased) = Store!Nothing
<1>1. Tiled(Erased, {}, 1) /\ Unique(Erased, {}) /\ Kept(Erased, {}) = {}
  BY NvramAssumption DEF Tiled, Unique, Kept, Erased, Block, FF, Half
<1>2. Live(Erased) = {}
  BY <1>1, TiledTypes
<1>3. StoredIn(Erased) = <<>>
  BY <1>2 DEF StoredIn
<1> QED BY <1>1, <1>3, LaidBy DEF Store!Nothing

\* The entry of an id behind the others, as it is made and then filled.
MadeAndFilled(s, f, id, contents, compact) ==
  LET created == Created(s, id, Len(contents))
      filled  == Filled(created, f, contents)
  IN /\ Laid(created, compact) /\ Laid(filled, compact)
     /\ StoredIn(created) = Store!With(StoredIn(s), id, [i \in DOMAIN contents |-> FF])
     /\ StoredIn(filled) = Store!With(StoredIn(s), id, contents)

LEMMA NewEntry ==
  ASSUME NEW s, NEW G, NEW f, Tiled(s, G, f), Unique(s, G), NEW id \in Ids,
         NEW contents \in Contents, \A p \in G : IdAt(s, p) # id,
         f + Len(contents) <= NvramSize, f \in Block, AJ_FindNVEntry(s, INVALID_DATA) = f,
         NEW compact \in BOOLEAN, compact => Kept(s, G) = G
  PROVE  MadeAndFilled(s, f, id, contents, compact)
<1> DEFINE c       == Len(contents)
           created == Created(s, id, c)
           filled  == Filled(created, f, contents)
<1>0. /\ c \in Nat /\ contents \in Seq(Half \X Half) /\ DOMAIN contents = 1 .. c
      /\ contents = [k \in 1 .. c |-> contents[k]] /\ \A k \in 1 .. c : contents[k] \in Half \X Half
      /\ id # INVALID_ID /\ id # INVALID_DATA /\ id \in Half
      /\ NvramSize \in Nat /\ NvramSize < INVALID_DATA /\ INVALID_DATA \in Nat
      /\ f \in Nat /\ 1 <= f /\ s \in [Block -> Half \X Half]
  <2>1. contents \in Seq(Half \X Half)
    BY NvramAssumption DEF Half
  <2>2. /\ c \in Nat /\ DOMAIN contents = 1 .. c
        /\ contents = [k \in 1 .. c |-> contents[k]] /\ \A k \in 1 .. c : contents[k] \in Half \X Half
    BY <2>1
  <2>3. /\ id # INVALID_ID /\ id # INVALID_DATA /\ id \in Half
        /\ NvramSize \in Nat /\ NvramSize < INVALID_DATA /\ INVALID_DATA \in Nat
    BY NvramAssumption DEF Half, INVALID_ID
  <2>4. f \in Nat /\ 1 <= f
    BY <2>3 DEF Block
  <2>5. s \in [Block -> Half \X Half]
    BY DEF Tiled
  <2> QED BY <2>1, <2>2, <2>3, <2>4, <2>5
<1>1. c \in Half
  BY <1>0 DEF Half
<1>2. /\ created \in [Block -> Half \X Half] /\ created[f] = <<id, c>>
      /\ \A i \in Block : i # f => created[i] = s[i]
  BY <1>0, <1>1 DEF Created
<1> HIDE DEF created, c
<1>3. /\ \A i \in Block : filled[i] = IF i - f \in 1 .. c THEN contents[i - f] ELSE created[i]
      /\ filled = [i \in Block |-> filled[i]]
  BY <1>0 DEF Filled
<1> HIDE DEF filled
<1>4. /\ filled \in [Block -> Half \X Half] /\ filled[f] = <<id, c>>
      /\ \A i \in Block : i \notin f .. f + c => filled[i] = s[i]
  <2>1. \A i \in Block : filled[i] \in Half \X Half
    BY <1>0, <1>2, <1>3
  <2>2. f - f \notin 1 .. c
    BY <1>0
  <2>3. ASSUME NEW i \in Block, i \notin f .. f + c PROVE filled[i] = s[i]
    <3>1. i - f \notin 1 .. c /\ i # f
      BY <1>0, <2>3 DEF Block
    <3> QED BY <1>2, <1>3, <3>1
  <2> QED BY <1>2, <1>3, <2>1, <2>2, <2>3
<1>5. ASSUME NEW k \in 1 .. c PROVE filled[f + k] = contents[k] /\ created[f + k] = FF
  <2>1. f + k \in Block /\ f + k # f /\ (f + k) - f = k /\ f + k \in f .. NvramSize
    BY <1>0 DEF Block, c
  <2>2. filled[f + k] = contents[k]
    BY <1>3, <2>1
  <2>3. created[f + k] = FF
    BY <1>2, <2>1 DEF Tiled
  <2> QED BY <2>2, <2>3
<1> DEFINE free == [i \in DOMAIN contents |-> FF]
<1> HIDE DEF free
<1>6. CapacityAt(created, f) = c /\ CapacityAt(filled, f) = c
  BY <1>2, <1>4 DEF CapacityAt
<1>7. Adds(created, s, G, f, id, free)
  <2>1. free = [k \in 1 .. c |-> created[f + k]]
    BY <1>0, <1>5 DEF free
  <2>2. \A i \in Block : i \notin f .. f + c => created[i] = s[i]
    BY <1>0, <1>2
  <2> QED BY <1>0, <1>2, <1>6, <2>1, <2>2 DEF Adds, IdAt, c
<1>8. Adds(filled, s, G, f, id, contents)
  <2>1. contents = [k \in 1 .. c |-> filled[f + k]]
    BY <1>0, <1>5
  <2> QED BY <1>0, <1>4, <1>6, <2>1 DEF Adds, IdAt, c
<1>9. Added(created, s, G, f, id, free) /\ Added(filled, s, G, f, id, contents)
  BY <1>7, <1>8, CreateKeeps
<1>10. /\ StoredIn(created) = Store!With(StoredIn(s), id, free)
       /\ StoredIn(filled) = Store!With(StoredIn(s), id, contents)
  BY <1>9 DEF Added
<1>11. Laid(created, compact) /\ Laid(filled, compact)
  <2> DEFINE F == G \cup {f}
  <2>1. /\ Tiled(created, F, f + 1 + CapacityAt(created, f)) /\ Unique(created, F)
        /\ Tiled(filled, F, f + 1 + CapacityAt(filled, f)) /\ Unique(filled, F)
        /\ compact => Kept(created, F) = F /\ Kept(filled, F) = F
    BY <1>9 DEF Added
  <2> HIDE DEF F
  <2> QED BY <2>1, LaidBy
<1> QED
  BY <1>10, <1>11 DEF MadeAndFilled, created, filled, c, free

\* Not said to be compact, a block is laid out no less.
LEMMA LaidAnyway ==
  ASSUME NEW m, NEW compact, Laid(m, compact)
  PROVE  Laid(m, FALSE)
BY DEF Laid

\* After a deletion the flag that StaysCompact leaves is true of the block.
LEMMA DeletedLaid ==
  ASSUME NEW m, NEW compact, Laid(m, compact), NEW id \in Ids
  PROVE  /\ Laid(Deleted(m, id), compact /\ AJ_FindNVEntry(m, id) = Null)
         /\ \A p \in Headers(m) : IdAt(Deleted(m, id), p) # id
         /\ StoredIn(Deleted(m, id)) = Store!Without(StoredIn(m), id)
         /\ Headers(Deleted(m, id)) = Headers(m)
<1> DEFINE H     == Headers(m)
           e     == WordsOf(m, H) + 1
           d     == Deleted(m, id)
           stays == compact /\ AJ_FindNVEntry(m, id) = Null
<1>1. Tiled(m, H, e) /\ Unique(m, H) /\ compact \in BOOLEAN /\ (compact => Kept(m, H) = H)
  BY DEF Laid
<1> HIDE DEF e, H
<1>2. Tiled(d, H, e) /\ Unique(d, H)
  BY <1>1, DeletedIs
<1>3. AJ_FindNVEntry(m, id) = Null => d = m
  BY <1>1, DeletedIs
<1>4. \A p \in H : IdAt(d, p) # id
  BY <1>1, DeletedIs
<1>5. StoredIn(d) = Store!Without(StoredIn(m), id)
  BY <1>1, DeletedIs, Zenon
<1> HIDE DEF d
<1>6. stays \in BOOLEAN /\ (stays => Kept(d, H) = H)
  BY <1>1, <1>3
<1> HIDE DEF stays
<1>7. Laid(d, stays)
  BY <1>2, <1>6, LaidBy
<1>8. Headers(d) = H
  BY <1>2, TiledTypes
<1> QED BY <1>4, <1>5, <1>7, <1>8 DEF d, stays, H

\* What AJ_NVRAM_Open and AJ_NVRAM_Write leave, once the old entry is deleted: there is
\* room exactly when there is for the entries alone, and the new entry is next to the others.
WriteLaid(m, stays, id, contents) ==
  LET capacity == Len(contents)
      deleted  == Deleted(m, id)
      space    == Space(deleted, stays, capacity)
      flag     == stays \/ MustCompact(deleted, stays, capacity)
      created  == Created(space, id, capacity)
      filled   == Filled(created, AJ_FindNVEntry(space, INVALID_DATA), contents)
      rest     == Store!Without(StoredIn(m), id)
  IN /\ Laid(space, flag) /\ StoredIn(space) = rest
     /\ Fits(space, capacity) <=> Store!Used(rest) + (1 + capacity) <= NvramSize
     /\ Fits(space, capacity) =>
          /\ Laid(created, flag) /\ Laid(filled, flag)
          /\ StoredIn(created) = Store!With(rest, id, [i \in DOMAIN contents |-> FF])
          /\ StoredIn(filled) = Store!With(rest, id, contents)

LEMMA WrittenIs ==
  ASSUME NEW m, NEW compact, Laid(m, compact), NEW id \in Ids, NEW contents \in Contents
  PROVE  WriteLaid(m, compact /\ AJ_FindNVEntry(m, id) = Null, id, contents)
<1> DEFINE capacity == Len(contents)
           deleted  == Deleted(m, id)
           stays    == compact /\ AJ_FindNVEntry(m, id) = Null
           space    == Space(deleted, stays, capacity)
           flag     == stays \/ MustCompact(deleted, stays, capacity)
           created  == Created(space, id, capacity)
           filled   == Filled(created, AJ_FindNVEntry(space, INVALID_DATA), contents)
           rest     == Store!Without(StoredIn(m), id)
           H        == Headers(deleted)
           e        == WordsOf(deleted, H) + 1
<1>1. Laid(deleted, stays) /\ \A p \in H : IdAt(deleted, p) # id
  BY DeletedLaid
<1>2. StoredIn(deleted) = rest
  BY DeletedLaid, Zenon
<1>3. capacity \in Nat
  BY NvramAssumption
<1> HIDE DEF deleted, stays, capacity, rest
<1>4. Tiled(deleted, H, e) /\ Unique(deleted, H) /\ stays \in BOOLEAN /\ (stays => Kept(deleted, H) = H)
  BY <1>1 DEF Laid
<1> HIDE DEF H, e
<1>5. PICK G, f : /\ Tiled(space, G, f) /\ Unique(space, G)
                  /\ \A p \in G : IdAt(space, p) # id
                  /\ StoredIn(space) = rest
                  /\ flag => Kept(space, G) = G
                  /\ Fits(space, capacity) <=> Store!Used(rest) + (1 + capacity) <= NvramSize
                  /\ Fits(space, capacity) => /\ f + capacity <= NvramSize /\ f \in Block
                                              /\ AJ_FindNVEntry(space, INVALID_DATA) = f
  <2>1. PICK G, f : Room(space, deleted, stays, capacity, id, G, f)
    BY <1>1, <1>3, <1>4, SpaceIs
  <2>2. /\ Tiled(space, G, f) /\ Unique(space, G)
        /\ \A p \in G : IdAt(space, p) # id
        /\ StoredIn(space) = StoredIn(deleted)
        /\ flag => Kept(space, G) = G
        /\ Fits(space, capacity) <=> Store!Used(StoredIn(deleted)) + (1 + capacity) <= NvramSize
        /\ Fits(space, capacity) => /\ f + capacity <= NvramSize /\ f \in Block
                                    /\ AJ_FindNVEntry(space, INVALID_DATA) = f
    BY <2>1 DEF Room
  <2> QED BY <1>2, <2>2
<1>6. flag \in BOOLEAN
  BY <1>4 DEF MustCompact
<1> HIDE DEF space, flag
<1>7. Laid(space, flag)
  BY <1>5, <1>6, LaidBy
<1>8. ASSUME Fits(space, capacity)
      PROVE  /\ Laid(created, flag) /\ Laid(filled, flag)
             /\ StoredIn(created) = Store!With(rest, id, [i \in DOMAIN contents |-> FF])
             /\ StoredIn(filled) = Store!With(rest, id, contents)
  <2>1. /\ f + Len(contents) <= NvramSize /\ f \in Block /\ AJ_FindNVEntry(space, INVALID_DATA) = f
    BY <1>5, <1>8 DEF capacity
  <2>a. Tiled(space, G, f) /\ Unique(space, G) /\ (\A p \in G : IdAt(space, p) # id) /\ (flag => Kept(space, G) = G)
    BY <1>5
  <2>2. MadeAndFilled(space, f, id, contents, flag)
    BY <1>6, <2>1, <2>a, NewEntry
  <2>3. /\ Laid(created, flag) /\ Laid(filled, flag)
        /\ StoredIn(created) = Store!With(StoredIn(space), id, [i \in DOMAIN contents |-> FF])
        /\ StoredIn(filled) = Store!With(StoredIn(space), id, contents)
    BY <2>1, <2>2 DEF MadeAndFilled, capacity
  <2> QED BY <1>5, <2>3
<1>9. WriteLaid(m, stays, id, contents)
  BY <1>5, <1>7, <1>8 DEF WriteLaid, capacity, deleted, space, flag, rest
<1> QED BY <1>9 DEF stays

\* A compacted block.
LEMMA CompactedLaid ==
  ASSUME NEW m, NEW compact, Laid(m, compact)
  PROVE  Laid(Compacted(m), TRUE) /\ StoredIn(Compacted(m)) = StoredIn(m)
<1> DEFINE H == Headers(m)
           e == WordsOf(m, H) + 1
           k == WordsOf(m, Live(m)) + 1
<1>1. Tiled(m, H, e) /\ Unique(m, H)
  BY DEF Laid
<1> HIDE DEF H, e
<1>2. PICK G : /\ Tiled(Compacted(m), G, k) /\ Unique(Compacted(m), G)
               /\ Kept(Compacted(m), G) = G
               /\ StoredIn(Compacted(m)) = StoredIn(m)
  BY <1>1, CompactKeeps, Zenon
<1> HIDE DEF k
<1>3. Laid(Compacted(m), TRUE)
  BY <1>2, LaidBy
<1> QED BY <1>2, <1>3

\* What a Write makes of the entries es.
Wrote(es, id, contents) ==
  LET rest == Store!Without(es, id)
  IN IF Store!Used(rest) + Store!Size(contents) <= NvramSize THEN Store!With(rest, id, contents) ELSE rest

\* The entries es become new by a step of the store or none.
Becomes(es, new) ==
  \/ new = es \/ new = Store!Nothing
  \/ \E id \in Ids : new = Store!Without(es, id)
  \/ \E id \in Ids, contents \in Contents :
       new = Wrote(es, id, contents) \/ new = Wrote(es, id, [i \in DOMAIN contents |-> FF])

\* What a call or the end of the process leaves: a block laid out as before, with
\* entries that the store may hold.
Leaves(n, compact) == Laid(n, compact) /\ Becomes(StoredIn(mem), StoredIn(n))

LEMMA WriteLeaves ==
  ASSUME NvramInv, NEW id \in Ids, NEW contents \in Contents, Write(id, contents)
  PROVE  Leaves(mem', isCompact')
<1> DEFINE capacity == Len(contents)
           deleted  == Deleted(mem, id)
           stays    == StaysCompact(id)
           space    == Space(deleted, stays, capacity)
           flag     == stays \/ MustCompact(deleted, stays, capacity)
           created  == Created(space, id, capacity)
           filled   == Filled(created, AJ_FindNVEntry(space, INVALID_DATA), contents)
           rest     == Store!Without(StoredIn(mem), id)
<1>1. /\ Laid(space, flag) /\ StoredIn(space) = rest
      /\ Fits(space, capacity) <=> Store!Used(rest) + (1 + capacity) <= NvramSize
      /\ Fits(space, capacity) => Laid(filled, flag) /\ StoredIn(filled) = Store!With(rest, id, contents)
  <2>1. WriteLaid(mem, stays, id, contents)
    BY WrittenIs, Zenon DEF NvramInv, StaysCompact
  <2> HIDE DEF stays
  <2> QED BY <2>1 DEF WriteLaid
<1>2. isCompact' = flag /\ mem' = IF Fits(space, capacity) THEN filled ELSE space
  BY DEF Write
<1>3. Wrote(StoredIn(mem), id, contents)
        = IF Store!Used(rest) + (1 + capacity) <= NvramSize THEN Store!With(rest, id, contents) ELSE rest
  BY DEF Wrote, Store!Size
<1> HIDE DEF capacity, space, flag, filled, rest
<1>4. Laid(mem', isCompact')
  BY <1>1, <1>2
<1>5. StoredIn(mem') = Wrote(StoredIn(mem), id, contents)
  BY <1>1, <1>2, <1>3
<1> QED BY <1>4, <1>5 DEF Leaves, Becomes

LEMMA DeleteLeaves ==
  ASSUME NvramInv, NEW id \in Ids, Delete(id)
  PROVE  Leaves(mem', isCompact')
<1>1. mem' = Deleted(mem, id) /\ isCompact' = StaysCompact(id)
  BY DEF Delete
<1>2. Laid(Deleted(mem, id), StaysCompact(id))
  BY DeletedLaid, Zenon DEF NvramInv, StaysCompact
<1>3. StoredIn(Deleted(mem, id)) = Store!Without(StoredIn(mem), id)
  BY DeletedLaid, Zenon DEF NvramInv
<1>4. Laid(mem', isCompact')
  BY <1>1, <1>2
<1>5. StoredIn(mem') = Store!Without(StoredIn(mem), id)
  BY <1>1, <1>3
<1> QED BY <1>4, <1>5 DEF Leaves, Becomes

LEMMA GetSizeRemainingLeaves ==
  ASSUME NvramInv, GetSizeRemaining
  PROVE  Leaves(mem', isCompact')
<1>1. Laid(mem, isCompact) /\ isCompact \in BOOLEAN
  BY DEF NvramInv, Laid
<1>2. Laid(Compacted(mem), TRUE) /\ StoredIn(Compacted(mem)) = StoredIn(mem)
  BY <1>1, CompactedLaid, Zenon
<1>3. isCompact' = TRUE /\ mem' = IF isCompact THEN mem ELSE Compacted(mem)
  BY DEF GetSizeRemaining
<1>4. Laid(mem', isCompact') /\ StoredIn(mem') = StoredIn(mem)
  <2>1. CASE isCompact
    <3>1. isCompact = TRUE
      BY <1>1, <2>1
    <3>2. Laid(mem, TRUE)
      BY <1>1, <3>1
    <3> QED BY <1>3, <2>1, <3>2
  <2>2. CASE ~isCompact
    BY <1>2, <1>3, <2>2
  <2> QED BY <2>1, <2>2
<1> QED BY <1>4 DEF Leaves, Becomes

LEMMA ClearLeaves ==
  ASSUME NvramInv, AJ_NVRAM_Clear
  PROVE  Leaves(mem', isCompact')
<1>1. isCompact \in BOOLEAN
  BY DEF NvramInv, Laid
<1>2. Laid(Erased, isCompact) /\ StoredIn(Erased) = Store!Nothing
  BY <1>1, ErasedIs
<1>3. mem' = Erased /\ isCompact' = isCompact
  BY DEF AJ_NVRAM_Clear
<1>4. Laid(mem', isCompact') /\ StoredIn(mem') = Store!Nothing
  BY <1>2, <1>3
<1> QED BY <1>4 DEF Leaves, Becomes

\* What is zeroed is the entry's own.
LEMMA SecureDeleteLeaves ==
  ASSUME NvramInv, NEW id \in Ids, SecureDelete(id)
  PROVE  Leaves(mem', isCompact')
<1> DEFINE p == AJ_FindNVEntry(mem, id)
           H == Headers(mem)
           e == WordsOf(mem, H) + 1
           d == Deleted(mem, id)
           n == Filled(d, p, <<Zero, Zero>>)
<1>0. id # INVALID_ID /\ id # INVALID_DATA
  BY NvramAssumption DEF INVALID_ID
<1>1. Tiled(mem, H, e) /\ Unique(mem, H) /\ isCompact \in BOOLEAN
  BY DEF NvramInv, Laid
<1> HIDE DEF e, H
<1>2. CASE p = Null
  <2>1. d = mem
    BY <1>2 DEF Deleted
  <2>2. Delete(id)
    BY <1>2, <2>1 DEF Delete, SecureDelete
  <2> QED BY <2>2, DeleteLeaves
<1>3. CASE p # Null
  <2>1. p \in H /\ IdAt(mem, p) = id
    <3>1. PICK q \in H : IdAt(mem, q) = id
      BY <1>0, <1>1, <1>3, FindIs
    <3> QED BY <1>0, <1>1, <3>1, FindIs
  <2>2. mem' = n /\ CapacityAt(mem, p) >= 2 /\ isCompact' = FALSE
    BY <1>3 DEF SecureDelete, StaysCompact
  <2>3. /\ p \in Nat /\ p \in Block /\ mem \in [Block -> Half \X Half] /\ p \in Kept(mem, H)
        /\ CapacityAt(mem, p) \in Nat
    BY <1>0, <1>1, <2>1, TiledTypes DEF Kept
  <2>4. mem[p] = <<id, CapacityAt(mem, p)>> /\ mem[p] \in Half \X Half
    BY <2>1, <2>3, WordTypes
  <2>5. d = [mem EXCEPT ![p][1] = INVALID_ID]
    BY <1>3 DEF Deleted
  <2> HIDE DEF p
  <2>6. d[p] = <<INVALID_ID, CapacityAt(mem, p)>> /\ \A i \in Block : i # p => d[i] = mem[i]
    BY <2>3, <2>4, <2>5
  <2>7. INVALID_ID \in Half /\ Zero \in Half \X Half
    BY NvramAssumption DEF Half, INVALID_ID, Zero
  <2>8. \A i \in Block : d[i] \in Half \X Half
    <3>1. CapacityAt(mem, p) \in Half
      BY <2>4
    <3> QED BY <2>3, <2>6, <2>7, <3>1
  <2> HIDE DEF d
  <2>9. /\ \A i \in Block : n[i] = IF i - p \in {1, 2} THEN Zero ELSE d[i]
        /\ n = [i \in Block |-> n[i]]
    BY DEF Filled
  <2> HIDE DEF n
  <2>10. n \in [Block -> Half \X Half]
    BY <2>7, <2>8, <2>9
  <2>11. n[p] = <<INVALID_ID, CapacityAt(mem, p)>>
    BY <2>3, <2>6, <2>9
  <2>12. ASSUME NEW i \in Block, i \notin p .. p + CapacityAt(mem, p) PROVE n[i] = mem[i]
    <3>1. i \in Nat /\ i - p \notin {1, 2} /\ i # p
      BY <2>2, <2>3, <2>12 DEF Block
    <3> QED BY <2>6, <2>9, <3>1
  <2>13. Tiled(n, H, e) /\ Unique(n, H)
    BY <1>1, <2>3, <2>10, <2>11, <2>12, DeleteKeeps
  <2>14. StoredIn(n) = Store!Without(StoredIn(mem), IdAt(mem, p))
    BY <1>1, <2>3, <2>10, <2>11, <2>12, DeleteKeeps
  <2>15. Laid(n, FALSE)
    BY <2>13, LaidBy
  <2>16. Laid(mem', isCompact')
    BY <2>2, <2>15
  <2>17. StoredIn(mem') = Store!Without(StoredIn(mem), id)
    BY <2>1, <2>2, <2>14
  <2> QED BY <2>16, <2>17 DEF Leaves, Becomes
<1> QED BY <1>2, <1>3

\* A process that ends inside a Write leaves the old entry deleted, or that and the
\* block compacted, or the new entry made and not filled.
LEMMA StoredInWriteLeaves ==
  ASSUME NvramInv, "compacting" \notin NvramFaults, NEW id \in Ids, NEW contents \in Contents,
         NEW n \in StoredInWrite(id, contents)
  PROVE  Leaves(n, FALSE)
<1> DEFINE capacity == Len(contents)
           deleted  == Deleted(mem, id)
           stays    == StaysCompact(id)
           space    == Space(deleted, stays, capacity)
           flag     == stays \/ MustCompact(deleted, stays, capacity)
           created  == Created(space, id, capacity)
           free     == [i \in DOMAIN contents |-> FF]
           rest     == Store!Without(StoredIn(mem), id)
<1>1. /\ Fits(space, capacity) <=> Store!Used(rest) + (1 + capacity) <= NvramSize
      /\ Fits(space, capacity) => Laid(created, flag) /\ StoredIn(created) = Store!With(rest, id, free)
  <2>1. WriteLaid(mem, stays, id, contents)
    BY WrittenIs, Zenon DEF NvramInv, StaysCompact
  <2> HIDE DEF stays
  <2> QED BY <2>1 DEF WriteLaid
<1>2. Laid(deleted, stays)
  BY DeletedLaid, Zenon DEF NvramInv, StaysCompact
<1>3. StoredIn(deleted) = rest
  BY DeletedLaid, Zenon DEF NvramInv
<1>4. Laid(Compacted(deleted), TRUE) /\ StoredIn(Compacted(deleted)) = rest
  <2> HIDE DEF deleted, stays, rest
  <2> QED BY <1>2, <1>3, CompactedLaid, Zenon
<1>5. StoredInCompaction(deleted) = {Compacted(deleted)}
  BY DEF StoredInCompaction
<1>6. n = deleted \/ n = Compacted(deleted) \/ (Fits(space, capacity) /\ n = created)
  BY <1>5 DEF StoredInWrite
<1>7. Len(free) = capacity
  BY NvramAssumption
<1>8. Wrote(StoredIn(mem), id, free)
        = IF Store!Used(rest) + (1 + Len(free)) <= NvramSize THEN Store!With(rest, id, free) ELSE rest
  BY DEF Wrote, Store!Size
<1>9. Becomes(StoredIn(mem), rest)
  BY DEF Becomes
<1>10. Becomes(StoredIn(mem), Wrote(StoredIn(mem), id, free))
  BY DEF Becomes
<1> HIDE DEF deleted, stays, space, flag, created, free, rest, capacity
<1>11. CASE n = deleted
  <2>1. Laid(n, FALSE) /\ StoredIn(n) = rest
    BY <1>2, <1>3, <1>11, LaidAnyway
  <2> QED BY <1>9, <2>1 DEF Leaves
<1>12. CASE n = Compacted(deleted)
  <2>1. Laid(n, FALSE) /\ StoredIn(n) = rest
    BY <1>4, <1>12, LaidAnyway
  <2> QED BY <1>9, <2>1 DEF Leaves
<1>13. CASE Fits(space, capacity) /\ n = created
  <2>1. Laid(n, FALSE)
    BY <1>1, <1>13, LaidAnyway
  <2>2. StoredIn(n) = Wrote(StoredIn(mem), id, free)
    BY <1>1, <1>7, <1>8, <1>13
  <2> QED BY <1>10, <2>1, <2>2 DEF Leaves
<1> QED BY <1>6, <1>11, <1>12, <1>13

LEMMA CrashLeaves ==
  ASSUME NvramInv, "compacting" \notin NvramFaults, NvramCrash
  PROVE  Leaves(mem', isCompact')
<1>1. isCompact' = FALSE
  BY DEF NvramCrash
<1>2. CASE mem' = mem
  <2>1. Laid(mem, FALSE)
    BY LaidAnyway DEF NvramInv
  <2> QED BY <1>1, <1>2, <2>1 DEF Leaves, Becomes
<1>3. CASE mem' = Erased
  <2>1. Laid(Erased, FALSE) /\ StoredIn(Erased) = Store!Nothing
    BY ErasedIs
  <2> QED BY <1>1, <1>3, <2>1 DEF Leaves, Becomes
<1>4. CASE mem' = Compacted(mem)
  <2>1. Laid(Compacted(mem), TRUE) /\ StoredIn(Compacted(mem)) = StoredIn(mem)
    BY CompactedLaid, Zenon DEF NvramInv
  <2>2. Laid(Compacted(mem), FALSE)
    BY <2>1, LaidAnyway
  <2> QED BY <1>1, <1>4, <2>1, <2>2 DEF Leaves, Becomes
<1>5. ASSUME NEW id \in Ids, NEW contents \in Contents, mem' \in StoredInWrite(id, contents)
      PROVE  Leaves(mem', isCompact')
  BY <1>1, <1>5, StoredInWriteLeaves
<1>6. StoredInCompaction(mem) = {Compacted(mem)}
  BY DEF StoredInCompaction
<1> QED BY <1>2, <1>3, <1>4, <1>5, <1>6 DEF NvramCrash, Emptied

-----------------------------------------------------------------------------
(* The theorems *)

LEMMA NextLeaves ==
  ASSUME NvramInv, "compacting" \notin NvramFaults, [NvramNext]_nvramVars
  PROVE  Leaves(mem', isCompact')
<1>1. ASSUME NEW id \in Ids, NEW contents \in Contents, Write(id, contents) PROVE Leaves(mem', isCompact')
  BY <1>1, WriteLeaves
<1>2. ASSUME NEW id \in Ids, Delete(id) PROVE Leaves(mem', isCompact')
  BY <1>2, DeleteLeaves
<1>3. ASSUME NEW id \in Ids, SecureDelete(id) PROVE Leaves(mem', isCompact')
  BY <1>3, SecureDeleteLeaves
<1>4. ASSUME GetSizeRemaining PROVE Leaves(mem', isCompact')
  BY <1>4, GetSizeRemainingLeaves
<1>5. ASSUME AJ_NVRAM_Clear PROVE Leaves(mem', isCompact')
  BY <1>5, ClearLeaves
<1>6. ASSUME NvramCrash PROVE Leaves(mem', isCompact')
  BY <1>6, CrashLeaves
<1>7. ASSUME UNCHANGED nvramVars PROVE Leaves(mem', isCompact')
  BY <1>7 DEF nvramVars, Leaves, Becomes, NvramInv
<1> QED
  BY <1>1, <1>2, <1>3, <1>4, <1>5, <1>6, <1>7 DEF NvramNext

\* What the block holds changes as the store's entries do.
LEMMA StepIsStores ==
  ASSUME Becomes(StoredIn(mem), StoredIn(mem)')
  PROVE  [Store!Next]_[id \in {IdAt(mem, p) : p \in Live(mem)} |-> EntryOf(id)]
<1> DEFINE es == [id \in {IdAt(mem, p) : p \in Live(mem)} |-> EntryOf(id)]
<1>1. StoredIn(mem) = es /\ StoredIn(mem)' = es'
  BY DEF StoredIn, EntryOf
<1> HIDE DEF es
<1>2. Becomes(es, es')
  BY <1>1
<1> QED
  BY <1>2 DEF es, Becomes, Wrote, Store!Next, Store!Delete, Store!Write, Store!Clear, Store!Crash

LEMMA NvramInvHolds == "compacting" \notin NvramFaults /\ NvramSpec => []NvramInv
<1> SUFFICES ASSUME "compacting" \notin NvramFaults PROVE NvramSpec => []NvramInv
  OBVIOUS
<1>1. NvramInit => NvramInv
  BY ErasedIs DEF NvramInit, NvramInv
<1>2. NvramInv /\ [NvramNext]_nvramVars => NvramInv'
  BY NextLeaves DEF Leaves, NvramInv
<1> QED BY <1>1, <1>2, PTL DEF NvramSpec

\* Whatever is written, deleted, compacted or lost, a walk over the block finds
\* every entry and stops exactly where AJ_NVRAM_Create puts the next one, no two
\* entries have one id, and a block said to be compact has no deleted entry in it
\* (aj_nvram.c), for every size of the block.  A process that ends inside
\* _AJ_CompactNVStorage is left out: it does break this.
THEOREM LayoutOKHolds == "compacting" \notin NvramFaults /\ NvramSpec => []LayoutOK
BY InvLayout, NvramInvHolds, PTL

\* The block is the set of entries that its users see (inc/aj_nvram.h): every call
\* and every end of the process changes the entries as EntryStore says, and a write
\* fails only when the entries alone leave no room, however many were deleted.
THEOREM KeepsEntriesHolds == "compacting" \notin NvramFaults /\ NvramSpec => KeepsEntries
<1> SUFFICES ASSUME "compacting" \notin NvramFaults PROVE NvramSpec => KeepsEntries
  OBVIOUS
<1> DEFINE es == [id \in {IdAt(mem, p) : p \in Live(mem)} |-> EntryOf(id)]
<1>1. NvramInit => Store!Init
  <2> SUFFICES ASSUME NvramInit PROVE Store!Init
    OBVIOUS
  <2>1. StoredIn(mem) = Store!Nothing
    BY ErasedIs DEF NvramInit
  <2>2. StoredIn(mem) = es
    BY DEF StoredIn, EntryOf
  <2> QED BY <2>1, <2>2 DEF Store!Init, es
<1>2. NvramInv /\ [NvramNext]_nvramVars => [Store!Next]_es
  <2> SUFFICES ASSUME NvramInv, [NvramNext]_nvramVars PROVE [Store!Next]_es
    OBVIOUS
  <2>1. Becomes(StoredIn(mem), StoredIn(mem)')
    BY NextLeaves DEF Leaves
  <2> QED BY <2>1, StepIsStores DEF es
<1>3. NvramSpec => []NvramInv
  BY NvramInvHolds
<1> HIDE DEF es
<1> QED BY <1>1, <1>2, <1>3, PTL DEF NvramSpec, KeepsEntries, Store!Spec, es
=============================================================================
