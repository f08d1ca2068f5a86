--------------------------- MODULE PropertyStore ---------------------------
(***************************************************************************)
(* The configurable values of the device: the property store               *)
(* (test/common/PropertyStore.c), the handlers of the Config service that  *)
(* change it (ConfigService.c) and the application's callbacks             *)
(* (test/common/ConfigSample.c), in the build of ACServer: one language,   *)
(* so every field has one runtime value and one NVRAM entry.               *)
(*                                                                         *)
(* A handler is a step; a crash in the midst of a save is a step of its    *)
(* own.  What an entry does when it is written is EntryStore's promise: an *)
(* entry that exists can always be written again, a new one may find no    *)
(* room.                                                                   *)
(***************************************************************************)
EXTENDS Integers

CONSTANTS
  Texts,      \* the strings clients write
  TooLong,    \* those longer than DEVICE_NAME_VALUE_LENGTH
  Supported,  \* languages of propertyStoreDefaultLanguages
  English,    \* DEFAULT_LANGUAGE
  Generated,  \* the device name made of manufacturer, product and machine id
  Empty,      \* ""
  Blank,      \* the 0xFF bytes of an entry created and never written
  Absent,     \* no entry
  Faults      \* a subset of {"room", "crash", "torn", "send"}

ASSUME TextAssumption ==
  /\ TooLong \subseteq Texts /\ Supported \subseteq Texts /\ Generated \in Texts
  /\ English \in Supported
  /\ Empty \notin Texts /\ Blank \notin Texts \cup {Empty}
  /\ Absent \notin Texts \cup {Empty, Blank}
ASSUME FaultAssumption == Faults \subseteq {"room", "crash", "torn", "send"}

VARIABLES
  ram,       \* propertyStoreRuntimeValues, the writable fields
  nv,        \* the entry of each, or Absent
  announce,  \* About's condition
  told,      \* external: what the last announcement said, or Absent
  failed     \* history: the last attempt to announce failed

about == <<announce, told, failed>>
vars  == <<ram, nv, about>>

Fields == {"DeviceName", "DefaultLanguage", "Passcode", "RealmName"}
Values == Texts \cup {Empty, Blank}

\* SaveAll and LoadAll go through the fields in this order.
Order(f) ==
  CASE f = "DeviceName" -> 1 [] f = "DefaultLanguage" -> 2 [] f = "Passcode" -> 3 [] f = "RealmName" -> 4

\* mode7Public and mode0Write.  Any other key of a request is refused, be it
\* private, read-only or unknown: the passcode stands for all of them.
Public == {"DeviceName", "DefaultLanguage"}
Keys   == Public \cup {"Passcode"}

-----------------------------------------------------------------------------
(* The values *)

\* AJSVC_PropertyStore_GetValue, of the announced fields.
Shown(values) ==
  [f \in Public |-> IF f = "DefaultLanguage" /\ values[f] = Empty THEN English ELSE values[f]]

InitMandatoryPropertiesInRAM(values) ==
  [values EXCEPT !["DeviceName"] = IF @ = Empty THEN Generated ELSE @]

\* Mutant of LoadAll: the handle is not looked at.
LoadAllBlindly(values) == nv

\* A field without an entry is left as it is: AJ_NVRAM_Open has no handle to give.
LoadAll(values) == [f \in Fields |-> IF nv[f] # Absent THEN nv[f] ELSE values[f]]

\* PropertyStore_Init in a process that has just started.
Boot ==
  /\ ram' = InitMandatoryPropertiesInRAM(
              [f \in Fields |-> IF nv'[f] # Absent THEN nv'[f] ELSE Empty])
  /\ announce' = TRUE
  /\ UNCHANGED <<told, failed>>

Init ==
  /\ nv = [f \in Fields |-> Absent]
  /\ ram = InitMandatoryPropertiesInRAM([f \in Fields |-> Empty])
  /\ announce = TRUE /\ told = Absent /\ failed = FALSE

-----------------------------------------------------------------------------
(* Saving *)

\* Mutant of SaveAll: no announcement is asked for.
SaveAllQuietly(values) ==
  \E full \in SUBSET {f \in Fields : nv[f] = Absent /\ "room" \in Faults} :
    /\ ram' = values
    /\ nv' = [f \in Fields |-> IF f \in full THEN Absent ELSE values[f]]
    /\ UNCHANGED about

\* Every entry, one after the other; whether each could be is not looked at.
SaveAll(values) ==
  \E full \in SUBSET {f \in Fields : nv[f] = Absent /\ "room" \in Faults} :
    /\ ram' = values
    /\ nv' = [f \in Fields |-> IF f \in full THEN Absent ELSE values[f]]
    /\ announce' = TRUE
    /\ UNCHANGED <<told, failed>>

\* The process ends after `n' of the entries, and starts again.  The next entry
\* may be deleted and not created, or created and not written, by then.
CrashInSaveAll(values) ==
  /\ "crash" \in Faults
  /\ \E n \in 0 .. 4, next \in {"old"} \cup (IF "torn" \in Faults THEN {Absent, Blank} ELSE {}) :
       nv' = [f \in Fields |-> IF Order(f) <= n THEN values[f]
                               ELSE IF Order(f) = n + 1 /\ next # "old" THEN next ELSE nv[f]]
  /\ Boot

Save(values) == SaveAll(values) \/ CrashInSaveAll(values)

-----------------------------------------------------------------------------
(* The Config service *)

\* IsValueValid, then AJSVC_PropertyStore_Update.
Accepts(key, value) ==
  \/ key = "DeviceName" /\ value \notin TooLong \cup {Empty}
  \/ key = "DefaultLanguage" /\ value \in Supported

Updated(items) ==
  [f \in Fields |-> IF f \in DOMAIN items /\ Accepts(f, items[f]) THEN items[f] ELSE ram[f]]

\* All that is read of the request is taken.  That may be only its head, if the
\* rest cannot be unmarshalled, and the reply may never be sent: the values are
\* saved all the same.
UpdateConfigurations(items) ==
  /\ items # <<>> /\ \A key \in DOMAIN items : Accepts(key, items[key])
  /\ Save(Updated(items))

\* Mutant of RejectUpdate: what was taken stays.
RejectUpdateLate(items) ==
  /\ \E key \in DOMAIN items : ~Accepts(key, items[key])
  /\ ram' = Updated(items)
  /\ UNCHANGED <<nv, about>>

\* Answered by an error: what was taken is discarded.
RejectUpdate(items) ==
  /\ \E key \in DOMAIN items : ~Accepts(key, items[key])
  /\ ram' = IF \E key \in DOMAIN items : Accepts(key, items[key])
            THEN LoadAll(Updated(items)) ELSE ram
  /\ UNCHANGED <<nv, about>>

\* Mutant of Cleared: a cleared name stays empty.
ClearedOnly(keys) == [f \in Fields |-> IF f \in keys \cap Public THEN Empty ELSE ram[f]]

\* AJSVC_PropertyStore_Reset, for each key.
Cleared(keys) ==
  LET cleared == [f \in Fields |-> IF f \in keys \cap Public THEN Empty ELSE ram[f]]
  IN IF keys \cap Public = {} THEN ram ELSE InitMandatoryPropertiesInRAM(cleared)

ResetConfigurations(keys) ==
  /\ keys # {} /\ keys \subseteq Public
  /\ Save(Cleared(keys))

RejectReset(keys) ==
  /\ ~(keys \subseteq Public)
  /\ ram' = IF keys \cap Public = {} THEN ram ELSE LoadAll(Cleared(keys))
  /\ UNCHANGED <<nv, about>>

\* One that is too long to encode is refused before anything changes; the
\* application's callback cuts the realm.
SetPasscode(realm, passcode) ==
  Save([ram EXCEPT !["RealmName"] = realm, !["Passcode"] = passcode])

FactoryReset == Save(InitMandatoryPropertiesInRAM([f \in Fields |-> Empty]))

\* Config's Restart, and every other end of the connection: the process goes on.
Restart ==
  /\ announce' = TRUE
  /\ UNCHANGED <<ram, nv, told, failed>>

-----------------------------------------------------------------------------

\* AJ_AboutAnnounce, of AppLoop, with AboutPropGetter's values.  The condition is
\* cleared first.  Then the language in which the values are read may not be
\* found, and the message may find no room or not be sent.
Announce ==
  /\ announce /\ announce' = FALSE
  /\ \/ Shown(ram)["DefaultLanguage"] \in Supported /\ told' = Shown(ram) /\ failed' = FALSE
     \/ /\ Shown(ram)["DefaultLanguage"] \notin Supported \/ "send" \in Faults
        /\ UNCHANGED told /\ failed' = TRUE
  /\ UNCHANGED <<ram, nv>>

\* The process ends between two handlers, and starts again.
Crash ==
  /\ "crash" \in Faults
  /\ UNCHANGED nv
  /\ Boot

\* The entries of a request; a key is in it once.
Requests == UNION {[keys -> Texts \cup {Empty}] : keys \in SUBSET Keys}

Next ==
  \/ \E items \in Requests : UpdateConfigurations(items) \/ RejectUpdate(items)
  \/ \E keys \in SUBSET Keys : ResetConfigurations(keys) \/ RejectReset(keys)
  \/ \E realm \in Texts \cup {Empty}, passcode \in Texts : SetPasscode(realm, passcode)
  \/ FactoryReset \/ Restart \/ Announce \/ Crash

Spec == Init /\ [][Next]_vars

-----------------------------------------------------------------------------
(* Properties *)

AllSaved == \A f \in Fields : nv[f] # Absent

\* The types of the values, in memory and in NVRAM.
TypeOK ==
  /\ ram \in [Fields -> Values]
  /\ nv \in [Fields -> Values \cup {Absent}]
  /\ announce \in BOOLEAN
  /\ told \in [Public -> Values] \cup {Absent} /\ failed \in BOOLEAN

\* Between two requests memory and NVRAM agree on every field that has an entry,
\* whatever requests were refused halfway, saves found no room or were cut off:
\* no restart changes a value that was saved.
RamIsSaved == \A f \in Fields : nv[f] # Absent => ram[f] = nv[f]

\* No entry was torn by a crash between its creation and its writing.
Untorn == \A f \in Fields : nv[f] # Blank

\* An announcement never fails for want of a mandatory value: the device has a
\* name, and its default language, in which About reads the values, is supported
\* (AboutPropGetter, AJSVC_PropertyStore_ReadAll), unless an entry was torn.
Announceable ==
  Untorn => /\ Shown(ram)["DeviceName"] # Empty
            /\ Shown(ram)["DefaultLanguage"] \in Supported

\* When no announcement is due and the last attempt at one did not fail, what it
\* told is still so, on a device whose fields have all been saved: no update,
\* reset, refused request, restart or crash makes it stale in silence.
ToldAgrees == ~announce /\ ~failed /\ AllSaved => told = Shown(ram)

\* "Function called ... when there are changes that warrant sending of a new
\* announcement" (aj_about.h:192), and "Emit an announcement if one has been
\* scheduled" (aj_about.h:88): such a change is due to be told, or has been.
ChangesTold == ~announce /\ AllSaved => told = Shown(ram)

\* "Discard partial successful updates" (ConfigService.c:317): a request that is
\* answered by an error leaves the values as they were.
PartialUpdatesDiscarded ==
  [][(\E items \in Requests : RejectUpdate(items)) => ram' = ram]_vars
=============================================================================
