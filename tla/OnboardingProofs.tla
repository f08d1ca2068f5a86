-------------------------- MODULE OnboardingProofs --------------------------
(***************************************************************************)
(* Proofs about Onboarding, for any credentials, networks, types and       *)
(* retries: what is saved, validated and told to a client, through         *)
(* failures of the radio and of the power.                                 *)
(***************************************************************************)
EXTENDS Onboarding, SequenceTheorems, TLAPS

Entries == {"info", "code"}

Radios == {Idle, "CONNECTING", "CONNECT_OK", "CONNECT_FAILED", "SOFT_AP_UP", "STATION_OK"}

Has(list, entry) == \E i \in 1 .. Len(list) : list[i] = entry

\* What is not saved yet is about to be.
Saved ==
  /\ info = InfoIn(nv) \/ Has(writes, "info")
  /\ pc # "try" => code = CodeIn(nv) \/ Has(writes, "code")
  /\ pc = "try" => Ready /\ attempt.prevCode = CodeIn(nv)

\* Credentials that count as validated are ones a network has taken; without
\* credentials there is no type to fall back through.
Sound(i) ==
  /\ i.pending \/ <<i.cred, i.auth>> \in Accepts
  /\ i.cred = None => i.auth \in {OPEN, ANY}

Validated ==
  /\ Sound(info) /\ Sound(InfoIn(nv))
  /\ pc = "try" /\ info.cred = None => attempt.auth = OPEN

\* A device without credentials, or with what an unfilled entry holds, is in a
\* state that says otherwise only on its way from a restart, or from a routing
\* node that was not found, to the end of a vain attempt.
Truthful ==
  /\ state = "NOT_CONFIGURED" => info.cred = None
  /\ ~fallback =>
       /\ pc \in {"softAP", "apBlocked", "apWait"} => state = "NOT_CONFIGURED"
       /\ info.cred \notin Creds /\ state # "NOT_CONFIGURED" =>
            /\ pc \in {"establish", "idle", "try"}
            /\ wifi \notin {"CONNECT_OK", "STATION_OK", "SOFT_AP_UP"}

Offline == pc = "softAP" => address = FALSE

IInv == TypeOK /\ Saved /\ Validated /\ Truthful /\ Offline

-----------------------------------------------------------------------------
(* The lists of entries to be written *)

\* The first is written, the others stay.
LEMMA HeadOrTail ==
  ASSUME NEW list \in Seq(Entries), list # <<>>
  PROVE  /\ Head(list) \in Entries /\ Tail(list) \in Seq(Entries)
         /\ Len(Tail(list)) = Len(list) - 1 /\ Len(list) \in Nat
         /\ \A entry \in Entries : Has(list, entry) => entry = Head(list) \/ Has(Tail(list), entry)
<1>1. /\ Head(list) \in Entries /\ Tail(list) \in Seq(Entries)
      /\ Len(Tail(list)) = Len(list) - 1 /\ Len(list) \in Nat /\ Head(list) = list[1]
      /\ \A i \in 1 .. Len(Tail(list)) : Tail(list)[i] = list[i + 1]
  BY HeadTailProperties, LenProperties
<1>2. ASSUME NEW entry \in Entries, NEW i \in 1 .. Len(list), list[i] = entry, i # 1
      PROVE  Has(Tail(list), entry)
  <2>1. i - 1 \in 1 .. Len(Tail(list)) /\ Tail(list)[i - 1] = entry
    BY <1>1, <1>2
  <2> QED
    BY <2>1 DEF Has
<1> QED
  BY <1>1, <1>2 DEF Has

LEMMA Joined ==
  ASSUME NEW s \in Seq(Entries), NEW t \in Seq(Entries)
  PROVE  /\ s \o t \in Seq(Entries) /\ Len(s \o t) = Len(s) + Len(t)
         /\ Len(s) \in Nat /\ Len(t) \in Nat
         /\ \A entry \in Entries : Has(s, entry) \/ Has(t, entry) => Has(s \o t, entry)
<1>1. /\ s \o t \in Seq(Entries) /\ Len(s \o t) = Len(s) + Len(t)
      /\ Len(s) \in Nat /\ Len(t) \in Nat
      /\ \A i \in 1 .. Len(s) + Len(t) : (s \o t)[i] = IF i <= Len(s) THEN s[i] ELSE t[i - Len(s)]
  BY ConcatProperties, LenProperties
<1>2. ASSUME NEW entry \in Entries, Has(s, entry)
      PROVE  Has(s \o t, entry)
  BY <1>1, <1>2 DEF Has
<1>3. ASSUME NEW entry \in Entries, Has(t, entry)
      PROVE  Has(s \o t, entry)
  <2>1. PICK i \in 1 .. Len(t) : t[i] = entry
    BY <1>3 DEF Has
  <2>2. Len(s) + i \in 1 .. Len(s \o t) /\ (s \o t)[Len(s) + i] = entry
    BY <1>1, <2>1
  <2> QED
    BY <2>2 DEF Has
<1> QED
  BY <1>1, <1>2, <1>3

LEMMA ShortLists ==
  /\ <<>> \in Seq(Entries) /\ Len(<<>>) = 0
  /\ \A entry \in Entries : <<entry>> \in Seq(Entries) /\ Len(<<entry>>) = 1 /\ Has(<<entry>>, entry)
BY DEF Entries, Has

\* What each operation queues: the entries that differ from what is saved.
\* The same, for operands of bounded length.
LEMMA JoinedShort ==
  ASSUME NEW m \in Nat, NEW n \in Nat,
         NEW s \in Seq(Entries), Len(s) \in 0 .. m, NEW t \in Seq(Entries), Len(t) \in 0 .. n
  PROVE  /\ s \o t \in Seq(Entries) /\ Len(s \o t) \in 0 .. m + n
         /\ Has(s, "info") \/ Has(t, "info") => Has(s \o t, "info")
         /\ Has(s, "code") \/ Has(t, "code") => Has(s \o t, "code")
<1>1. "info" \in Entries /\ "code" \in Entries
  BY DEF Entries
<1>2. /\ s \o t \in Seq(Entries)
      /\ \A entry \in Entries : Has(s, entry) \/ Has(t, entry) => Has(s \o t, entry)
  BY Joined
<1>3. Len(s \o t) = Len(s) + Len(t)
  BY Joined
<1>4. Len(s \o t) \in 0 .. m + n
  BY <1>3
<1> QED
  BY <1>1, <1>2, <1>4

LEMMA Queues ==
  ASSUME NEW c, NEW d, NEW cred, NEW auth
  PROVE  /\ CodeWrites(c) \in Seq(Entries) /\ Len(CodeWrites(c)) \in 0 .. 1
         /\ c # attempt.prevCode => Has(CodeWrites(c), "code")
         /\ InfoWrites(cred, auth) \in Seq(Entries) /\ Len(InfoWrites(cred, auth)) \in 0 .. 1
         /\ Updated(cred, auth) => Has(InfoWrites(cred, auth), "info")
         /\ ClearWrites(c) \in Seq(Entries) /\ Len(ClearWrites(c)) \in 0 .. 2
         /\ Updated(None, OPEN) => Has(ClearWrites(c), "info")
         /\ c # "VALIDATED" => Has(ClearWrites(c), "code")
         /\ ClearWrites(c) \o CodeWrites(d) \in Seq(Entries)
         /\ Len(ClearWrites(c) \o CodeWrites(d)) \in 0 .. 3
         /\ Updated(None, OPEN) => Has(ClearWrites(c) \o CodeWrites(d), "info")
         /\ c # "VALIDATED" \/ d # attempt.prevCode => Has(ClearWrites(c) \o CodeWrites(d), "code")
         /\ <<"info">> \o CodeWrites(d) \in Seq(Entries) /\ Len(<<"info">> \o CodeWrites(d)) \in 0 .. 3
         /\ Has(<<"info">> \o CodeWrites(d), "info")
         /\ d # attempt.prevCode => Has(<<"info">> \o CodeWrites(d), "code")
<1>0. "info" \in Entries /\ "code" \in Entries
  BY DEF Entries
<1>1. \A e : /\ CodeWrites(e) \in Seq(Entries) /\ Len(CodeWrites(e)) \in 0 .. 1
             /\ e # attempt.prevCode => Has(CodeWrites(e), "code")
  BY <1>0, ShortLists DEF CodeWrites
<1>2. \A x, y : /\ InfoWrites(x, y) \in Seq(Entries) /\ Len(InfoWrites(x, y)) \in 0 .. 1
                /\ Updated(x, y) => Has(InfoWrites(x, y), "info")
  BY <1>0, ShortLists DEF InfoWrites
<1> DEFINE clear == IF c = "VALIDATED" THEN <<>> ELSE <<"code">>
           rest  == InfoWrites(None, OPEN)
           last  == CodeWrites(d)
<1>3. /\ clear \in Seq(Entries) /\ Len(clear) \in 0 .. 1
      /\ c # "VALIDATED" => Has(clear, "code")
  BY <1>0, ShortLists
<1>4. /\ rest \in Seq(Entries) /\ Len(rest) \in 0 .. 1 /\ (Updated(None, OPEN) => Has(rest, "info"))
      /\ last \in Seq(Entries) /\ Len(last) \in 0 .. 1 /\ (d # attempt.prevCode => Has(last, "code"))
  BY <1>1, <1>2
<1>5. ClearWrites(c) = clear \o rest
  BY DEF ClearWrites
<1>6. /\ clear \o rest \in Seq(Entries) /\ Len(clear \o rest) \in 0 .. 1 + 1
      /\ Updated(None, OPEN) => Has(clear \o rest, "info")
      /\ c # "VALIDATED" => Has(clear \o rest, "code")
  <2> HIDE DEF clear, rest
  <2> QED
    BY <1>3, <1>4, JoinedShort
<1>7. /\ (clear \o rest) \o last \in Seq(Entries) /\ Len((clear \o rest) \o last) \in 0 .. 2 + 1
      /\ Updated(None, OPEN) => Has((clear \o rest) \o last, "info")
      /\ c # "VALIDATED" \/ d # attempt.prevCode => Has((clear \o rest) \o last, "code")
  <2> DEFINE both == clear \o rest
  <2>1. both \in Seq(Entries) /\ Len(both) \in 0 .. 2
    BY <1>6
  <2> HIDE DEF clear, rest, last, both
  <2>2. /\ both \o last \in Seq(Entries) /\ Len(both \o last) \in 0 .. 2 + 1
        /\ Has(both, "info") \/ Has(last, "info") => Has(both \o last, "info")
        /\ Has(both, "code") \/ Has(last, "code") => Has(both \o last, "code")
    BY <2>1, <1>4, JoinedShort
  <2> QED
    BY <2>2, <1>4, <1>6 DEF both
<1>8. /\ <<"info">> \o last \in Seq(Entries) /\ Len(<<"info">> \o last) \in 0 .. 1 + 1
      /\ Has(<<"info">> \o last, "info")
      /\ d # attempt.prevCode => Has(<<"info">> \o last, "code")
  <2> DEFINE first == <<"info">>
  <2>1. first \in Seq(Entries) /\ Len(first) \in 0 .. 1 /\ Has(first, "info")
    BY <1>0, ShortLists
  <2> HIDE DEF first, last
  <2>2. /\ first \o last \in Seq(Entries) /\ Len(first \o last) \in 0 .. 1 + 1
        /\ Has(first, "info") \/ Has(last, "info") => Has(first \o last, "info")
        /\ Has(first, "code") \/ Has(last, "code") => Has(first \o last, "code")
    BY <2>1, <1>4, JoinedShort
  <2> QED
    BY <2>1, <2>2, <1>4 DEF first
<1> QED
  BY <1>1, <1>2, <1>5, <1>6, <1>7, <1>8

\* The same, of the list that a step leaves.
LEMMA InfoQueued ==
  ASSUME NEW list, NEW cred, NEW auth, list = InfoWrites(cred, auth)
  PROVE  list \in Seq(Entries) /\ Len(list) <= 3 /\ (Updated(cred, auth) => Has(list, "info"))
<1>1. /\ InfoWrites(cred, auth) \in Seq(Entries) /\ Len(InfoWrites(cred, auth)) \in 0 .. 1
      /\ Updated(cred, auth) => Has(InfoWrites(cred, auth), "info")
  BY Queues
<1> QED
  BY <1>1

LEMMA CodeQueued ==
  ASSUME NEW list, NEW c, list = CodeWrites(c)
  PROVE  list \in Seq(Entries) /\ Len(list) <= 3 /\ (attempt.prevCode = c \/ Has(list, "code"))
<1>1. /\ CodeWrites(c) \in Seq(Entries) /\ Len(CodeWrites(c)) \in 0 .. 1
      /\ c # attempt.prevCode => Has(CodeWrites(c), "code")
  BY Queues
<1> QED
  BY <1>1

LEMMA ClearQueued ==
  ASSUME NEW list, NEW c, list = ClearWrites(c)
  PROVE  /\ list \in Seq(Entries) /\ Len(list) <= 3
         /\ Updated(None, OPEN) => Has(list, "info")
         /\ c # "VALIDATED" => Has(list, "code")
<1>1. /\ ClearWrites(c) \in Seq(Entries) /\ Len(ClearWrites(c)) \in 0 .. 2
      /\ Updated(None, OPEN) => Has(ClearWrites(c), "info")
      /\ c # "VALIDATED" => Has(ClearWrites(c), "code")
  BY Queues
<1>2. \A n : n \in 0 .. 2 => n <= 3
  OBVIOUS
<1> QED
  BY <1>1, <1>2, Zenon

LEMMA GiveUpQueued ==
  ASSUME NEW c, NEW d
  PROVE  LET list == ClearWrites(c) \o CodeWrites(d)
         IN /\ list \in Seq(Entries) /\ Len(list) <= 3
            /\ Updated(None, OPEN) => Has(list, "info")
            /\ d # attempt.prevCode => Has(list, "code")
<1>1. /\ ClearWrites(c) \o CodeWrites(d) \in Seq(Entries)
      /\ Len(ClearWrites(c) \o CodeWrites(d)) \in 0 .. 3
      /\ Updated(None, OPEN) => Has(ClearWrites(c) \o CodeWrites(d), "info")
      /\ c # "VALIDATED" \/ d # attempt.prevCode => Has(ClearWrites(c) \o CodeWrites(d), "code")
  BY Queues
<1> QED
  BY <1>1

LEMMA SaveQueued ==
  ASSUME NEW list, NEW d, list = <<"info">> \o CodeWrites(d)
  PROVE  /\ list \in Seq(Entries) /\ Len(list) <= 3
         /\ Has(list, "info") /\ (d = attempt.prevCode \/ Has(list, "code"))
<1>1. /\ <<"info">> \o CodeWrites(d) \in Seq(Entries) /\ Len(<<"info">> \o CodeWrites(d)) \in 0 .. 3
      /\ Has(<<"info">> \o CodeWrites(d), "info")
      /\ d # attempt.prevCode => Has(<<"info">> \o CodeWrites(d), "code")
  BY Queues
<1> QED
  BY <1>1

-----------------------------------------------------------------------------
(* The entries *)

LEMMA EmptyLists ==
  /\ <<>> \in Seq(Infos) /\ <<>> \in Seq(Codes) /\ <<>> \in Seq({"info", "code"})
  /\ Len(<<>>) = 0
OBVIOUS

LEMMA EntryTypes ==
  ASSUME NEW e \in [info : Seq(Infos), code : Seq(Codes)]
  PROVE  /\ InfoIn(e) \in Infos /\ CodeIn(e) \in Codes
         /\ e.info = <<>> => Sound(InfoIn(e))
<1>1. DefaultInfo \in Infos /\ Sound(DefaultInfo)
  BY DEF DefaultInfo, Infos, Sound, ANY, WPA2_AUTO, WPA2_CCMP, WPS, OPEN
<1>2. e.info # <<>> => e.info[1] \in Infos
  <2>1. e.info \in Seq(Infos)
    OBVIOUS
  <2> QED
    BY <2>1, EmptySeq, LenProperties, ElementOfSeq
<1>3. e.code # <<>> => e.code[1] \in Codes
  <2>1. e.code \in Seq(Codes)
    OBVIOUS
  <2> QED
    BY <2>1, EmptySeq, LenProperties, ElementOfSeq
<1>4. "VALIDATED" \in Codes
  BY DEF Codes
<1> QED
  BY <1>1, <1>2, <1>3, <1>4 DEF InfoIn, CodeIn

\* Nothing that a power failure leaves of an entry counts as validated.
LEMMA Torn ==
  ASSUME NEW torn \in {Erased, Unfilled}
  PROVE  torn \in [info : Seq(Infos), code : Seq(Codes)] /\ Sound(InfoIn(torn))
<1>1. /\ DefaultInfo \in Infos /\ Sound(DefaultInfo)
      /\ BlankInfo \in Infos /\ Sound(BlankInfo) /\ Blank \in Codes
  BY OnboardingAssumption
     DEF DefaultInfo, BlankInfo, Infos, Sound, Codes, ANY, WPA2_AUTO, WPS, OPEN
<1>2. <<BlankInfo>> \in Seq(Infos) /\ <<Blank>> \in Seq(Codes)
      /\ <<BlankInfo>> # <<>> /\ <<BlankInfo>>[1] = BlankInfo
  BY <1>1
<1>3. CASE torn = Erased
  BY <1>1, <1>3, EmptyLists DEF Erased, InfoIn
<1>4. CASE torn = Unfilled
  <2>1. torn = [info |-> <<BlankInfo>>, code |-> <<Blank>>]
    BY <1>4 DEF Unfilled
  <2>2. torn.info = <<BlankInfo>> /\ torn.code = <<Blank>>
    BY <2>1
  <2>3. InfoIn(torn) = BlankInfo
    BY <1>2, <2>2 DEF InfoIn
  <2> QED
    BY <1>1, <1>2, <2>1, <2>3
<1> QED
  BY <1>3, <1>4

LEMMA InitIInv == Init => IInv
<1> SUFFICES ASSUME Init PROVE IInv
  OBVIOUS
<1>1. /\ InfoIn(nv) = DefaultInfo /\ CodeIn(nv) = "VALIDATED"
      /\ nv \in [info : Seq(Infos), code : Seq(Codes)]
  BY EmptyLists DEF Init, Erased, InfoIn, CodeIn
<1>2. TypeOK
  <2>1. info \in Infos /\ code \in Codes
    BY <1>1, EntryTypes DEF Init
  <2>2. /\ attempt \in [auth : Protocols, until : Protocols, retries : 0 .. MaxRetries,
                        first : BOOLEAN, prevCode : Codes]
    BY OnboardingAssumption DEF Init, Protocols, OPEN, WPA2_CCMP, WPS, Codes
  <2>3. writes \in Seq({"info", "code"}) /\ Len(writes) <= 3
    BY EmptyLists DEF Init
  <2>4. /\ pc \in Places /\ state \in States /\ up \in BOOLEAN /\ fallback \in BOOLEAN
        /\ address \in BOOLEAN /\ (address => wifi = "CONNECT_OK")
        /\ wifi \in {Idle, "CONNECTING", "CONNECT_OK", "CONNECT_FAILED", "SOFT_AP_UP", "STATION_OK"}
    BY OnboardingAssumption DEF Init, Places, States
  <2> QED
    BY <1>1, <2>1, <2>2, <2>3, <2>4 DEF TypeOK
<1>3. Saved
  BY <1>1 DEF Init, Saved
<1>4. Validated
  BY <1>1 DEF Init, Validated, Sound, DefaultInfo
<1>5. Truthful /\ Offline
  BY DEF Init, Truthful, Offline, DefaultInfo
<1> QED
  BY <1>2, <1>3, <1>4, <1>5 DEF IInv

-----------------------------------------------------------------------------
(* NVRAM and restarts *)

LEMMA WriteKeeps == IInv /\ Write => IInv'
<1> SUFFICES ASSUME IInv, Write PROVE IInv'
  OBVIOUS
<1> USE DEF IInv, Write, NoFault, settings, radio, world, Ready
<1>1. /\ writes \in Seq(Entries) /\ writes # <<>>
      /\ info \in Infos /\ code \in Codes
      /\ nv \in [info : Seq(Infos), code : Seq(Codes)]
  BY DEF TypeOK, Entries
<1>2. /\ Head(writes) \in Entries /\ Tail(writes) \in Seq(Entries)
      /\ Len(Tail(writes)) = Len(writes) - 1 /\ Len(writes) \in Nat
      /\ \A entry \in Entries :
           Has(writes, entry) => entry = Head(writes) \/ Has(Tail(writes), entry)
  BY <1>1, HeadOrTail
<1>3. /\ <<info>> \in Seq(Infos) /\ <<code>> \in Seq(Codes)
      /\ <<info>> # <<>> /\ <<code>> # <<>> /\ <<info>>[1] = info /\ <<code>>[1] = code
  BY <1>1
<1>4. \/ Head(writes) = "info" /\ nv' = [nv EXCEPT !.info = <<info>>]
      \/ Head(writes) = "code" /\ nv' = [nv EXCEPT !.code = <<code>>]
  BY <1>2 DEF Entries
<1>5. /\ nv' \in [info : Seq(Infos), code : Seq(Codes)]
      /\ Head(writes) = "info" => InfoIn(nv') = info /\ CodeIn(nv') = CodeIn(nv)
      /\ Head(writes) = "code" => InfoIn(nv') = InfoIn(nv) /\ CodeIn(nv') = code
  BY <1>1, <1>3, <1>4 DEF InfoIn, CodeIn
<1>6. TypeOK'
  BY <1>2, <1>5 DEF TypeOK, Entries
<1>7. Saved'
  BY <1>2, <1>4, <1>5 DEF Saved, Entries
<1>8. Validated' /\ Truthful' /\ Offline'
  BY <1>4, <1>5 DEF Validated, Sound, Truthful, Offline
<1> QED
  BY <1>6, <1>7, <1>8

\* Whatever is in NVRAM, the program starts from there.
LEMMA StartKeeps ==
  ASSUME IInv, Started(nv'), nv' \in [info : Seq(Infos), code : Seq(Codes)], Sound(InfoIn(nv'))
  PROVE  IInv'
<1>1. InfoIn(nv') \in Infos /\ CodeIn(nv') \in Codes
  BY EntryTypes
<1>2. TypeOK'
  <2>1. writes' \in Seq({"info", "code"}) /\ Len(writes') <= 3
    BY EmptyLists DEF Started
  <2>2. pc' \in Places /\ state' \in States /\ wifi' = Idle /\ address' = FALSE
    BY DEF Started, Places, States
  <2>3. info' \in Infos /\ code' \in Codes
    BY <1>1 DEF Started
  <2> QED
    BY <2>1, <2>2, <2>3 DEF IInv, TypeOK, Started, world
<1>3. Saved' /\ Validated' /\ Truthful' /\ Offline'
  BY DEF IInv, Saved, Validated, Sound, Truthful, Offline, Started, world, Idle
<1> QED
  BY <1>2, <1>3 DEF IInv

LEMMA CrashKeeps == IInv /\ Crash => IInv'
<1> SUFFICES ASSUME IInv, Crash PROVE IInv'
  OBVIOUS
<1>1. /\ nv \in [info : Seq(Infos), code : Seq(Codes)] /\ Sound(InfoIn(nv))
      /\ writes \in Seq(Entries)
  BY DEF IInv, TypeOK, Validated, Entries
<1>2. CASE nv' = nv
  BY <1>1, <1>2, StartKeeps DEF Crash
<1>3. CASE ~Ready /\ nv' = Erased
  BY <1>3, Torn, StartKeeps DEF Crash
<1>4. ASSUME ~Ready, NEW torn \in {Erased, Unfilled},
             nv' = [nv EXCEPT ![Head(writes)] = torn[Head(writes)]]
      PROVE  IInv'
  <2>1. Head(writes) \in Entries
    BY <1>1, <1>4, HeadOrTail DEF Ready
  <2>2. \/ nv' = [nv EXCEPT !.info = torn.info]
        \/ nv' = [nv EXCEPT !.code = torn.code]
    BY <1>4, <2>1 DEF Entries
  <2>3. /\ nv' \in [info : Seq(Infos), code : Seq(Codes)]
        /\ nv'.info \in {nv.info, torn.info}
    BY <1>1, <2>2, Torn
  <2>4. InfoIn(nv') \in {InfoIn(nv), InfoIn(torn)}
    BY <2>3 DEF InfoIn
  <2> QED
    BY <1>1, <2>3, <2>4, Torn, StartKeeps DEF Crash
<1> QED
  BY <1>2, <1>3, <1>4 DEF Crash, Left

LEMMA RebootKeeps == IInv /\ Reboot => IInv'
BY StartKeeps DEF IInv, TypeOK, Validated, Reboot

-----------------------------------------------------------------------------
(* The radio, the world, and the turns of the loop that save nothing *)

\* A step that leaves the credentials, the error and NVRAM alone, and has
\* nothing to do with an attempt, keeps what is saved and what is validated.
LEMMA SavesNothing ==
  ASSUME IInv, UNCHANGED <<info, code, nv, writes>>, pc # "try", pc' # "try"
  PROVE  Saved' /\ Validated'
BY DEF IInv, Saved, Validated, Sound, Ready, Has, InfoIn, CodeIn

\* What such a step may touch keeps its types.
LEMMA TypesKept ==
  ASSUME IInv, UNCHANGED <<info, code, attempt, nv, writes, up, fallback>>,
         pc' \in Places, state' \in States, wifi' \in Radios,
         address' \in BOOLEAN, address' => wifi' = "CONNECT_OK"
  PROVE  TypeOK'
BY DEF IInv, TypeOK, Radios

LEMMA AddressKept ==
  ASSUME IInv,
         \/ address' = address /\ wifi' = wifi
         \/ address' = FALSE
         \/ address' = address /\ wifi # "CONNECT_OK"
  PROVE  address' \in BOOLEAN /\ (address' => wifi' = "CONNECT_OK")
<1>1. address \in BOOLEAN /\ (address => wifi = "CONNECT_OK")
  BY DEF IInv, TypeOK
<1>2. CASE address' = address /\ wifi' = wifi
  BY <1>1, <1>2, Zenon
<1>3. CASE address' = FALSE
  BY <1>3, Zenon
<1>4. CASE address' = address /\ wifi # "CONNECT_OK"
  BY <1>1, <1>4, Zenon
<1> QED
  BY <1>2, <1>3, <1>4

LEMMA EstablishKeeps == IInv /\ Establish => IInv'
<1> SUFFICES ASSUME IInv, Establish PROVE IInv'
  OBVIOUS
<1>1. TypeOK'
  BY TypesKept DEF IInv, TypeOK, Establish, settings, store, radio, world, Places, Radios
<1>2. Saved' /\ Validated'
  BY SavesNothing DEF Establish, settings, store
<1>3. Truthful' /\ Offline'
  BY DEF IInv, Truthful, Offline, Establish, settings, radio, world, IsWiFiConnected
<1> QED
  BY <1>1, <1>2, <1>3 DEF IInv

\* The types an attempt runs through are protocols.
LEMMA FirstType ==
  ASSUME IInv
  PROVE  First \in Protocols /\ Until \in Protocols /\ (info.cred = None => First = OPEN)
BY DEF IInv, TypeOK, Validated, Sound, Infos, First, Until, Protocols, OPEN, WEP, WPA_TKIP,
       WPA_CCMP, WPA2_TKIP, WPA2_CCMP, WPS, ANY, WPA_AUTO, WPA2_AUTO

LEMMA GotoIdleKeeps == IInv /\ GotoIdle => IInv'
<1> SUFFICES ASSUME IInv, GotoIdle PROVE IInv'
  OBVIOUS
<1>1. /\ UNCHANGED <<info, code, state, nv, writes, up, fallback>>
      /\ pc = "idle" /\ Ready /\ wifi' = Idle /\ address' = FALSE
  BY DEF GotoIdle, settings, store, world
<1>2. \/ pc' = "establish" /\ UNCHANGED attempt
      \/ SoftAPNeeded /\ pc' = "softAP" /\ UNCHANGED attempt
      \/ ~SoftAPNeeded /\ StartAttempt
  BY DEF GotoIdle
<1>3. attempt' \in [auth : Protocols, until : Protocols, retries : 0 .. MaxRetries,
                    first : BOOLEAN, prevCode : Codes]
  <2>1. CASE UNCHANGED attempt
    BY <2>1 DEF IInv, TypeOK
  <2>2. CASE StartAttempt
    <3>1. code \in Codes /\ 0 \in 0 .. MaxRetries /\ (state = "NOT_VALIDATED") \in BOOLEAN
      BY OnboardingAssumption DEF IInv, TypeOK
    <3> QED
      BY <2>2, <3>1, FirstType DEF StartAttempt
  <2> QED
    BY <1>2, <2>1, <2>2
<1>4. TypeOK'
  <2>1. pc' \in Places
    BY <1>2 DEF StartAttempt, Places
  <2> QED
    BY <1>1, <1>3, <2>1 DEF IInv, TypeOK
<1>5. Saved' /\ Validated'
  <2>1. CASE pc' # "try"
    BY <1>1, <2>1, SavesNothing
  <2>2. CASE StartAttempt
    BY <1>1, <2>2, FirstType
       DEF IInv, Saved, Validated, Sound, StartAttempt, Ready, Has, InfoIn, CodeIn
  <2> QED
    BY <1>2, <2>1, <2>2
<1>6. Truthful' /\ Offline'
  BY <1>1, <1>2 DEF IInv, Truthful, Offline, SoftAPNeeded, StartAttempt, Idle
<1> QED
  BY <1>4, <1>5, <1>6 DEF IInv

LEMMA SoftAPKeeps == IInv /\ (EnableSoftAP \/ WaitForStation) => IInv'
<1> SUFFICES ASSUME IInv, EnableSoftAP \/ WaitForStation PROVE IInv'
  OBVIOUS
<1>1. CASE EnableSoftAP
  <2>1. TypeOK'
    <3>1. address = FALSE /\ address' = address
      BY <1>1 DEF IInv, Offline, EnableSoftAP
    <3>2. address' \in BOOLEAN /\ (address' => wifi' = "CONNECT_OK")
      BY <3>1, AddressKept
    <3> QED
      BY <1>1, <3>2, TypesKept DEF IInv, TypeOK, EnableSoftAP, settings, store, world, Places, Radios
  <2>2. Saved' /\ Validated'
    BY <1>1, SavesNothing DEF EnableSoftAP, settings, store
  <2>3. Truthful' /\ Offline'
    BY <1>1 DEF IInv, Truthful, Offline, EnableSoftAP, settings, world
  <2> QED
    BY <2>1, <2>2, <2>3 DEF IInv
<1>2. CASE WaitForStation
  <2>1. TypeOK'
    BY <1>2, TypesKept DEF IInv, TypeOK, WaitForStation, SoftAPTimeout, store, radio, world, Places, States, Radios
  <2>2. Saved' /\ Validated'
    BY <1>2, SavesNothing DEF WaitForStation, SoftAPTimeout, store
  <2>3. Truthful' /\ Offline'
    BY <1>2 DEF IInv, Truthful, Offline, WaitForStation, SoftAPTimeout, radio, world
  <2> QED
    BY <2>1, <2>2, <2>3 DEF IInv
<1> QED
  BY <1>1, <1>2

LEMMA FindBusKeeps == IInv /\ FindBusAndConnect => IInv'
<1> SUFFICES ASSUME IInv, FindBusAndConnect PROVE IInv'
  OBVIOUS
<1>1. TypeOK'
  <2>1. /\ pc' \in Places /\ state' \in States /\ wifi' \in Radios
        /\ UNCHANGED <<info, code, attempt, nv, writes, up, fallback>>
    BY DEF IInv, TypeOK, FindBusAndConnect, SwitchToRetry, store, radio, world, Places, States, Radios
  <2>2. UNCHANGED <<wifi, address>> \/ address' = FALSE
    BY DEF FindBusAndConnect, SwitchToRetry, radio
  <2>3. address' \in BOOLEAN /\ (address' => wifi' = "CONNECT_OK")
    BY <2>2, AddressKept
  <2> QED
    BY <2>1, <2>3, TypesKept
<1>2. Saved' /\ Validated'
  BY SavesNothing DEF FindBusAndConnect, SwitchToRetry, store
<1>3. Truthful' /\ Offline'
  BY DEF IInv, Truthful, Offline, FindBusAndConnect, SwitchToRetry, radio, world, Idle
<1> QED
  BY <1>1, <1>2, <1>3 DEF IInv

\* The bus and the network are left without a word to NVRAM.
LEMMA LeavingKeeps ==
  IInv /\ (ConnectWiFiHandler \/ LinkLost \/ RoutingNodeDisconnect) => IInv'
<1> SUFFICES ASSUME IInv, ConnectWiFiHandler \/ LinkLost \/ RoutingNodeDisconnect PROVE IInv'
  OBVIOUS
<1> USE DEF ConnectWiFiHandler, LinkLost, RoutingNodeDisconnect, settings, store, radio, world, NoFault
<1>1. TypeOK'
  <2>1. /\ pc' \in Places /\ state' \in States /\ wifi' \in Radios
        /\ UNCHANGED <<info, code, attempt, nv, writes, up, fallback>>
    BY DEF IInv, TypeOK, Places, Radios
  <2>2. UNCHANGED <<wifi, address>> \/ address' = FALSE
    OBVIOUS
  <2>3. address' \in BOOLEAN /\ (address' => wifi' = "CONNECT_OK")
    BY <2>2, AddressKept
  <2> QED
    BY <2>1, <2>3, TypesKept
<1>2. Saved' /\ Validated'
  BY SavesNothing
<1>3. Truthful' /\ Offline'
  BY DEF IInv, Truthful, Offline, Idle
<1> QED
  BY <1>1, <1>2, <1>3 DEF IInv

LEMMA WorldKeeps ==
  IInv /\ (NetworkChanges \/ NetworkLost \/ StationJoins \/ StationLeaves) => IInv'
<1> SUFFICES ASSUME IInv, NetworkChanges \/ NetworkLost \/ StationJoins \/ StationLeaves PROVE IInv'
  OBVIOUS
<1> USE DEF NetworkChanges, NetworkLost, StationJoins, StationLeaves, settings, store, radio, world
<1>1. TypeOK'
  <2>1. /\ pc' \in Places /\ state' \in States /\ wifi' \in Radios
        /\ UNCHANGED <<info, code, attempt, nv, writes, fallback>> /\ up' \in BOOLEAN
    BY DEF IInv, TypeOK, Places, Radios
  <2>2. \/ UNCHANGED <<wifi, address>> \/ address' = FALSE
        \/ UNCHANGED address /\ wifi # "CONNECT_OK"
    OBVIOUS
  <2>3. address' \in BOOLEAN /\ (address' => wifi' = "CONNECT_OK")
    BY <2>2, AddressKept
  <2> QED
    BY <2>1, <2>3 DEF IInv, TypeOK, Radios
<1>2. Saved' /\ Validated'
  BY DEF IInv, Saved, Validated, Sound, Ready, Has, InfoIn, CodeIn
<1>3. Truthful' /\ Offline'
  BY DEF IInv, Truthful, Offline, Idle
<1> QED
  BY <1>1, <1>2, <1>3 DEF IInv

-----------------------------------------------------------------------------
(* The client's calls *)

LEMMA ConfigureKeeps ==
  ASSUME IInv, NEW cred \in Creds, NEW auth \in AuthTypes, ConfigureWiFi(cred, auth)
  PROVE  IInv'
<1> USE DEF ConfigureWiFi, UpdateInfo, radio, world
<1>1. /\ pc = "bus" /\ Ready /\ cred # None
      /\ UNCHANGED <<pc, code, attempt, nv, wifi, address, up, fallback>>
      /\ writes' = InfoWrites(cred, auth)
  BY OnboardingAssumption
<1>2. /\ writes' \in Seq(Entries) /\ Len(writes') <= 3
      /\ Updated(cred, auth) => Has(writes', "info")
  BY <1>1, InfoQueued
<1>3. /\ Updated(cred, auth) => info' = [cred |-> cred, auth |-> auth, pending |-> TRUE]
                                /\ state' = "NOT_VALIDATED"
      /\ ~Updated(cred, auth) => UNCHANGED <<info, state>>
  OBVIOUS
<1>4. info' \in Infos /\ state' \in States
  <2>1. info \in Infos /\ state \in States /\ auth \in WPA2_AUTO .. WPS
    BY OnboardingAssumption DEF IInv, TypeOK
  <2> QED
    BY <1>3, <2>1 DEF Infos, States
<1>5. TypeOK'
  <2>1. address' \in BOOLEAN /\ (address' => wifi' = "CONNECT_OK")
    BY <1>1, AddressKept
  <2> QED
    BY <1>1, <1>2, <1>4, <2>1 DEF IInv, TypeOK, Entries
<1>6. Saved'
  BY <1>1, <1>2, <1>3 DEF IInv, Saved, Has, Ready, InfoIn, CodeIn
<1>7. Validated'
  BY <1>1, <1>3 DEF IInv, Validated, Sound, InfoIn
<1>8. Truthful' /\ Offline'
  <2>1. info' .cred # None /\ state' # "NOT_CONFIGURED"
    BY <1>1, <1>3 DEF IInv, Truthful, Updated
  <2> QED
    BY <1>1, <2>1 DEF IInv, Truthful, Offline
<1> QED
  BY <1>5, <1>6, <1>7, <1>8 DEF IInv

LEMMA OffboardKeeps ==
  ASSUME IInv, NEW next \in {"leave", "reboot"}, Offboard(next)
  PROVE  IInv'
<1> USE DEF Offboard, ClearInfo, radio, world
<1>1. /\ pc = "bus" /\ Ready /\ pc' = next
      /\ code' = "VALIDATED" /\ state' = "NOT_CONFIGURED"
      /\ UNCHANGED <<attempt, nv, wifi, address, up, fallback>>
      /\ writes' = ClearWrites(code)
  OBVIOUS
<1>2. /\ writes' \in Seq(Entries) /\ Len(writes') <= 3
      /\ Updated(None, OPEN) => Has(writes', "info")
      /\ code # "VALIDATED" => Has(writes', "code")
  BY <1>1, ClearQueued
<1>3. /\ Updated(None, OPEN) => info' = [cred |-> None, auth |-> OPEN, pending |-> TRUE]
      /\ ~Updated(None, OPEN) => info' = info
      /\ info'.cred = None
  BY DEF Updated
<1>4. info' \in Infos
  BY <1>3 DEF IInv, TypeOK, Infos, WPA2_AUTO, WPA2_CCMP, WPS, OPEN
<1>5. TypeOK'
  <2>1. address' \in BOOLEAN /\ (address' => wifi' = "CONNECT_OK")
    BY <1>1, AddressKept
  <2>2. pc' \in Places /\ code' \in Codes /\ state' \in States
    BY <1>1 DEF Places, Codes, States
  <2> QED
    BY <1>1, <1>2, <1>4, <2>1, <2>2 DEF IInv, TypeOK, Entries
<1>6. Saved'
  BY <1>1, <1>2, <1>3 DEF IInv, Saved, Has, Ready, InfoIn, CodeIn
<1>7. Validated'
  BY <1>1, <1>3 DEF IInv, Validated, Sound, InfoIn
<1>8. Truthful' /\ Offline'
  BY <1>1, <1>3 DEF IInv, Truthful, Offline
<1> QED
  BY <1>5, <1>6, <1>7, <1>8 DEF IInv

-----------------------------------------------------------------------------
(* One turn of DoConnectWifi *)

LEMMA ConnectedKeeps ==
  ASSUME IInv, pc = "try", Connected, UNCHANGED <<nv, up, fallback>>
  PROVE  IInv'
<1>1. /\ info.cred \in Creds /\ info.cred # None /\ <<info.cred, attempt.auth>> \in Accepts
      /\ code' = "VALIDATED" /\ state' = "VALIDATED" /\ wifi' = "CONNECT_OK" /\ address' = TRUE
      /\ pc' = "find" /\ attempt' = attempt
      /\ attempt.prevCode = CodeIn(nv) /\ info = InfoIn(nv)
      /\ info \in Infos /\ attempt.auth \in Protocols
  BY OnboardingAssumption DEF IInv, TypeOK, Saved, Ready, Has, Connected, Accepted
<1>2. \/ /\ info' = [info EXCEPT !.auth = attempt.auth, !.pending = FALSE]
         /\ writes' = <<"info">> \o CodeWrites("VALIDATED")
      \/ /\ info' = info /\ info.auth = attempt.auth
         /\ writes' = CodeWrites("VALIDATED")
  BY <1>1 DEF Connected, SaveSuccess
<1>3. /\ writes' \in Seq(Entries) /\ Len(writes') <= 3
      /\ info' = info \/ Has(writes', "info")
      /\ attempt.prevCode = "VALIDATED" \/ Has(writes', "code")
  <2>1. CASE writes' = <<"info">> \o CodeWrites("VALIDATED")
    BY <2>1, SaveQueued
  <2>2. CASE info' = info /\ writes' = CodeWrites("VALIDATED")
    BY <2>2, CodeQueued
  <2> QED
    BY <1>2, <2>1, <2>2
<1>4. /\ info' \in Infos /\ info'.cred = info.cred
      /\ <<info'.cred, info'.auth>> \in Accepts
  <2>1. attempt.auth \in WPA2_AUTO .. WPS
    BY <1>1 DEF Protocols, WPA2_AUTO, OPEN, WPA2_CCMP, WPS
  <2>2. info'.cred = info.cred /\ info'.auth = attempt.auth
    BY <1>1, <1>2 DEF Infos
  <2>3. info' \in Infos
    BY <1>1, <1>2, <2>1 DEF Infos
  <2> QED
    BY <1>1, <2>2, <2>3
<1>5. TypeOK'
  <2>1. pc' \in Places /\ code' \in Codes /\ state' \in States /\ wifi' \in Radios
    BY <1>1 DEF Places, Codes, States, Radios
  <2> QED
    BY <1>1, <1>3, <1>4, <2>1 DEF IInv, TypeOK, Entries, Radios
<1>6. Saved'
  BY <1>1, <1>3 DEF Saved, Has, InfoIn, CodeIn
<1>7. Validated'
  BY <1>1, <1>4 DEF IInv, Validated, Sound, InfoIn
<1>8. Truthful' /\ Offline'
  BY <1>1, <1>4 DEF Truthful, Offline
<1> QED
  BY <1>5, <1>6, <1>7, <1>8 DEF IInv

LEMMA ErrorTypes ==
  ASSUME NEW status \in DOMAIN LastError
  PROVE  /\ LastError[status][1] \in Codes
         /\ StateAfter(status) \in {"ERROR", "RETRY"}
BY DEF LastError, StateAfter, Codes

LEMMA FailsKeeps ==
  ASSUME IInv, pc = "try", NEW status \in DOMAIN LastError, Fails(status),
         wifi' \in Radios, address' = FALSE, info.cred \notin Creds => wifi' # "CONNECT_OK",
         wifi' \notin {"SOFT_AP_UP", "STATION_OK"},
         UNCHANGED <<nv, up, fallback>>
  PROVE  IInv'
<1>1. /\ Ready /\ attempt.prevCode = CodeIn(nv) /\ info = InfoIn(nv)
      /\ info \in Infos
      /\ attempt \in [auth : Protocols, until : Protocols, retries : 0 .. MaxRetries,
                      first : BOOLEAN, prevCode : Codes]
      /\ info.cred = None => attempt.auth = OPEN
  BY DEF IInv, TypeOK, Saved, Validated, Ready, Has
<1>2. LastError[status][1] \in Codes /\ StateAfter(status) \in {"ERROR", "RETRY"}
  BY ErrorTypes
<1>3. CASE ~Exhausted /\ TryAgain(status)
  <2>1. /\ code' = LastError[status][1] /\ state' = StateAfter(status)
        /\ UNCHANGED <<pc, info, writes>>
    BY <1>3 DEF TryAgain
  <2>2. \/ /\ attempt.retries < MaxRetries
           /\ attempt' = [attempt EXCEPT !.retries = @ + 1]
        \/ /\ info.auth < 0 /\ attempt.auth > attempt.until
           /\ attempt' = [attempt EXCEPT !.auth = @ - 1, !.retries = 0]
    BY <1>1, <1>3, OnboardingAssumption
       DEF TryAgain, Exhausted, Infos, Protocols, OPEN, WPA2_CCMP, WPS, WPA2_AUTO
  <2>3. /\ attempt' \in [auth : Protocols, until : Protocols, retries : 0 .. MaxRetries,
                         first : BOOLEAN, prevCode : Codes]
        /\ attempt'.prevCode = attempt.prevCode
        /\ info.cred = None => attempt'.auth = OPEN
    <3>1. CASE attempt.retries < MaxRetries /\ attempt' = [attempt EXCEPT !.retries = @ + 1]
      <4>1. attempt.retries + 1 \in 0 .. MaxRetries
        BY <1>1, <3>1, OnboardingAssumption
      <4> QED
        BY <1>1, <3>1, <4>1
    <3>2. CASE /\ attempt.auth > attempt.until
               /\ attempt' = [attempt EXCEPT !.auth = @ - 1, !.retries = 0]
      <4>1. attempt.auth - 1 \in Protocols /\ 0 \in 0 .. MaxRetries /\ attempt.auth # OPEN
        BY <1>1, <3>2, OnboardingAssumption DEF Protocols, OPEN, WPA2_CCMP, WPS
      <4> QED
        BY <1>1, <3>2, <4>1
    <3> QED
      BY <2>2, <3>1, <3>2
  <2>4. TypeOK'
    BY <1>2, <2>1, <2>3 DEF IInv, TypeOK, States, Radios
  <2>5. Saved' /\ Validated'
    BY <1>1, <2>1, <2>3 DEF IInv, Saved, Validated, Sound, Ready, Has, InfoIn, CodeIn
  <2>6. Truthful' /\ Offline'
    BY <1>2, <2>1 DEF IInv, Truthful, Offline
  <2> QED
    BY <2>4, <2>5, <2>6 DEF IInv
<1>4. ASSUME NEW c \in Codes, NEW s \in {"ERROR", "RETRY"}, GivesUp(c, s), UNCHANGED attempt
      PROVE  IInv'
  <2>1. CASE info.pending
    <3>1. /\ code' = "VALIDATED" /\ state' = "NOT_CONFIGURED" /\ pc' = "establish"
          /\ Updated(None, OPEN) => info' = [cred |-> None, auth |-> OPEN, pending |-> TRUE]
          /\ ~Updated(None, OPEN) => info' = info
          /\ info'.cred = None
          /\ writes' = ClearWrites(c) \o CodeWrites("VALIDATED")
      BY <1>4, <2>1 DEF GivesUp, Updated
    <3>2. /\ writes' \in Seq(Entries) /\ Len(writes') <= 3
          /\ info' = info \/ Has(writes', "info")
          /\ attempt.prevCode = "VALIDATED" \/ Has(writes', "code")
      <4>1. /\ writes' \in Seq(Entries) /\ Len(writes') <= 3
            /\ Updated(None, OPEN) => Has(writes', "info")
            /\ "VALIDATED" # attempt.prevCode => Has(writes', "code")
        <5>1. writes' = ClearWrites(c) \o CodeWrites("VALIDATED")
          BY <3>1
        <5>2. LET list == ClearWrites(c) \o CodeWrites("VALIDATED")
              IN /\ list \in Seq(Entries) /\ Len(list) <= 3
                 /\ Updated(None, OPEN) => Has(list, "info")
                 /\ "VALIDATED" # attempt.prevCode => Has(list, "code")
          BY GiveUpQueued
        <5> QED
          BY <5>1, <5>2
      <4> QED
        BY <3>1, <4>1
    <3>3. info' \in Infos
      <4>1. OPEN \in WPA2_AUTO .. WPS
        BY DEF OPEN, WPA2_AUTO, WPA2_CCMP, WPS
      <4>2. [cred |-> None, auth |-> OPEN, pending |-> TRUE] \in Infos
        BY <4>1 DEF Infos
      <4> QED
        BY <1>1, <3>1, <4>2
    <3>4. TypeOK'
      <4>1. pc' \in Places /\ code' \in Codes /\ state' \in States
        BY <3>1 DEF Places, Codes, States
      <4> QED
        BY <1>4, <3>2, <3>3, <4>1 DEF IInv, TypeOK, Entries, Radios
    <3>5. Saved'
      BY <1>1, <3>1, <3>2 DEF Saved, Has, InfoIn, CodeIn
    <3>6. Validated'
      <4>1. Sound(info)
        BY DEF IInv, Validated
      <4>2. Sound([cred |-> None, auth |-> OPEN, pending |-> TRUE])
        BY DEF Sound
      <4>3. info' = info \/ info' = [cred |-> None, auth |-> OPEN, pending |-> TRUE]
        BY <3>1
      <4>4. Sound(info')
        BY <4>1, <4>2, <4>3
      <4> QED
        BY <3>1, <4>4 DEF IInv, Validated, Sound, InfoIn
    <3>7. Truthful' /\ Offline'
      BY <3>1 DEF Truthful, Offline
    <3> QED
      BY <3>4, <3>5, <3>6, <3>7 DEF IInv
  <2>2. CASE ~info.pending
    <3>1. /\ code' = c /\ state' = s /\ pc' = "idle" /\ info' = info
          /\ writes' = CodeWrites(c)
      BY <1>4, <2>2 DEF GivesUp
    <3>2. /\ writes' \in Seq(Entries) /\ Len(writes') <= 3
          /\ attempt.prevCode = c \/ Has(writes', "code")
      BY <3>1, CodeQueued
    <3>3. info.cred \in Creds
      BY <2>2, OnboardingAssumption DEF IInv, Validated, Sound
    <3>4. TypeOK'
      <4>1. pc' \in Places /\ code' \in Codes /\ state' \in States
        BY <1>4, <3>1 DEF Places, States
      <4> QED
        BY <1>4, <3>1, <3>2, <4>1 DEF IInv, TypeOK, Entries, Radios
    <3>5. Saved'
      BY <1>1, <3>1, <3>2 DEF Saved, Has, InfoIn, CodeIn
    <3>6. Validated'
      BY <1>1, <3>1 DEF IInv, Validated, Sound, InfoIn
    <3>7. Truthful' /\ Offline'
      BY <1>4, <3>1, <3>3 DEF Truthful, Offline
    <3> QED
      BY <3>4, <3>5, <3>6, <3>7 DEF IInv
  <2> QED
    BY <2>1, <2>2
<1>5. "UNSUPPORTED" \in Codes
  BY DEF Codes
<1> QED
  BY <1>2, <1>3, <1>4, <1>5 DEF Fails

LEMMA ConnectKeeps == IInv /\ ConnectWiFi => IInv'
<1> SUFFICES ASSUME IInv, ConnectWiFi PROVE IInv'
  OBVIOUS
<1>1. pc = "try" /\ UNCHANGED <<nv, up, fallback>>
  BY DEF ConnectWiFi, world
<1>2. CASE Connected
  BY <1>1, <1>2, ConnectedKeeps
<1>3. CASE \E result \in Refusals : Fails(result[1]) /\ wifi' = result[2] /\ address' = FALSE
  <2>1. PICK result \in Refusals : Fails(result[1]) /\ wifi' = result[2] /\ address' = FALSE
    BY <1>3
  <2>2. result[2] = "CONNECT_OK" => attempt.auth = WEP
    BY DEF Refusals, Idle
  <2>3. result[1] \in DOMAIN LastError /\ result[2] \in Radios \ {"SOFT_AP_UP", "STATION_OK"}
    BY DEF Refusals, LastError, Radios, Idle
  <2>4. info.cred \notin Creds => wifi' # "CONNECT_OK"
    <3>1. info.cred = Blank => result[2] = Idle
      BY DEF Refusals
    <3>2. info.cred \in Creds \cup {None, Blank}
      BY DEF IInv, TypeOK, Infos
    <3> QED
      BY <1>1, <2>1, <2>2, <3>1, <3>2 DEF IInv, Validated, WEP, OPEN, Idle
  <2> QED
    BY <1>1, <2>1, <2>3, <2>4, FailsKeeps
<1>4. CASE \E result \in Failures :
             Accepted /\ Fails(result[1]) /\ wifi' = result[2] /\ address' = FALSE
  <2>1. PICK result \in Failures :
          Accepted /\ Fails(result[1]) /\ wifi' = result[2] /\ address' = FALSE
    BY <1>4
  <2>2. result[1] \in DOMAIN LastError /\ result[2] \in Radios \ {"SOFT_AP_UP", "STATION_OK"}
    BY DEF Failures, LastError, Radios, Idle
  <2>3. info.cred \in Creds
    BY <2>1, OnboardingAssumption DEF Accepted
  <2> QED
    BY <1>1, <2>1, <2>2, <2>3, FailsKeeps
<1> QED
  BY <1>2, <1>3, <1>4 DEF ConnectWiFi

-----------------------------------------------------------------------------
(* Theorems *)

LEMMA NextKeeps == IInv /\ [Next]_vars => IInv'
<1> SUFFICES ASSUME IInv, [Next]_vars PROVE IInv'
  OBVIOUS
<1>1. CASE Loop
  BY <1>1, WriteKeeps, EstablishKeeps, GotoIdleKeeps, SoftAPKeeps, ConnectKeeps, FindBusKeeps,
     LeavingKeeps, RebootKeeps DEF Loop
<1>2. CASE Client
  BY <1>2, ConfigureKeeps, OffboardKeeps, LeavingKeeps DEF Client
<1>3. CASE LinkLost \/ Crash \/ NetworkChanges \/ NetworkLost \/ StationJoins \/ StationLeaves
  BY <1>3, LeavingKeeps, CrashKeeps, WorldKeeps
<1>4. CASE UNCHANGED vars
  <2>1. UNCHANGED <<pc, info, code, state, attempt, nv, writes, wifi, address, up, fallback>>
    BY <1>4 DEF vars, settings, store, radio, world
  <2>2. address' \in BOOLEAN /\ (address' => wifi' = "CONNECT_OK")
    BY <2>1, AddressKept
  <2>3. TypeOK'
    BY <2>1, <2>2 DEF IInv, TypeOK
  <2> QED
    BY <2>1, <2>3 DEF IInv, Saved, Validated, Sound, Truthful, Offline, Ready, Has, InfoIn, CodeIn
<1> QED
  BY <1>1, <1>2, <1>3, <1>4 DEF Next

LEMMA Inductive == Spec => []IInv
BY InitIInv, NextKeeps, PTL DEF Spec

\* The variables keep their types, and no more than three entries ever wait to
\* be written (OnboardingManager.c).
THEOREM TypeOKHolds == Spec => []TypeOK
<1>1. IInv => TypeOK
  BY DEF IInv
<1> QED
  BY <1>1, Inductive, PTL

\* What is saved is what the device goes by, validated credentials have been
\* taken by a network, and a client is told right whether there are any: through
\* every failure of the radio, DHCP and discovery, and a power failure between
\* any two writes (AJOBS_Start, DoConnectWifi, AJOBS_ClearInfo).
THEOREM CredentialsAgreeHolds == Spec => []CredentialsAgree
<1>1. IInv => CredentialsAgree
  <2> SUFFICES ASSUME IInv PROVE CredentialsAgree
    OBVIOUS
  <2>1. ~fallback => StateTruthful
    BY OnboardingAssumption DEF IInv, Truthful, StateTruthful
  <2>2. (Ready => info = InfoIn(nv)) /\ (Ready /\ pc # "try" => code = CodeIn(nv))
    BY DEF IInv, Saved, Ready, Has
  <2>3. \A i \in {info, InfoIn(nv)} : i.pending \/ <<i.cred, i.auth>> \in Accepts
    BY DEF IInv, Validated, Sound
  <2> QED
    BY <2>1, <2>2, <2>3 DEF CredentialsAgree
<1> QED
  BY <1>1, Inductive, PTL
=============================================================================
