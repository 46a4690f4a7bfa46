--------------------------- MODULE Session_proofs ---------------------------
(***************************************************************************)
(* The invariants of Session, for any set of presses.  Four facts are      *)
(* added to the properties to make them inductive: without a process       *)
(* nothing is awaited, the saved presses are those with a row, a press     *)
(* whose answer was sent has an account, and the photo's sheet and picker  *)
(* are over the profile.                                                   *)
(***************************************************************************)
EXTENDS Session, TLAPS

NothingAwaited ==
  app # "on" => /\ screen = "none" /\ \A l \in Loader : load[l] = "idle"
                /\ \A p \in Press : request[p] \notin {"uploading", "sent", "answered"}
SavedAreStored == \A p \in Press : request[p] = "saved" <=> p \in Stored
AnsweredAreMade == \A p \in Press : request[p] \in {"answered", "saved", "cut"} => p \in accounts
PickerOverProfile == picking => screen = "profile"

People == SavedAreStored /\ AnsweredAreMade /\ AccountsAreStored
IInv == TypeOK /\ NothingAwaited /\ People /\ NeverAskedAgain /\ MenuAwaitsItsUser
        /\ TouchesAreOwed /\ PickerOverProfile

-----------------------------------------------------------------------------
LEMMA InitIInv == Init => IInv
<1> SUFFICES ASSUME Init PROVE IInv OBVIOUS
<1>1. TypeOK
  <2>1. rows \in Seq(Press) /\ accounts \subseteq Press BY DEF Init
  <2>2. load \in [Loader -> Loads] /\ request \in [Press -> Fates]
    BY DEF Init, Loads, Fates
  <2>3. app \in {"off"} /\ screen \in {"none"} /\ ignoring \in Nat
        /\ codes \in BOOLEAN /\ settingsOpen \in BOOLEAN
        /\ picking \in BOOLEAN /\ missed \in BOOLEAN
    BY DEF Init
  <2>4. QED BY <2>1, <2>2, <2>3 DEF TypeOK
<1>2. NothingAwaited BY DEF Init, NothingAwaited
<1>3. Stored = {} BY DEF Init, Stored
<1>4. People
  BY <1>3 DEF Init, People, SavedAreStored, AnsweredAreMade, AccountsAreStored
<1>5. NeverAskedAgain /\ MenuAwaitsItsUser /\ TouchesAreOwed /\ PickerOverProfile
  BY DEF Init, NeverAskedAgain, MenuAwaitsItsUser, TouchesAreOwed, PickerOverProfile, Entry
<1>6. QED BY <1>1, <1>2, <1>4, <1>5 DEF IInv

LEMMA EndKeeps ==
  ASSUME NEW how \in {"off"} \cup Traps, IInv, app = "on", ProcessEnds(how)
  PROVE  IInv'
<1>1. how # "on" BY DEF Traps
<1>2. \A p \in Press : /\ request'[p] \in Fates
                       /\ request'[p] \notin {"uploading", "sent", "answered"}
                       /\ request'[p] = "saved" <=> request[p] = "saved"
                       /\ request'[p] = "cut" => request[p] \in {"answered", "cut"}
                       /\ request[p] \in {"answered", "cut"} => request'[p] = "cut"
  <2>1. \A p \in Press : request[p] \in Fates BY DEF IInv, TypeOK
  <2>2. QED BY <2>1 DEF ProcessEnds, Fates
<1>3. request' \in [Press -> Fates] BY <1>2 DEF ProcessEnds
<1>4. TypeOK' BY <1>3 DEF IInv, TypeOK, ProcessEnds, Loads
<1>5. NothingAwaited' BY <1>1, <1>2 DEF NothingAwaited, ProcessEnds
<1>6. Stored' = Stored BY DEF Stored, ProcessEnds
<1>7. People'
  <2>1. SavedAreStored' BY <1>2, <1>6 DEF IInv, People, SavedAreStored
  <2>2. AnsweredAreMade' BY <1>2 DEF IInv, People, AnsweredAreMade, ProcessEnds
  <2>3. AccountsAreStored'
    BY <1>2, <1>6 DEF IInv, TypeOK, People, AccountsAreStored, ProcessEnds
  <2>4. QED BY <2>1, <2>2, <2>3 DEF People
<1>8. NeverAskedAgain' /\ MenuAwaitsItsUser' /\ PickerOverProfile'
  BY DEF NeverAskedAgain, MenuAwaitsItsUser, PickerOverProfile, ProcessEnds, Entry
<1>9. TouchesAreOwed' BY DEF TouchesAreOwed, ProcessEnds
<1>10. QED BY <1>4, <1>5, <1>7, <1>8, <1>9 DEF IInv

\* A step of the user or of an answer that concerns an indicator only: nobody's
\* load becomes one load, or one load goes on, or it ends.
LEMMA IndicatorKeeps ==
  ASSUME IInv, app = "on", NEW l \in Loader, NEW phase \in Loads \ {"idle"},
         UNCHANGED <<app, photo, device, accounts>>, codes' \in BOOLEAN,
         settingsOpen' \in BOOLEAN,
         \/ screen' = screen
         \/ screen = "initial" /\ screen' = "phone",
         \/ ignoring = 0 /\ Starts(l, phase)
         \/ load[l] # "idle" /\ (Goes(l, phase) \/ Stops(l))
  PROVE  IInv'
<1>0. load \in [Loader -> Loads] /\ ignoring \in Nat BY DEF IInv, TypeOK
<1>1. TouchesAreOwed'
  <2>1. CASE ignoring = 0 /\ Starts(l, phase)
    <3>1. \A k \in Loader : load[k] = "idle" BY <2>1 DEF IInv, TouchesAreOwed
    <3>2. /\ load'[l] = phase /\ ignoring' = 1
          /\ \A k \in Loader : k # l => load'[k] = "idle"
      BY <1>0, <2>1, <3>1 DEF Starts
    <3>3. QED BY <3>2 DEF TouchesAreOwed
  <2>2. CASE load[l] # "idle" /\ Goes(l, phase)
    <3>1. ignoring = 1 /\ \A k \in Loader : k # l => load[k] = "idle"
      BY <2>2 DEF IInv, TouchesAreOwed
    <3>2. /\ load'[l] = phase /\ ignoring' = 1
          /\ \A k \in Loader : k # l => load'[k] = "idle"
      BY <1>0, <2>2, <3>1 DEF Goes
    <3>3. QED BY <3>2 DEF TouchesAreOwed
  <2>3. CASE load[l] # "idle" /\ Stops(l)
    <3>1. ignoring = 1 /\ \A k \in Loader : k # l => load[k] = "idle"
      BY <2>3 DEF IInv, TouchesAreOwed
    <3>2. ignoring' = 0 /\ \A k \in Loader : load'[k] = "idle"
      BY <1>0, <2>3, <3>1 DEF Stops
    <3>3. QED BY <3>2 DEF TouchesAreOwed
  <2>4. QED BY <2>1, <2>2, <2>3
<1>2. load' \in [Loader -> Loads]
  BY <1>0 DEF Starts, Goes, Stops, Loads
<1>3. ignoring' \in Nat BY <1>1 DEF TouchesAreOwed
<1>4. screen' \in Entry \cup {"none", "menu"} BY DEF IInv, TypeOK, Entry
<1>5. TypeOK' BY <1>2, <1>3, <1>4 DEF IInv, TypeOK, device, photo
<1>6. NothingAwaited' BY DEF NothingAwaited
<1>7. Stored' = Stored BY DEF Stored, device
<1>8. People'
  BY <1>7 DEF IInv, People, SavedAreStored, AnsweredAreMade, AccountsAreStored, device
<1>9. NeverAskedAgain' /\ MenuAwaitsItsUser' /\ PickerOverProfile'
  BY DEF IInv, NeverAskedAgain, MenuAwaitsItsUser, PickerOverProfile, Entry, device, photo
<1>10. QED BY <1>1, <1>5, <1>6, <1>8, <1>9 DEF IInv

\* A step between screens, with the indicator left alone.
LEMMA ScreenKeeps ==
  ASSUME IInv, UNCHANGED <<codes, indicator, device, accounts>>, app' = "on",
         settingsOpen' \in BOOLEAN, screen' \in Entry \cup {"menu"},
         picking' \in BOOLEAN, picking' => screen' = "profile", UNCHANGED missed,
         screen' \in Entry =>
           \/ rows = << >> /\ \A p \in Press : request[p] \notin {"sent", "answered", "saved"}
           \/ screen = "profile" /\ screen' = screen,
         screen' = "menu" => screen = "menu" \/ rows # << >>
  PROVE  IInv'
<1>1. TypeOK' BY DEF IInv, TypeOK, indicator, device
<1>2. NothingAwaited' BY DEF NothingAwaited
<1>3. Stored' = Stored BY DEF Stored, device
<1>4. People'
  BY <1>3 DEF IInv, People, SavedAreStored, AnsweredAreMade, AccountsAreStored, device
<1>5. NeverAskedAgain' /\ MenuAwaitsItsUser' /\ PickerOverProfile'
  BY DEF IInv, NeverAskedAgain, MenuAwaitsItsUser, PickerOverProfile, Entry, device
<1>6. TouchesAreOwed' BY DEF IInv, TouchesAreOwed, indicator
<1>7. QED BY <1>1, <1>2, <1>4, <1>5, <1>6 DEF IInv
-----------------------------------------------------------------------------
LEMMA LaunchKeeps == ASSUME IInv, Launch PROVE IInv'
<1>1. rows = << >> => Stored = {} BY DEF Stored
<1>2. rows = << >> => \A p \in Press : request[p] \notin {"sent", "answered", "saved"}
  BY <1>1 DEF IInv, NothingAwaited, People, SavedAreStored, Launch
<1>3. screen' = IF rows = << >> THEN "initial" ELSE "menu" BY DEF Launch
<1>4. settingsOpen' \in BOOLEAN BY DEF IInv, TypeOK, Launch
<1>5. picking = FALSE /\ UNCHANGED photo
  BY DEF IInv, TypeOK, NothingAwaited, PickerOverProfile, Launch
<1>6. QED BY <1>2, <1>3, <1>4, <1>5, ScreenKeeps DEF Launch, Entry, photo

LEMMA UserKeeps == ASSUME IInv, User PROVE IInv'
<1>0. TypeOK BY DEF IInv
<1>1. CASE StartMessaging
  <2>1. "get" \in Loads \ {"idle"} /\ "phones" \in Loader BY DEF Loads, Loader
  <2>2. QED BY <1>0, <1>1, <2>1, IndicatorKeeps DEF StartMessaging, Touches, Entry, TypeOK
<1>2. CASE NextPressed
  <2>1. CASE codes
    <3>1. screen = "phone" /\ screen' = "profile" /\ UNCHANGED photo
      BY <1>2, <2>1 DEF NextPressed, Touches
    <3>2. rows = << >> /\ \A p \in Press : request[p] \notin {"sent", "answered", "saved"}
      BY <3>1 DEF IInv, NeverAskedAgain, Entry
    <3>3. QED BY <1>0, <1>2, <2>1, <3>1, <3>2, ScreenKeeps
         DEF NextPressed, Touches, Entry, TypeOK, photo
  <2>2. CASE ~codes
    <3>1. app = "on" /\ ProcessEnds("noCode") BY <1>2, <2>2 DEF NextPressed, Touches
    <3>2. QED BY <3>1, EndKeeps DEF Traps
  <2>3. QED BY <2>1, <2>2
<1>3. CASE ReopenMenu
  <2>1. /\ screen = "menu" /\ screen' = "menu" /\ app' = "on" /\ settingsOpen' = FALSE
        /\ UNCHANGED photo
    BY <1>3 DEF ReopenMenu, Touches
  <2>2. picking' = FALSE BY <1>0, <2>1 DEF IInv, PickerOverProfile, TypeOK, photo
  <2>3. QED BY <1>3, <2>1, <2>2, ScreenKeeps DEF ReopenMenu, Entry, photo
<1>4. CASE SyncPressed
  <2>1. CASE rows = << >>
    <3>1. app = "on" /\ ProcessEnds("noUser") BY <1>4, <2>1 DEF SyncPressed, Touches
    <3>2. QED BY <3>1, EndKeeps DEF Traps
  <2>2. CASE rows # << >>
    <3>1. "get" \in Loads \ {"idle"} /\ "sync" \in Loader BY DEF Loads, Loader
    <3>2. QED BY <1>0, <1>4, <2>2, <3>1, IndicatorKeeps
         DEF SyncPressed, Touches, screens, TypeOK
  <2>3. QED BY <2>1, <2>2
<1>5. CASE OpenSettings
  <2>1. /\ "get" \in Loads \ {"idle"} /\ "getNobody" \in Loads \ {"idle"}
        /\ "settings" \in Loader
    BY DEF Loads, Loader
  <2>2. PICK phase \in Loads \ {"idle"} : Starts("settings", phase)
    BY <1>5, <2>1 DEF OpenSettings
  <2>3. QED BY <1>0, <1>5, <2>1, <2>2, IndicatorKeeps DEF OpenSettings, Touches, TypeOK
<1>6. CASE LanguagePressed
  <2>1. "put" \in Loads \ {"idle"} /\ "language" \in Loader BY DEF Loads, Loader
  <2>2. QED BY <1>0, <1>6, <2>1, IndicatorKeeps
       DEF LanguagePressed, Touches, screens, TypeOK
<1>7. CASE OpenPicker \/ ClosePicker
  <2>1. /\ app' = "on" /\ screen = "profile" /\ screen' = screen /\ picking' \in BOOLEAN
        /\ UNCHANGED <<codes, settingsOpen, missed, indicator, device, accounts>>
    BY <1>7 DEF OpenPicker, ClosePicker, Touches
  <2>2. QED BY <1>0, <2>1, ScreenKeeps DEF Entry, TypeOK
<1>8. QED BY <1>1, <1>2, <1>3, <1>4, <1>5, <1>6, <1>7 DEF User

LEMMA AnswersKeep == ASSUME IInv, Answers PROVE IInv'
<1>0. TypeOK BY DEF IInv
<1>1. /\ Loader = {"phones", "sync", "settings", "language"}
      /\ {"get", "photo", "lost"} \subseteq Loads \ {"idle"}
  BY DEF Loads, Loader
\* What the answers have in common: an awaited load stops, goes on, or traps.
<1>2. ASSUME NEW l \in Loader, app = "on", load[l] # "idle",
             UNCHANGED <<app, screen, settingsOpen, photo, device, accounts>>,
             codes' \in BOOLEAN,
             \/ Stops(l)
             \/ \E phase \in {"get", "photo", "lost"} : Goes(l, phase)
      PROVE  IInv'
  <2>1. CASE Stops(l)
    <3>1. "lost" \in Loads \ {"idle"} BY <1>1
    <3>2. QED BY <1>0, <1>2, <2>1, <3>1, IndicatorKeeps DEF TypeOK
  <2>2. CASE \E phase \in {"get", "photo", "lost"} : Goes(l, phase)
    <3>1. PICK phase \in Loads \ {"idle"} : Goes(l, phase) BY <1>1, <2>2
    <3>2. QED BY <1>0, <1>2, <3>1, IndicatorKeeps DEF TypeOK
  <2>3. QED BY <1>2, <2>1, <2>2
<1>3. ASSUME NEW how \in Traps, app = "on", ProcessEnds(how) PROVE IInv'
  BY <1>3, EndKeeps
<1>4. CASE PhonesAnswered
  BY <1>1, <1>2, <1>4 DEF PhonesAnswered, Awaits
<1>5. CASE PhonesNotAList
  BY <1>3, <1>5 DEF PhonesNotAList, Awaits, Traps
<1>6. CASE SyncAnswered
  <2>1. app = "on" /\ load["sync"] # "idle" BY <1>6 DEF SyncAnswered, Awaits
  <2>2. CASE ProcessEnds("notFriends") BY <1>3, <2>1, <2>2 DEF Traps
  <2>3. CASE (Stops("sync") \/ Lost("sync")) /\ UNCHANGED <<screens, device, accounts>>
    <3>1. codes' \in BOOLEAN BY <1>0, <2>3 DEF screens, TypeOK
    <3>2. QED BY <1>1, <1>2, <2>1, <2>3, <3>1 DEF screens, Lost
  <2>4. QED BY <1>6, <2>2, <2>3 DEF SyncAnswered
<1>7. CASE SettingsAnswered
  <2>1. app = "on" /\ load["settings"] # "idle" BY <1>7 DEF SettingsAnswered, Awaits
  <2>2. CASE ProcessEnds("noSettings") BY <1>3, <2>1, <2>2 DEF Traps
  <2>3. CASE Goes("settings", "photo") /\ UNCHANGED <<screens, device, accounts>>
    <3>1. codes' \in BOOLEAN BY <1>0, <2>3 DEF screens, TypeOK
    <3>2. QED BY <1>1, <1>2, <2>1, <2>3, <3>1 DEF screens
  <2>4. QED BY <1>7, <2>2, <2>3 DEF SettingsAnswered
<1>8. CASE PhotoEnds
  <2>1. app = "on" /\ load["settings"] # "idle" BY <1>8 DEF PhotoEnds, Awaits
  <2>2. codes' \in BOOLEAN BY <1>0, <1>8 DEF PhotoEnds, screens, TypeOK
  <2>3. QED BY <1>1, <1>2, <1>8, <2>1, <2>2 DEF PhotoEnds, screens, Lost
<1>9. CASE PutAnswered
  <2>1. app = "on" /\ load["language"] # "idle" BY <1>9 DEF PutAnswered, Awaits
  <2>2. codes' \in BOOLEAN BY <1>0, <1>9 DEF PutAnswered, screens, TypeOK
  <2>3. QED BY <1>1, <1>2, <1>9, <2>1, <2>2 DEF PutAnswered, screens, Lost
<1>10. CASE LanguageAnswered
  <2>1. app = "on" /\ load["language"] # "idle" BY <1>10 DEF LanguageAnswered, Awaits
  <2>2. CASE ProcessEnds("notFriends") BY <1>3, <2>1, <2>2 DEF Traps
  <2>3. CASE Stops("language") /\ UNCHANGED <<screens, device, accounts>>
    <3>1. codes' \in BOOLEAN BY <1>0, <2>3 DEF screens, TypeOK
    <3>2. QED BY <1>1, <1>2, <2>1, <2>3, <3>1 DEF screens
  <2>4. QED BY <1>10, <2>2, <2>3 DEF LanguageAnswered
<1>11. QED BY <1>4, <1>5, <1>6, <1>7, <1>8, <1>9, <1>10 DEF Answers
-----------------------------------------------------------------------------
\* A press moves on and makes neither a row nor an account.
LEMMA PressKeeps ==
  ASSUME IInv, app = "on", NEW p \in Press, NEW fate \in {"uploading", "failed", "sent"},
         request[p] \in {"none", "uploading"},
         request' = [request EXCEPT ![p] = fate],
         UNCHANGED <<app, codes, settingsOpen, picking, indicator, rows, accounts>>,
         \/ screen' = screen /\ missed' = missed /\ fate # "sent"
         \/ screen' = "menu" /\ missed' = missed /\ fate = "sent" /\ ~picking
         \/ screen' = screen /\ missed' = TRUE /\ picking
  PROVE  IInv'
<1>0. TypeOK BY DEF IInv
<1>1. /\ request'[p] = fate
      /\ \A q \in Press : q # p => request'[q] = request[q]
  BY <1>0 DEF TypeOK
<1>2. TypeOK' BY <1>0 DEF TypeOK, indicator, Fates
<1>3. NothingAwaited' BY DEF NothingAwaited
<1>4. Stored' = Stored BY DEF Stored
<1>5. p \notin Stored BY DEF IInv, People, SavedAreStored
<1>6. SavedAreStored' BY <1>1, <1>4, <1>5 DEF IInv, People, SavedAreStored
<1>7. AnsweredAreMade' BY <1>1 DEF IInv, People, AnsweredAreMade
<1>8. AccountsAreStored'
  <2>1. p \notin accounts \ Stored BY DEF IInv, People, AccountsAreStored
  <2>2. \A q \in accounts \ Stored : request'[q] \in {"answered", "cut"}
    BY <1>0, <1>1, <2>1 DEF IInv, People, AccountsAreStored, TypeOK
  <2>3. QED BY <1>4, <2>2 DEF IInv, People, AccountsAreStored
<1>9. NeverAskedAgain' /\ MenuAwaitsItsUser' /\ PickerOverProfile'
  <2>1. NeverAskedAgain'
    <3>1. CASE screen' = "menu" BY <3>1 DEF NeverAskedAgain, Entry
    <3>2. CASE screen' = screen /\ missed' = missed /\ fate # "sent"
      BY <1>1, <3>2 DEF IInv, NeverAskedAgain, Entry
    <3>3. CASE screen' = screen /\ missed' = TRUE /\ picking
      BY <3>3 DEF IInv, NeverAskedAgain, PickerOverProfile, Entry
    <3>4. QED BY <3>1, <3>2, <3>3
  <2>0. PickerOverProfile' BY DEF IInv, PickerOverProfile
  <2>2. \A q \in Press : request[q] \in {"sent", "answered"} => request'[q] = request[q]
    BY <1>1
  <2>3. CASE screen' = screen
    <3>1. screen = "menu" /\ rows = << >> =>
            \E q \in Press : request'[q] \in {"sent", "answered"}
      BY <2>2 DEF IInv, MenuAwaitsItsUser
    <3>2. QED BY <2>0, <2>1, <2>3, <3>1 DEF MenuAwaitsItsUser
  <2>4. CASE fate = "sent"
    <3>1. request'[p] = "sent" BY <1>1, <2>4
    <3>2. QED BY <2>0, <2>1, <3>1 DEF MenuAwaitsItsUser
  <2>5. QED BY <2>0, <2>1, <2>3, <2>4
<1>10. TouchesAreOwed' BY DEF IInv, TouchesAreOwed, indicator
<1>11. QED BY <1>2, <1>3, <1>6, <1>7, <1>8, <1>9, <1>10 DEF IInv, People

LEMMA ServerKeeps ==
  ASSUME IInv, NEW p \in Press, ServerAddAccount(p) PROVE IInv'
<1>0. TypeOK BY DEF IInv
<1>1. PICK fate \in {"answered", "cut"} :
        /\ request' = [request EXCEPT ![p] = fate]
        /\ fate = "answered" <=> request[p] = "sent"
  BY <1>0 DEF ServerAddAccount, TypeOK
<1>2. /\ request'[p] = fate
      /\ \A q \in Press : q # p => request'[q] = request[q]
  BY <1>0, <1>1 DEF TypeOK
<1>3. /\ request[p] \in {"sent", "orphan"} /\ accounts' = accounts \cup {p}
      /\ UNCHANGED <<app, screen, codes, settingsOpen, picking, missed, ignoring, load, rows>>
  BY DEF ServerAddAccount, screens, photo, indicator
<1>4. TypeOK' BY <1>0, <1>1, <1>3 DEF TypeOK, Fates
<1>5. NothingAwaited' BY <1>1, <1>2, <1>3 DEF IInv, NothingAwaited
<1>6. Stored' = Stored BY <1>3 DEF Stored
<1>7. p \notin Stored BY <1>3 DEF IInv, People, SavedAreStored
<1>8. SavedAreStored' BY <1>2, <1>6, <1>7 DEF IInv, People, SavedAreStored
<1>9. AnsweredAreMade' BY <1>2, <1>3 DEF IInv, People, AnsweredAreMade
<1>10. AccountsAreStored'
  <2>1. \A q \in accounts' \ Stored : request'[q] \in {"answered", "cut"}
    BY <1>0, <1>2, <1>3 DEF IInv, People, AccountsAreStored, TypeOK
  <2>2. QED BY <1>3, <1>6, <2>1 DEF IInv, People, AccountsAreStored
<1>11. NeverAskedAgain' /\ MenuAwaitsItsUser' /\ PickerOverProfile'
  <2>1. NeverAskedAgain' BY <1>1, <1>2, <1>3 DEF IInv, NeverAskedAgain
  <2>2. \A q \in Press : request[q] \in {"sent", "answered"}
                           => request'[q] \in {"sent", "answered"}
    BY <1>1, <1>2, <1>3
  <2>3. PickerOverProfile' BY <1>3 DEF IInv, PickerOverProfile
  <2>4. QED BY <1>3, <2>1, <2>2, <2>3 DEF IInv, MenuAwaitsItsUser
<1>12. TouchesAreOwed' BY <1>3 DEF IInv, TouchesAreOwed
<1>13. QED BY <1>4, <1>5, <1>8, <1>9, <1>10, <1>11, <1>12 DEF IInv, People

LEMMA AddedKeeps ==
  ASSUME IInv, NEW p \in Press, AccountAdded(p) PROVE IInv'
<1>0. TypeOK BY DEF IInv
<1>1. /\ app = "on" /\ request[p] = "answered"
      /\ request' = [request EXCEPT ![p] = "saved"] /\ rows' = Append(rows, p)
      /\ UNCHANGED <<app, screen, codes, settingsOpen, picking, missed, ignoring, load,
                     accounts>>
  BY DEF AccountAdded, screens, photo, indicator
<1>2. /\ request'[p] = "saved"
      /\ \A q \in Press : q # p => request'[q] = request[q]
  BY <1>0, <1>1 DEF TypeOK
<1>3. /\ Len(rows) \in Nat /\ DOMAIN rows = 1..Len(rows)
      /\ DOMAIN rows' = 1..(Len(rows) + 1)
      /\ rows'[Len(rows) + 1] = p
      /\ \A i \in 1..Len(rows) : rows'[i] = rows[i]
  BY <1>0, <1>1 DEF TypeOK
<1>4. Stored' = Stored \cup {p} BY <1>3 DEF Stored
<1>5. p \notin Stored BY <1>1 DEF IInv, People, SavedAreStored
<1>6. p \in accounts BY <1>1 DEF IInv, People, AnsweredAreMade
<1>7. TypeOK' BY <1>0, <1>1 DEF TypeOK, Fates
<1>8. NothingAwaited' BY <1>1 DEF NothingAwaited
<1>9. SavedAreStored' BY <1>2, <1>4 DEF IInv, People, SavedAreStored
<1>10. AnsweredAreMade' BY <1>1, <1>2, <1>6 DEF IInv, People, AnsweredAreMade
<1>11. AccountsAreStored'
  <2>1. Stored' \subseteq accounts' BY <1>1, <1>4, <1>6 DEF IInv, People, AccountsAreStored
  <2>2. ASSUME NEW i \in DOMAIN rows', NEW j \in DOMAIN rows', rows'[i] = rows'[j]
        PROVE  i = j
    <3>1. \A k \in 1..Len(rows) : rows[k] # p BY <1>3, <1>5 DEF Stored
    <3>2. i \in 1..Len(rows) \/ i = Len(rows) + 1 BY <1>3
    <3>3. j \in 1..Len(rows) \/ j = Len(rows) + 1 BY <1>3
    <3>4. QED BY <1>3, <2>2, <3>1, <3>2, <3>3 DEF IInv, People, AccountsAreStored
  <2>3. \A q \in accounts' \ Stored' : request'[q] \in {"answered", "cut"}
    BY <1>0, <1>1, <1>2, <1>4 DEF IInv, People, AccountsAreStored, TypeOK
  <2>4. QED BY <2>1, <2>2, <2>3 DEF AccountsAreStored
<1>12. NeverAskedAgain' /\ MenuAwaitsItsUser' /\ PickerOverProfile'
  <2>1. NeverAskedAgain' BY <1>1 DEF IInv, NeverAskedAgain
  <2>2. rows' # << >> BY <1>3
  <2>3. PickerOverProfile' BY <1>1 DEF IInv, PickerOverProfile
  <2>4. QED BY <2>1, <2>2, <2>3 DEF MenuAwaitsItsUser
<1>13. TouchesAreOwed' BY <1>1 DEF IInv, TouchesAreOwed
<1>14. QED BY <1>7, <1>8, <1>9, <1>10, <1>11, <1>12, <1>13 DEF IInv, People
-----------------------------------------------------------------------------
LEMMA StepIInv == IInv /\ [Next]_vars => IInv'
<1> SUFFICES ASSUME IInv, [Next]_vars PROVE IInv' OBVIOUS
<1>1. CASE Launch BY <1>1, LaunchKeeps
<1>2. CASE Kill
  BY <1>2, EndKeeps DEF Kill
<1>3. CASE User BY <1>3, UserKeeps
<1>4. CASE Answers BY <1>4, AnswersKeep
<1>5. ASSUME NEW p \in Press, RegisterPressed(p) PROVE IInv'
  BY <1>5, PressKeeps DEF RegisterPressed, Touches, screens, photo
<1>6. ASSUME NEW p \in Press, UploadFails(p) PROVE IInv'
  BY <1>6, PressKeeps DEF UploadFails, screens, photo
<1>7. ASSUME NEW p \in Press, Uploaded(p) PROVE IInv'
  <2>1. picking \in BOOLEAN /\ missed \in BOOLEAN BY DEF IInv, TypeOK
  <2>2. QED BY <1>7, <2>1, PressKeeps DEF Uploaded
<1>8. ASSUME NEW p \in Press, ServerAddAccount(p) PROVE IInv'
  BY <1>8, ServerKeeps
<1>9. ASSUME NEW p \in Press, AccountAdded(p) PROVE IInv'
  BY <1>9, AddedKeeps
<1>10. ASSUME NEW p \in Press, AccountRefused(p) PROVE IInv'
  <2>1. app = "on" /\ ProcessEnds("noAccount") BY <1>10 DEF AccountRefused
  <2>2. QED BY <2>1, EndKeeps DEF Traps
<1>11. CASE UNCHANGED vars
  <2>1. Stored' = Stored BY <1>11 DEF Stored, vars, device
  <2>2. QED BY <1>11, <2>1 DEF vars, screens, photo, indicator, device, IInv, TypeOK, NothingAwaited,
       People, SavedAreStored, AnsweredAreMade, AccountsAreStored, NeverAskedAgain,
       MenuAwaitsItsUser, TouchesAreOwed, PickerOverProfile
<1>12. QED
  BY <1>1, <1>2, <1>3, <1>4, <1>5, <1>6, <1>7, <1>8, <1>9, <1>10, <1>11 DEF Next

\* The invariant that carries the others: no process, nothing awaited; saved
\* presses and rows are the same; answered presses have accounts.
THEOREM Inductive == Spec => []IInv
<1>1. Init => IInv BY InitIInv
<1>2. IInv /\ [Next]_vars => IInv' BY StepIInv
<1>3. QED BY <1>1, <1>2, PTL DEF Spec

\* Every variable keeps its type; in particular stopLoading is never called more
\* often than startLoading was (ActivityIndicator.swift:17-27).
THEOREM Typed == Spec => []TypeOK
<1>1. IInv => TypeOK BY DEF IInv
<1>2. QED BY <1>1, Inductive, PTL

\* Whoever has registered, or whose registration is on its way, is not on the
\* screens that offer it, in this process or in a later one, but for the profile
\* of a process in which the photo's sheet or picker swallowed the segue
\* (AppDelegate.swift:19; ProfileViewController.swift:32-37 and 64-88).
THEOREM AskedOnce == Spec => []NeverAskedAgain
<1>1. IInv => NeverAskedAgain BY DEF IInv
<1>2. QED BY <1>1, Inductive, PTL

\* Behind a Menu that finds no User row there is a registration whose answer is
\* still coming in this process (ProfileViewController.swift:32-37;
\* UserEnitity.swift:35).
THEOREM MenuAlwaysAwaitsItsUser == Spec => []MenuAwaitsItsUser
<1>1. IInv => MenuAwaitsItsUser BY DEF IInv
<1>2. QED BY <1>1, Inductive, PTL

\* Rows are accounts, each once, and an account without a row is still being
\* answered or was orphaned by the end of a process
\* (UserDataManager.swift:13-16).
THEOREM AccountsStored == Spec => []AccountsAreStored
<1>1. IInv => AccountsAreStored BY DEF IInv, People
<1>2. QED BY <1>1, Inductive, PTL

\* At most one load holds the touches, and the counter is one for it
\* (ActivityIndicator.swift:20 and 26).
THEOREM TouchesOwed == Spec => []TouchesAreOwed
<1>1. IInv => TouchesAreOwed BY DEF IInv
<1>2. QED BY <1>1, Inductive, PTL
-----------------------------------------------------------------------------
\* What the mapping to AccountRegistry makes of request.
PostedPresses  == {p \in Press : request[p] \notin {"none", "uploading", "failed"}}
AwaitedPresses == {p \in Press : request[p] \in {"sent", "answered"}}

\* The end of a process abandons what it has posted.
LEMMA EndAbandons ==
  ASSUME IInv, NEW how, ProcessEnds(how) PROVE Registry!Abandon
<1>1. \A p \in Press : /\ request'[p] \notin {"sent", "answered"}
                       /\ request[p] \in {"none", "uploading", "failed"}
                          <=> request'[p] \in {"none", "uploading", "failed"}
  <2>1. \A p \in Press : request[p] \in Fates BY DEF IInv, TypeOK
  <2>2. QED BY <2>1 DEF ProcessEnds, Fates
<1>2. Stored' = Stored /\ accounts' = accounts BY DEF Stored, ProcessEnds
<1>3. PostedPresses' = PostedPresses /\ AwaitedPresses' = {}
  BY <1>1 DEF PostedPresses, AwaitedPresses
<1>4. QED BY <1>2, <1>3 DEF Registry!Abandon, PostedPresses, AwaitedPresses

\* Register, the server and the account's answer are the steps of the registry.
LEMMA PressesRegister ==
  ASSUME IInv, NEW p \in Press,
         \/ RegisterPressed(p) \/ UploadFails(p) \/ Uploaded(p)
         \/ ServerAddAccount(p) \/ AccountAdded(p)
  PROVE  [Registry!Next]_(Registry!vars)
<1>0. TypeOK BY DEF IInv
<1>1. CASE RegisterPressed(p) \/ UploadFails(p)
  <2>1. \A q \in Press : \/ request'[q] = request[q]
                         \/ /\ request[q] \in {"none", "uploading", "failed"}
                            /\ request'[q] \in {"none", "uploading", "failed"}
    BY <1>0, <1>1 DEF RegisterPressed, UploadFails, TypeOK
  <2>2. Stored' = Stored /\ accounts' = accounts
    BY <1>1 DEF Stored, RegisterPressed, UploadFails
  <2>3. PostedPresses' = PostedPresses /\ AwaitedPresses' = AwaitedPresses
    BY <2>1 DEF PostedPresses, AwaitedPresses
  <2>4. QED BY <2>2, <2>3 DEF Registry!vars, PostedPresses, AwaitedPresses
<1>2. CASE Uploaded(p)
  <2>1. /\ request[p] = "uploading" /\ request'[p] = "sent"
        /\ \A q \in Press : q # p => request'[q] = request[q]
    BY <1>0, <1>2 DEF Uploaded, TypeOK
  <2>2. Stored' = Stored /\ accounts' = accounts BY <1>2 DEF Stored, Uploaded
  <2>3. /\ p \notin PostedPresses /\ PostedPresses' = PostedPresses \cup {p}
        /\ AwaitedPresses' = AwaitedPresses \cup {p}
    BY <2>1 DEF PostedPresses, AwaitedPresses
  <2>4. Registry!Post(p)
    BY <2>2, <2>3 DEF Registry!Post, PostedPresses, AwaitedPresses
  <2>5. QED BY <2>4 DEF Registry!Next
<1>3. CASE ServerAddAccount(p)
  <2>1. /\ \/ request[p] = "sent" /\ request'[p] = "answered"
           \/ request[p] = "orphan" /\ request'[p] = "cut"
        /\ \A q \in Press : q # p => request'[q] = request[q]
        /\ accounts' = accounts \cup {p} /\ Stored' = Stored
    BY <1>0, <1>3 DEF ServerAddAccount, TypeOK, Stored
  <2>2. p \notin accounts
    BY <2>1 DEF IInv, People, SavedAreStored, AccountsAreStored
  <2>3. p \in PostedPresses /\ PostedPresses' = PostedPresses /\ AwaitedPresses' = AwaitedPresses
    BY <2>1 DEF PostedPresses, AwaitedPresses
  <2>4. Registry!Make(p)
    BY <2>1, <2>2, <2>3 DEF Registry!Make, PostedPresses, AwaitedPresses
  <2>5. QED BY <2>4 DEF Registry!Next
<1>4. CASE AccountAdded(p)
  <2>1. /\ request[p] = "answered" /\ request'[p] = "saved"
        /\ \A q \in Press : q # p => request'[q] = request[q]
        /\ rows' = Append(rows, p) /\ accounts' = accounts
    BY <1>0, <1>4 DEF AccountAdded, TypeOK
  <2>2. Stored' = Stored \cup {p}
    <3>1. /\ Len(rows) \in Nat /\ DOMAIN rows = 1..Len(rows)
          /\ DOMAIN rows' = 1..(Len(rows) + 1) /\ rows'[Len(rows) + 1] = p
          /\ \A i \in 1..Len(rows) : rows'[i] = rows[i]
      BY <1>0, <2>1 DEF TypeOK
    <3>2. QED BY <3>1 DEF Stored
  <2>3. p \in accounts BY <2>1 DEF IInv, People, AnsweredAreMade
  <2>4. /\ p \in AwaitedPresses /\ AwaitedPresses' = AwaitedPresses \ {p}
        /\ PostedPresses' = PostedPresses
    BY <2>1 DEF PostedPresses, AwaitedPresses
  <2>5. Registry!Learn(p)
    BY <2>1, <2>2, <2>3, <2>4 DEF Registry!Learn, PostedPresses, AwaitedPresses
  <2>6. QED BY <2>5 DEF Registry!Next
<1>5. QED BY <1>1, <1>2, <1>3, <1>4

\* Session implements AccountRegistry: the photo's completion posts, the server
\* makes, addUser learns, the end of the process abandons, and launches, screens
\* and loads change nothing (UserDataManager.swift:13-16).
THEOREM ImplementsRegistry == Spec => RegistrySpec
<1>1. Init => Registry!Init BY DEF Init, Registry!Init, Stored
<1>2. IInv /\ [Next]_vars => [Registry!Next]_(Registry!vars)
  <2> SUFFICES ASSUME IInv, [Next]_vars PROVE [Registry!Next]_(Registry!vars) OBVIOUS
  <2>1. CASE UNCHANGED <<device, accounts>>
    BY <2>1 DEF device, Stored, Registry!vars
  <2>2. CASE \E how \in {"off"} \cup Traps : ProcessEnds(how)
    BY <2>2, EndAbandons DEF Registry!Next
  <2>3. User \/ Answers => \/ UNCHANGED <<device, accounts>>
                          \/ \E how \in {"off"} \cup Traps : ProcessEnds(how)
    BY DEF User, Answers, StartMessaging, NextPressed, OpenPicker, ClosePicker, ReopenMenu,
           SyncPressed, OpenSettings, LanguagePressed, PhonesAnswered, PhonesNotAList, SyncAnswered, SettingsAnswered,
           PhotoEnds, PutAnswered, LanguageAnswered, Traps
  <2>4. ASSUME NEW p \in Press, AccountRefused(p)
        PROVE  \E how \in {"off"} \cup Traps : ProcessEnds(how)
    BY <2>4 DEF AccountRefused, Traps
  <2>5. QED BY <2>1, <2>2, <2>3, <2>4, PressesRegister DEF Next, Launch, Kill, vars
<1>3. QED BY <1>1, <1>2, Inductive, PTL DEF Spec, RegistrySpec, Registry!Spec
=============================================================================
