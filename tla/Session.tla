------------------------------ MODULE Session ------------------------------
(***************************************************************************)
(* The screens of one device from the launch on: the way from the first    *)
(* screen over the phone list and the profile to the Menu, the account     *)
(* that Register makes, the User rows it leaves, and the loads during      *)
(* which ActivityIndicator makes the application ignore touches.           *)
(*                                                                         *)
(* Register uploads the photo, and only then posts the account and opens   *)
(* the Menu; its indicator is commented out, so that it can be pressed     *)
(* again meanwhile, and so can the photo, whose sheet and picker keep the  *)
(* Menu from opening.  A press stands for the account it asks for.  An     *)
(* upload ends as ImageTransfer says and a sync as ContactSync says; here  *)
(* only their outcome counts.                                              *)
(***************************************************************************)
EXTENDS Integers, Sequences

CONSTANT Press  \* the presses of Register that are ever made

VARIABLES
  app,           \* "on", "off", or the failed unwrap that ended the process
  screen,        \* what is in front, "none" without a process
  codes,         \* codeLabel has a text
  settingsOpen,  \* the settings tab of the current Menu has loaded
  picking,       \* the sheet or the picker for the photo is over the profile
  missed,        \* history: it was, in this process, when the Menu was to open
  ignoring,      \* how often UIApplication was told to ignore touches
  load,          \* what each use of an indicator waits for
  request,       \* what became of each press
  rows,          \* the User table, in insertion order
  accounts       \* the presses whose account the server has made

photo     == <<picking, missed>>
screens   == <<app, screen, codes, settingsOpen, photo>>
indicator == <<ignoring, load>>
device    == <<request, rows>>
vars      == <<screens, indicator, device, accounts>>

Entry  == {"initial", "phone", "profile"}
Traps  == {"notPhones", "noCode", "noAccount", "noUser", "noSettings", "notFriends"}
Loader == {"phones", "sync", "settings", "language"}
Loads  == {"idle", "get", "getNobody", "put", "photo", "lost"}
Fates  == {"none", "uploading", "failed", "sent", "answered", "saved", "orphan", "cut"}
Stored == {rows[i] : i \in DOMAIN rows}

TypeOK ==
  /\ app \in {"on", "off"} \cup Traps /\ screen \in Entry \cup {"none", "menu"}
  /\ codes \in BOOLEAN /\ settingsOpen \in BOOLEAN
  /\ picking \in BOOLEAN /\ missed \in BOOLEAN
  /\ ignoring \in Nat /\ load \in [Loader -> Loads]
  /\ request \in [Press -> Fates]
  /\ rows \in Seq(Press) /\ accounts \subseteq Press

Init ==
  /\ app = "off" /\ screen = "none" /\ codes = FALSE /\ settingsOpen = FALSE
  /\ picking = FALSE /\ missed = FALSE
  /\ ignoring = 0 /\ load = [l \in Loader |-> "idle"]
  /\ request = [p \in Press |-> "none"] /\ rows = << >> /\ accounts = {}
-----------------------------------------------------------------------------
\* The process takes its screens and completions along; what it has posted may
\* still reach the server.
ProcessEnds(how) ==
  /\ app' = how /\ screen' = "none" /\ codes' = FALSE /\ settingsOpen' = FALSE
  /\ picking' = FALSE /\ missed' = FALSE
  /\ ignoring' = 0 /\ load' = [l \in Loader |-> "idle"]
  /\ request' = [p \in Press |->
       CASE request[p] = "uploading" -> "failed" [] request[p] = "sent" -> "orphan"
         [] request[p] = "answered" -> "cut"     [] OTHER -> request[p]]
  /\ UNCHANGED <<rows, accounts>>

Kill == app = "on" /\ ProcessEnds("off")

\* Mutant: every launch begins with the first screen.
LaunchAtInitial ==
  /\ app # "on" /\ app' = "on" /\ screen' = "initial"
  /\ UNCHANGED <<codes, settingsOpen, photo, indicator, device, accounts>>

\* didFinishLaunchingWithOptions: isAuth holds in every row that addUser makes.
Launch ==
  /\ app # "on" /\ app' = "on"
  /\ screen' = IF rows = << >> THEN "initial" ELSE "menu"
  /\ UNCHANGED <<codes, settingsOpen, photo, indicator, device, accounts>>

\* A touch arrives only while nobody has the application ignore it.
Touches(where) == app = "on" /\ screen = where /\ ignoring = 0

\* startLoading and the request it is for; a later request of the same load;
\* a load whose completion is never called; stopLoading.
Starts(l, phase) == ignoring' = ignoring + 1 /\ load' = [load EXCEPT ![l] = phase]
Goes(l, phase)   == ignoring' = ignoring     /\ load' = [load EXCEPT ![l] = phase]
Lost(l)          == Goes(l, "lost")
Stops(l)         == ignoring' = ignoring - 1 /\ load' = [load EXCEPT ![l] = "idle"]
Awaits(l, phase) == app = "on" /\ load[l] = phase
-----------------------------------------------------------------------------
\* btnStartMessagingPressed: the phone screen loads and asks for the codes.
StartMessaging ==
  /\ Touches("initial") /\ screen' = "phone" /\ Starts("phones", "get")
  /\ UNCHANGED <<app, codes, settingsOpen, photo, device, accounts>>

\* Mutants: every appearance of the screen asks again, with no new startLoading;
\* and no list, no completion.
PhonesAnsweredAgain ==
  /\ app = "on" /\ screen = "phone" /\ codes' \in BOOLEAN /\ Stops("phones")
  /\ UNCHANGED <<app, screen, settingsOpen, photo, device, accounts>>
PhonesAnsweredOrNot ==
  /\ Awaits("phones", "get") /\ codes' \in BOOLEAN
  /\ IF codes' THEN Stops("phones") ELSE Goes("phones", "put")
  /\ UNCHANGED <<app, screen, settingsOpen, photo, device, accounts>>

\* The completion of getPhones shows the code of the first phone, or removes
\* the label's text when none came (codes' = FALSE).
PhonesAnswered ==
  /\ Awaits("phones", "get") /\ codes' \in BOOLEAN /\ Stops("phones")
  /\ UNCHANGED <<app, screen, settingsOpen, photo, device, accounts>>

\* "result as! NSArray" on another JSON value.
PhonesNotAList == Awaits("phones", "get") /\ ProcessEnds("notPhones")

\* btnNextPressed unwraps the label's text.
NextPressed ==
  /\ Touches("phone")
  /\ IF codes
     THEN /\ screen' = "profile"
          /\ UNCHANGED <<app, codes, settingsOpen, photo, indicator, device, accounts>>
     ELSE ProcessEnds("noCode")
-----------------------------------------------------------------------------
\* imagePressed: the sheet, and the picker that it may lead to, until the user is
\* done with them.  Meanwhile the profile itself cannot be touched.
OpenPicker ==
  /\ Touches("profile") /\ ~picking /\ picking' = TRUE
  /\ UNCHANGED <<app, screen, codes, settingsOpen, missed, indicator, device, accounts>>

ClosePicker ==
  /\ Touches("profile") /\ picking /\ picking' = FALSE
  /\ UNCHANGED <<app, screen, codes, settingsOpen, missed, indicator, device, accounts>>

\* registerBtnPressed: nothing but the upload starts.
RegisterPressed(p) ==
  /\ Touches("profile") /\ ~picking /\ request[p] = "none"
  /\ request' = [request EXCEPT ![p] = "uploading"]
  /\ UNCHANGED <<screens, indicator, rows, accounts>>

UploadFails(p) ==
  /\ app = "on" /\ request[p] = "uploading"
  /\ request' = [request EXCEPT ![p] = "failed"]
  /\ UNCHANGED <<screens, indicator, rows, accounts>>

\* The photo is stored: post the account and, without waiting, open the Menu.
\* A press that is this late finds the Menu open and its segue does nothing, and
\* neither does one that finds the sheet or the picker over the profile.
Uploaded(p) ==
  /\ app = "on" /\ request[p] = "uploading"
  /\ request' = [request EXCEPT ![p] = "sent"]
  /\ screen' = (IF picking THEN screen ELSE "menu") /\ missed' = (missed \/ picking)
  /\ UNCHANGED <<app, codes, settingsOpen, picking, indicator, rows, accounts>>

\* The server makes an account of each post that arrives, whoever still waits.
ServerAddAccount(p) ==
  /\ request[p] \in {"sent", "orphan"} /\ accounts' = accounts \cup {p}
  /\ request' = [request EXCEPT ![p] = IF @ = "sent" THEN "answered" ELSE "cut"]
  /\ UNCHANGED <<screens, indicator, rows>>

\* Mutant: the row is added with the post, not with its answer.
AccountAddedEarly(p) ==
  /\ app = "on" /\ request[p] \in {"sent", "answered"}
  /\ request' = [request EXCEPT ![p] = "saved"] /\ rows' = Append(rows, p)
  /\ UNCHANGED <<screens, indicator, accounts>>

\* addUser: a row more.
AccountAdded(p) ==
  /\ app = "on" /\ request[p] = "answered"
  /\ request' = [request EXCEPT ![p] = "saved"] /\ rows' = Append(rows, p)
  /\ UNCHANGED <<screens, indicator, accounts>>

\* Mutant: an answer that is no number is ignored.
AccountIgnored(p) ==
  /\ app = "on" /\ request[p] \in {"sent", "answered"}
  /\ request' = [request EXCEPT ![p] = "failed"]
  /\ UNCHANGED <<screens, indicator, rows, accounts>>

\* "response.result.value as! Int": the post or its answer was lost.
AccountRefused(p) ==
  /\ app = "on" /\ request[p] \in {"sent", "answered"} /\ ProcessEnds("noAccount")
-----------------------------------------------------------------------------
\* navigateToVideo when a call is hung up: another Menu replaces the old one.
ReopenMenu ==
  /\ Touches("menu") /\ rows # << >> /\ settingsOpen' = FALSE
  /\ UNCHANGED <<app, screen, codes, photo, indicator, device, accounts>>

\* btnSyncPressed unwraps the User row first.
SyncPressed ==
  /\ Touches("menu")
  /\ IF rows = << >> THEN ProcessEnds("noUser")
     ELSE /\ Starts("sync", "get")
          /\ UNCHANGED <<screens, device, accounts>>

\* fetchFriends calls back, traps, or (no response, no JSON) does neither.
SyncAnswered ==
  /\ Awaits("sync", "get")
  /\ \/ (Stops("sync") \/ Lost("sync")) /\ UNCHANGED <<screens, device, accounts>>
     \/ ProcessEnds("notFriends")

\* The first look at the settings tab: viewDidLoad asks for the account whose id
\* is stored by then; nobody has id 0.
OpenSettings ==
  /\ Touches("menu") /\ ~settingsOpen /\ settingsOpen' = TRUE
  /\ Starts("settings", IF rows = << >> THEN "getNobody" ELSE "get")
  /\ UNCHANGED <<app, screen, codes, photo, device, accounts>>

\* getById: the account, whose photo is asked for next, or nothing to unwrap.
SettingsAnswered ==
  \/ /\ Awaits("settings", "get") /\ Goes("settings", "photo")
     /\ UNCHANGED <<screens, device, accounts>>
  \/ /\ Awaits("settings", "get") \/ Awaits("settings", "getNobody")
     /\ ProcessEnds("noSettings")

\* downloadImage calls back with the data only.
PhotoEnds ==
  /\ Awaits("settings", "photo") /\ (Stops("settings") \/ Lost("settings"))
  /\ UNCHANGED <<screens, device, accounts>>

LanguagePressed ==
  /\ Touches("menu") /\ settingsOpen /\ Starts("language", "put")
  /\ UNCHANGED <<screens, device, accounts>>

\* Mutant: the indicator stops with the first of the two requests.
PutAnsweredStops ==
  /\ Awaits("language", "put")
  /\ ignoring' = ignoring - 1 /\ load' = [load EXCEPT !["language"] = "get"]
  /\ UNCHANGED <<screens, device, accounts>>

\* updateAccountLanguage calls back when the status is 200 or 400.
PutAnswered ==
  /\ Awaits("language", "put") /\ (Goes("language", "get") \/ Lost("language"))
  /\ UNCHANGED <<screens, device, accounts>>

\* updateLanguageFriends calls back with or without a list, and traps on
\* another JSON value or on a friend it has no row for.
LanguageAnswered ==
  /\ Awaits("language", "get")
  /\ \/ Stops("language") /\ UNCHANGED <<screens, device, accounts>>
     \/ ProcessEnds("notFriends")
-----------------------------------------------------------------------------
Answers == PhonesAnswered \/ PhonesNotAList \/ SyncAnswered \/ SettingsAnswered
           \/ PhotoEnds \/ PutAnswered \/ LanguageAnswered
User == StartMessaging \/ NextPressed \/ OpenPicker \/ ClosePicker \/ ReopenMenu
        \/ SyncPressed \/ OpenSettings \/ LanguagePressed

Next ==
  \/ Launch \/ Kill \/ User \/ Answers
  \/ \E p \in Press : \/ RegisterPressed(p) \/ UploadFails(p) \/ Uploaded(p)
                      \/ ServerAddAccount(p) \/ AccountAdded(p) \/ AccountRefused(p)

Spec == Init /\ [][Next]_vars

\* Alamofire's requests time out and the transfer manager gives up: while the
\* process runs, what is awaited is answered, or known to be lost.
FairSpec == Spec /\ WF_vars(Answers)
-----------------------------------------------------------------------------
\* Registration is not offered to somebody whose registration succeeded or still
\* can: behind its screens there is no User row and no account is on its way.  The
\* exception is the profile, for the rest of the process, after the photo's sheet
\* or picker swallowed the segue to the Menu
\* (AppDelegate.swift:19; ProfileViewController.swift:32-37 and 64-88).
NeverAskedAgain ==
  screen \in Entry /\ (rows # << >> \/ \E p \in Press : request[p] \in {"sent", "answered", "saved"})
    => screen = "profile" /\ missed

\* Device and server agree on who was registered: each row is of a different
\* account of the server, and an account without a row is one whose answer is
\* on its way, or came after the end of the process that had asked for it
\* (UserDataManager.swift:13-16).
AccountsAreStored ==
  /\ Stored \subseteq accounts
  /\ \A i, j \in DOMAIN rows : rows[i] = rows[j] => i = j
  /\ \A p \in accounts \ Stored : request[p] \in {"answered", "cut"}

\* Touches are ignored for exactly one load that has not ended, however screens,
\* failures and kills follow each other: no screen ends the ignoring that
\* another one began (ActivityIndicator.swift:20 and 26).
TouchesAreOwed ==
  /\ \A k, l \in Loader : load[k] # "idle" /\ load[l] # "idle" => k = l
  /\ ignoring = IF \E l \in Loader : load[l] # "idle" THEN 1 ELSE 0

\* Seen from AccountRegistry: however often Register is pressed and whenever the
\* process ends, a press makes one account at most, and the device adds rows of
\* accounts of this process only, one by one, and loses none
\* (UserDataManager.swift:13-16; UserEnitity.swift:15-29).
Registry == INSTANCE AccountRegistry
              WITH Application <- Press, known <- Stored,
                   posted <- {p \in Press : request[p] \notin {"none", "uploading", "failed"}},
                   awaited <- {p \in Press : request[p] \in {"sent", "answered"}}
RegistrySpec == Registry!Spec

\* The Menu without a User row, which a sync, the settings and the conversations
\* look for, is a Menu whose registration is still being answered
\* (UserEnitity.swift:35; ProfileViewController.swift:32-37).
MenuAwaitsItsUser ==
  screen = "menu" /\ rows = << >> => \E p \in Press : request[p] \in {"sent", "answered"}

\* The user gets the touches back, unless one of the three answers whose loss is
\* told to nobody is lost: that of a sync, of the PUT of the language, or the
\* photo of the settings (SettingsViewController.swift:43;
\* FriendDataManager.swift:26; UserDataManager.swift:144).
TouchesReturn ==
  ignoring > 0 ~>
    (ignoring = 0 \/ \E l \in {"sync", "language", "settings"} : load[l] = "lost")
=============================================================================
