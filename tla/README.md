# Shiftgram: a verification project

Shiftgram is an iOS messenger that translates. Accounts find each other through the
address book, write or dictate messages that reach the other side in its language, and
call each other. A REST server keeps accounts and friendships, a Firebase tree carries
messages and call notifications, Core Data keeps what the device knows. This directory
holds TLA+ models of the app's own logic (`Shiftgram/Shiftgram/`), the TLC runs that check
them and TLAPS proofs about them. The pods are vendored code; the transfer manager and the
session manager of the AWS SDK are modelled as far as the app's images depend on them, and
what the app relies on in the others is stated where it is used.

## Inventory

| Part | State | Operations | Talks to | What makes it correct |
|---|---|---|---|---|
| Launch, registration, identity (`AppDelegate`, `ProfileViewController`, `UserEntity`) | User row; ids cached by objects | launch, register, account created | server, Menu | nobody acts for a wrong account; a restart finds what was saved |
| Contact synchronisation (`ContactViewController`, `ContactViewModel`, `FriendDataManager`, `FriendEntity`) | Friend table, the list on screen | sync: POST per contact, GET, row loop | server, Core Data | a friend of the reply is stored and shown, none is forgotten or invented |
| Language refresh (`UserViewModel`, `UserDataManager`, `FriendDataManager`) | language of each Friend row | PUT, then GET, then a save per friend; started by every screen | server, Core Data | no language older than the server's at the time of asking |
| Conversation list (`ConversationViewController`, `ConversationEntity`) | Conversation rows | add, open | Core Data, Chat | a conversation has its friend's row; both sides name the same room |
| Chat (`ChatViewController`) | input field, `speechText`, recogniser, requests in flight | send, dictate, lookup, translate, observe | server, translator, Firebase | one message per submission, final, own text and translation belong together |
| Call signalling (`MenuViewController`, `ChatViewController`, `AppDelegate`) | notification nodes, current call fields, observers | call, ring, answer, hang up | Firebase, CallKit | answering enters the room of a caller |
| Audio and video calls (`AudioViewController`, `VideoViewController`) | dictation, timer; Twilio room and tracks | connect, talk, disconnect | Firebase, Twilio | unwraps find what earlier callbacks set |
| Image transfer (`AwsHelper`) | one temporary file | upload, download | S3 | an image arrives where it was asked for |
| Loading indicator (`ActivityIndicator`) | counter of ignored touches | start, stop | all screens | touches come back |
| Phone entry (`InitialViewController`, `PhoneVerifyViewController`, `PhoneDataManager`) | the list of phone codes | fetch, next | server, profile | registration is not offered twice |
| Models, cells, extensions | none | | | |

What is hard here: every request is asynchronous and almost none is awaited; replies are
handled in any order; each row is saved on its own, so a kill keeps half of a handler's work;
objects cache what they read when they were built; callbacks read shared fields instead of
captured ones, one of them on another queue; many optionals are unwrapped on the assumption
that an earlier step of somebody else succeeded. `PROJECT.json` lists the places as hazards.

## Modules

| Module | Models |
|---|---|
| `FriendDirectory` | abstract: the server records friends, the device learns some of them and forgets none |
| `ContactSync` | the device, the account server as the device sees it, and the requests between them |
| `MessageRoom` | abstract: what is submitted appears at most once, in a place of its own, and stays |
| `CallBoard` | abstract: a call stays on the board until somebody answers in its room, and only answers bring people into rooms |
| `AccountRegistry` | abstract: an application makes one account at most, and only a process that waits for it learns of it |
| `MCContactSync` | model values' symmetry for the runs |
| `ContactSync_proofs` | theorems about `ContactSync` |
| `Chat` | phones in one room, their submissions, and the room |
| `MCChat` | symmetry for the runs |
| `Chat_proofs` | theorems about `Chat` |
| `Rooms` | the name of a conversation: an Int32 product, its overflow, and the way back by division |
| `Rooms_proofs` | theorems about that arithmetic, for all account ids |
| `Calls` | phones, the watchers in each process, CallKit, call screens, and the notification and joining nodes of all rooms; uses `Rooms` |
| `MCCalls` | account ids for the runs |
| `Calls_proofs` | theorems about `Calls`, from those of `Rooms_proofs` |
| `ImageTransfer` | uploads and downloads of images, the temporary files and the threads that touch them |
| `MCImageTransfer` | who asks for which key in the run |
| `ImageTransfer_proofs` | theorems about `ImageTransfer` |
| `VideoRoom` | one phone's video screens, their delegate calls, and the one Twilio room |
| `MCVideoRoom`, `MCSession` | names for the runs |
| `VideoRoom_proofs` | theorems about `VideoRoom` |
| `Session` | one device's screens from the launch to the Menu, registration, and the counter of ignored touches |
| `Session_proofs` | theorems about `Session` |

Operators named `...AsPairs`, `...Stuck` and the like, each under a comment "Mutant", are
deliberately wrong versions of the action that follows them. No specification uses them;
they are there to show that each checked property notices a plausible bug.

### ContactSync

`rows` is the Friend table in insertion order (a fetch without sort descriptors returns
SQLite's row order, and `fetch(request).first` the oldest row of a friend); `registered` says
that there is a User row; `conversations` the Conversation rows. `serverFriends`,
`serverLanguage` and `posts` are the server and the unanswered POSTs; a language is a version
number, 0 meaning "not listed". `fetchPhase`, `reply`, `todo`, `current`, `cursor` and
`limit` are the loops of `fetchFriends`: `limit` is the length of the snapshot that
`for friend in FriendEntity().getFriends()` walks through while rows are appended behind it.
`refreshPhase[r]` and its companions are the language refreshes in flight.

Alamofire runs completions on the main queue, so handlers do not interleave with each
other. They do interleave with the server, and with a kill: `StoreItem`, `ScanRow`,
`ItemStored` and `FetchDone` are single steps between which `Kill` can happen, and
`KillDuringRefresh` and `RefreshUnwrapsNoRow` save any part of the reply that the order of
its items allows. `TouchEnabled` is the indicator: from `btnSyncPressed` to its alert nothing
can be tapped. A failed unwrap ends the process; `app` then names which one it was.

`menuOwner` is the id that the Menu's objects read when they were built. In the session that
registers, the Menu opens before `addAccount` is answered, and its tabs keep id 0: their
GETs ask for the friends of account 0 (an empty list) while the POSTs of the same tap use
the real id. Friends recorded this way are listed only after the next launch, when the
first refresh meets friends that have no row; see Findings.

### Chat

Each submission (`Send`) goes through `phase`: looked up (the friend's language), perhaps
translated, written. Typed text is captured in `text`; a dictation captures nothing and reads
`speech[p]` (`speechText`) again at each callback. `LookupSame`, `LookupOther` and the rest are
handlers of the main queue. `ROGoogleTranslate` calls back on its URLSession's queue, so the
callback of a dictation is three steps (`VoiceTranslated`, `VoiceWritten`, `VoiceCleared`:
read for "audio", read for "ownAudio" and write, empty the field), between which the main
queue runs; `SpeechRace` is the process dying of two threads in one String. Keys are numbers
because `childByAutoId` orders them; `room` is the messages by key; `seen[p]` is what the
observer of this session was told. A text stands for itself and for its translation.
`disturbed[p]` is a history variable: while a dictation of `p` was on its way, `p` began
another one or the recogniser came to an empty result. It may do so after the button was released
(`Recognise`): the result is stored as it is, and the test for an empty text is behind it.
Recording again while a task runs ends the process (`HoldAgain`): `startRecording` cancels
the task, but only the task's last callback removes its tap, and `installTap` raises on a
bus that has one.

`RoomSpec` is the conversation seen from `MessageRoom`: `Send` submits, the write of a typed or
dictated message posts it, `ChildAdded` tells, the end of a process leaves, and everything else
(lookups, translations, failures, the emptying of `speechText`) stutters. A typed text has to
arrive as it was when it was submitted; what a dictation arrives with is left open there, since the
code reads it again at each callback. `EmptyDictationWasDisturbed` says when it arrives without a
text, and `UndisturbedIsReadable` what follows for the observer's unwrap: it traps only
after somebody's dictation was disturbed.

### Rooms and Calls

Both ends of a conversation call it `user * friend`. Swift traps when this exceeds Int32
(`Fits`), and divides by the own id where it needs the friend again (`FriendOf`).

A call is a node below the room's `notification` (`PlaceCall`, the caller's chat, which then
pushes its own call screen). Each `MenuViewController` observes the rooms of the conversations
there were when it was built; so does `AppDelegate`, once more for each move to the background
(`EnterBackground`). Their observers are never removed and keep their Menus alive: a
process collects *watchers*, one Menu at launch and another whenever a call is hung up
(`HangUp`, `navigateToVideo`). `watchers[p]` lists them in the order they were made; the last
Menu is in the window. `Hear` is `childAdded`: a node of somebody else overwrites the fields
`room`, `friend` (standing for the language looked up with its id), `name`, `video` or
`audio` of that Menu (`TakeUp`) and asks CallKit to ring. CallKit may refuse, since the
completion that would say so ignores its error. `Answer` looks at the fields, not at the call:
video first, then audio; it opens a screen, removes the room's notifications and empties the
fields. `Decline` empties nothing. A Menu that has been replaced still answers, removes
notifications and writes its join, but cannot present a screen (`Show`). Neither can the
Menu on the screen while something is presented already: another call, or a `Sheet`, which stands for
the alerts of the lists, the action sheets of a chat and its picker (`AddConversation`,
`OpenSheet`, until `Dismiss`). UIKit drops the second presentation without an error, after the
fields were emptied. A photo that has been sent dismisses what is presented when its
upload completes (`ChatViewController.swift:89`), so that `Dismiss` may also take away a call screen.
`HearJoin` is the `audioCalling` observer of both call screens: each entry starts a clock.

A video call that was declined or missed therefore leaves `isVideo` set, and the next
audio call that is answered opens a video screen in the room of whichever call was heard
last. Nothing in the repository promises otherwise, so it is no finding; `LoneCallIsAnswered`
states what does hold, for a Menu that took up exactly one call since its last answer and has
nothing presented. A Menu
built while an old notification is still there rings for it again. Since products collide
(2 * 6 = 3 * 4), a call can ring on a phone of neither of its two accounts; the properties are
checked on such ids.

`pending` (calls taken up since the last answer) and `placed` (all nodes there ever were)
are history variables. A conversation whose name overflows ends the process when its chat
is opened, at the next launch, at the next hang-up and at the next move to the background
(`Stopped(p, "trapped")`). Assumed: iOS keeps a `CXProvider` alive while its call rings; friends
of conversations have rows (`FriendsHaveRows` of `ContactSync`); the phone has a User row, so its
id is never 0. The video screen's `room!` at hang-up is part of `VideoRoom`.

`BoardSpec` is the same seen from `CallBoard`, where there are only calls and people: `PlaceCall`
places, `Answer` takes every call of one room off the board and perhaps brings the person into that
room (a Menu that has been replaced, or that has a sheet over it, takes the calls off and brings
nobody anywhere), hanging up, Back, the dismissal of a call screen and the end of a process leave. That the room an answer empties is the room of a call of somebody
else is what the mapping has to show, since the code answers its fields and not a call.

### ImageTransfer

`AwsHelper` writes an image to `test.jpg` and has it uploaded, and has downloads put there to
read them back; all of its transfers use that one path. Three threads touch it: the main
thread (`main` is the upload whose handler it is in), the network, which reads the body of a
request, and the session's delegate queue, which is serial (`queue` is the download whose
completion holds it). `path` is the inode that is at `test.jpg`, `data` what an inode holds:
a write keeps the inode, and a move replaces it, so an upload may be writing or sending a
file that is gone from the path. Writing is two steps (`BeginWrite` truncates, `EndWrite`
has written), so is reading a body (`OpenBody`, `SendRest`, or `FirstPart`, `SecondPart` for
images in parts) and the completion of a download is three (`Remove`, `MoveIn`, `Read`).
Two steps do nothing without saying so: an image without a JPEG representation is not
written, and what is at the path is uploaded (`WriteNothing`, remembered in `wrote`); and a download whose
file cannot be created has no handle (`Respond`), keeps its data in memory (`Append`) and moves nothing,
so that its completion reads what somebody else left (`MoveNothing`).
Bytes of two images, or a part of one, are `Torn`.

`phase[t]` follows a transfer; `attempt[t]` is `currentRetryCount`. `Retry` begins the request again:
an upload opens its body by path once more, and a download opens its own temporary file at
the end and appends (`AWSURLSessionManager.m:434-438`), so that a repeated download can deliver a torn image.
An attempt that is refused writes the text of the error to the handle of an earlier one,
which is closed and raises (`RefusedOnClosedHandle`). `Fail` prints. Which errors are
repeated is left open: any that comes before `maxRetryCount` (3; 1 in the run) may be.

`alone[t]` is a history variable: nothing else was transferred while `t` was. What the code
gives for overlapping transfers is little, and that is what the properties say:
downloads that overlap never deliver each other's images, because the delegate queue is
serial; an upload between them may make any of them fail or deliver the upload's image, and may itself be
stored as another image. Nothing in the repository promises more, so this is no finding.

### VideoRoom

Each screen connects to the Twilio room "Shiftgram", whoever calls whom. `link` is what the
service knows of a participant, `inbox[s]` the delegate calls that are on their way to a
screen in order, and `shown`, `view` and `tracks` are `remoteParticipant`, `remoteView` and the video
tracks of the screen's room object. Delegate calls run on the main queue one at a time.
`Accept`, `Refuse`, `Drop` and `Subscribe` are the service: Twilio's SDK is not in the
repository, and the order of its calls is assumed as its documentation has it (connected
before joined and subscribed; a track is unsubscribed before its participant has left, or
not at all).

A screen never dies before its process does, because the closure of its observer refers to
it (`initChat`). A chat pushes its call screen (`Pushed`), a Menu presents one, also over
a pushed one, which is then `"under"` it; over a presented one it cannot. `Dismiss` is the photo of a
chat that takes the presented screen away and shows the one beneath again. `Back` and
`Dismiss` leave a screen connected, and so does the hang-up of the screen above it, whose new Menu
replaces everything; `HangUp` unwraps `room!`, which a refused or ended
connection has set to nil. The access token in the source expired in November 2018 and names
one identity for everybody; the service may still accept or refuse as it likes in the model.
`crowded` is a history variable: three have been in the room at once. Then a pair that stays can be without
a picture: a screen whose partner left is not given those who were there already
(`ParticipantDidDisconnect`), which includes the connection of a process that was killed and
that the service has not dropped yet.

### Session

`screen`, `codes` and `settingsOpen` are what can be touched; `rows` the User table in
insertion order (`getUserId` reads the first); `request[p]` what became of a press of Register.
Since the indicator of the profile screen is commented out, Register can be pressed again
while the photo is uploaded, and each press makes an account and a row. The photo can be chosen
again too: while its sheet or picker is up (`picking`), the segue to the Menu at the end of an upload
does nothing, and the user stays at the form of an account that is made (`missed` remembers
it). `ignoring` is the
counter behind `beginIgnoringInteractionEvents`, and `load` says what each use of an indicator
waits for. `Lost` is an answer that calls nobody back: `updateAccountLanguage` for a status that is
neither 200 nor 400, `fetchFriends` without a usable answer, a photo that cannot be
downloaded. Nothing can then be touched until the process ends. `PhonesAnswered` without a
list leaves `codeLabel` without text, which Next unwraps. A settings tab that is opened in the
session that registers, before the row is there, asks for account 0, of which there is none.

Segues to the phone, profile and Menu screens are modal and nothing dismisses them, so that
each of these screens appears once. `NeverAskedAgain` says that the swallowed segue is the only way
to be at registration with an account. Two syncs or two loads at once are impossible because of
the indicator itself, which is what `TouchesAreOwed` shows.

`MenuAwaitsItsUser`: a Menu without a User row is open only while its registration is unanswered,
and a launch never leads there; that is the window in which a sync or the settings find no row.
`RegistrySpec` maps a device to `AccountRegistry`: `Uploaded` posts an application, the server's step makes
an account of it, `AccountAdded` learns of it, and the end of the process abandons whatever is
still awaited, of which an account may be made all the same.

### How the modules fit together

`Session` decides which screen is in front, and takes from `ImageTransfer` that an upload ends in
a completion or in silence, and from `ContactSync` that a sync does. `ContactSync` begins with a
registration whose upload has ended. `Calls` opens call screens; `VideoRoom` is what goes on in
them. `Calls` and `Chat` assume `FriendsHaveRows` of `ContactSync`.

## Properties and runs

| Run | Instance | Checks |
|---|---|---|
| `contact_sync_safety` | 2 friends, 1 refresh in flight, syncs start on at most 2 rows, 2 language versions, fairness | `TypeOK`, `FriendsHaveRows`, `SyncShowsTheReply`, `DirectorySpec`, `SyncLoopDescends`, `SyncEnds` |
| `contact_sync_refresh` | 2 friends, 2 refreshes in flight, 1 row | `RefreshIsFresh` |
| `contact_sync_crash` | 1 friend | `RefreshFindsRow`, violated |
| `chat_safety` | 1 person, 2 submissions, 2 texts | `TypeOK`, `TypedPairsMatch`, `EmptyDictationWasDisturbed` |
| `chat_duo` | 2 people, one writes, 2 submissions, 1 text | `RoomSpec` |
| `chat_live` | 1 person, 2 submissions, a window of 1, fairness | `EveryoneSees` |
| `chat_observer` | 1 person, 2 submissions | `ObserverUnwrapsText`, violated |
| `calls_rooms` | accounts 2 and 3, each with a stranger (6, 4) such that two rooms are both 12; 2 calls, 1 watcher per process | `TypeOK`, `RememberedCallsAgree`, `ClocksNeedAnAnswer`, `LoneCallIsAnswered`, `NotificationsStayUntilAnswered`, `BoardSpec` |
| `calls_menus` | accounts 2 and 3, one conversation that overflows; 3 places 2 calls, 2 watchers per process, a window of 1 | `AnsweredCallsWerePlaced`, `BoardSpec` |
| `images` | 2 images in the bucket and 2 downloads of them, 1 upload, 1 retry per transfer, fairness | `TypeOK`, `LoneUploadIsTrue`, `LoneDownloadIsTrue`, `DownloadsDoNotMix`, `LoneArrivalIsDelivered`, `TransfersDescend`, `EveryTransferEnds` |
| `video` | a pushed screen and a presented one, 1 stranger, at most 3 delegate calls on their way to a screen, fairness | `TypeOK`, `ViewIsOfShown`, `QuietPartnerIsShown`, `OnlyEndedCallsTrap`, `NobodyIsDisplaced`, `LonePartnerIsSeen`, `AbandonedAreForgotten` |
| `session` | 3 presses of Register, fairness | `TypeOK`, `NeverAskedAgain`, `MenuAwaitsItsUser`, `TouchesAreOwed`, `RegistrySpec`, `TouchesReturn` |

Some invariants are stated and proved without a run of their own: `FetchedAreStored` (what
`SyncShowsTheReply` rests on), `LoneFriendHasOneRow`, `OnceWrittenPerSubmission` and
`MessagesAreFinal` (both part of what `RoomSpec` says), `UndisturbedIsReadable` (the
observer's side of `EmptyDictationWasDisturbed`), `ReportedIsStored`, `ShownIsInRoom` and
`AccountsAreStored`.

Why these bounds are enough to meet the interesting cases: two friends are what it takes for
`fetchFriends` to see a row of somebody else, to duplicate, and to store half of a reply;
two rows let a table grow while it is scanned. Two refreshes can be answered in either
order, with a language change before, between and after. Two submissions of one person
overlap in every way (typed and dictated, before and during a translation), and two texts
tell a pair that matches from one that does not. A window of one is overtaken by the second
message. Every property that is not a liveness property is also proved without the bounds.
Two calls of one or of both phones, video or audio, ring together, are answered in either
order, or one is placed after the other was hung up; two watchers are two Menus, or a Menu
and `AppDelegate`. With one watcher per process nobody can hang up (`calls_rooms`, whose
questions are about fields and rooms); hanging up belongs to `calls_menus`.
Two downloads of two images are enough to tell whether one delivers the other's, and one upload
comes between any two steps of theirs; one retry meets the file and the handle that the first attempt
left. Two uploads are beyond the run, not beyond the theorems.
Two screens of one phone and a stranger are three participants, the least that can displace
or crowd somebody; the second screen can open after the first was left or hung up, or in a
new process, and the presented one can cover the pushed one. Three delegate calls on their way let
a participant come, be subscribed and go before a screen hears of any of it. Three presses of Register overlap, and
one of them can follow a kill that cut the others off.
`MaxRows`, `MaxVersion`, `Request`, `Send`, `MaxKey`, `Writer`, `Caller`, `MaxCall`, `MaxWatcher`,
`Upload`, `Download`, `Screen`, `Peer`, `Backlog` and `Press` are bounds of the model, not of the program;
`Window` is the program's 10 and `MaxRetry` its 3.

Symmetry is used in safety runs only. The people of `Chat` are not symmetric because
`Init` picks one for unused submissions.

### Fairness

`contact_sync_safety`: Alamofire calls each completion once, a timeout being one of the
outcomes, and the main queue runs what is queued; so the steps of a sync are weakly fair.
The user, the server's other clients and a kill are not. A reply without a response, or
a 200 without JSON, leaves `fetchPhase = "lost"`: the indicator then never stops, and `SyncEnds`
says that this is the only way to get there. `chat_live`: requests are answered or fail, and
Firebase tells a connected observer of what the window holds; nobody has to type, speak or
keep the phone on. `images`: each upload and each download goes on, that is the main thread and
the delegate queue finish what they began, and a request is answered or times out; nobody
has to begin a transfer, and no retry has to happen. `video`: the main queue runs the
delegate calls of a living screen, the service answers a connection, subscribes who is in, and
ends connections that were hung up or whose process is gone; it never has to accept anybody,
to let peers in or to end a connection that works. `session`: what is awaited is
answered or lost while the process runs; the user does nothing, and neither does the server
have to make an account. In `video` deadlock is allowed, because all screens may be used up.

### Findings

* `contact_sync_crash`: `updateFriend` (`CoreData/FriendEntity.swift:78`) unwraps the first
  row of a friend the server lists. The trace TLC finds: register, launch again,
  sync; the server records the POSTs after it answered the GET; the next screen's refresh
  lists a friend that was never stored, and the process ends. The same state is reached
  by syncing in the session that registered.
* `chat_observer`: of two dictations in flight, the first to be written empties `speechText`
  and the second writes `"audio": ""`; the recogniser may also come to an empty result between the
  release and the answer of the lookup. The observer takes that for a typed message, and
  `!(text?.isEmpty)!` (`ChatViewController.swift:130`) unwraps the `ownText` or `transText` it
  does not have. The message stays among the last ten of the room, so both phones end
  whenever they open the chat.

## Proofs

All safety properties and refinements that the passing runs check are theorems, for every value of the
constants under the assumptions named in the modules (`BoundsAreNaturals`;
`WritersArePeople`, `EmptyIsNoText`; `PhonesAreAccounts`, `FriendsAreAccounts`). No theorem assumes that sets are finite.

`ContactSync_proofs`. `TypeOK` is inductive. The other invariants are not: the loop's
progress matters. The strengthening adds that while an item is scanned, either its friend
is stored already or every row the cursor has gone past belonged to that friend (so the first
row that does not adds it), that `cursor` and `limit` stay within the table, and that
whatever the loop adds was recorded by the server when the reply was made. From it follow
`FetchedAreStored`, `FriendsHaveRows`, `LoneFriendHasOneRow`, `SyncShowsTheReply` and the refinement
`ImplementsDirectory` (each step maps to a `Record`, a `Learn` or a stutter; a row appended
for a stored friend is a stutter). `RefreshesAreFresh` has an invariant of its own: a language
that was sent is at most the one in the reply, which is at most the server's.
`SyncLoopAlwaysDescends` is the safety core of `SyncEnds`: each step of the loop shortens what is
left of the reply, or keeps it and brings `cursor` nearer to `limit`, which does not move although the
table grows.

`Chat_proofs`. `KeyInv`: written keys lie below `nextKey`, a submission that waits for its
translation holds a key nobody else holds and nobody has written to, and the submission of
a written message is finished; it gives `WrittenOnce` and `MessagesStay`. `Captured`: typed
submissions in flight hold a text; it gives `TypedPairs`. `Undisturbed`: while no
dictation of a person was disturbed, the only one in flight finds `speechText` and everything it
has captured non-empty; with `Captured` it gives `DictationsKeepTheirText` and, with the fact that only
the observer of an empty dictation unwraps nothing, `UndisturbedAreReadable`. `ImplementsRoom` maps each
step to one of `MessageRoom` or to a stutter: `KeyInv` is why a message finds its place free and its
submission nowhere else in the room, `Captured` why a typed text is the submitted one.

`Rooms_proofs`: cancelling in products of positive numbers (`Cancel`) gives `FriendRecovered`
(division finds the friend again) and `RoomsOfOneAccountDiffer`; `FitsIsInt32` shows the
guard to be exact. The literal 2147483647 stays folded, and leaves about it name SMT: Zenon
would write it out in unary.

`Calls_proofs`. `WatcherInv`, of one watcher: as long as a kind is set, the room is that of a
conversation it watches and of a call of somebody else that it was told of; the kinds set were told
of too, and an audio call that would be opened belongs to that room; one pending call
is the one its fields describe. None of this is inductive with the screens alone, since a
screen is opened from the fields. `CallsInv` adds that nodes and told nodes were placed, and
that every join, clock and presented screen has such a call behind it.
`FieldsAgree` needs `FriendRecovered` on top, since the code gets the friend's id back by division.
`OnlyAnswersForget` shows that no step but `Answer` empties a watcher's pending calls; the
two action properties rest on it or on the matching fact about `notes`. `ImplementsBoard` maps to
`CallBoard`: `CallsInv` yields the call of somebody else behind each answer, and `KeysAreOld`
(numbers of nodes lie below the next one) makes a placed call a new one.

`ImageTransfer_proofs`. The strengthening has four parts. `Locks`: the main thread and the
delegate queue are held by exactly the transfers whose phase says so, so that at most one
download is between `Remove` and `Read`. `Files`: what an upload has read, stored or reported is
there. `Downloads`: a download's temporary file holds nothing, its image or a torn one, and at its
first attempt exactly what it should; while a completion reads, the path is its own inode, to which an
upload may be writing but no other download has. `AloneInv`: two transfers that are under way
at once are both not alone, and a lone one that had something to write, or a file to receive into,
finds its own data at the path in each phase.
`NoMixing` rests on the first three parts, the theorems about lone transfers on all four.
`TransfersAlwaysDescend` is the safety core of `EveryTransferEnds`: a step of a transfer leads nearer to
the end of its attempt or begins one more of `MaxRetry` repetitions, and what is over stays over.

`VideoRoom_proofs`. `TypeOK` with `OneInFront` (what is covered was pushed, what covers it was
not: a hang-up, Back or a dismissal therefore never leaves two screens in front) and, per screen, `Fine`: what is on its way to a screen fits
what the screen knows and what the service says. `Placed` and `Known` say what can be known
before an answer and of whom; `Rendered` is the property `ViewIsOfShown`; `Ends`: the end of a
connection is the last call; `Order`: "connected" comes first, nobody joins whose track is known,
and nobody's track is unsubscribed twice or before it was subscribed; `Announced`: whoever is
shown, or is yet to be, and has gone has a call behind that takes him off. From `Order` follows
that a track arrives after its participant was shown (`ViewsAreOfShown`), hence that
`remoteView!` never traps in a call that works (`OnlyEndedTrap`). `ShownAreInRoom` follows from
`Announced`. `NobodyIsDisplaced` rests on `Order` (the answer "connected" finds nobody shown) and on
`Known` and `Ends` (a leave or an end is only delivered for a call the service is done with).
`QuietPartnersAreShown` has an invariant of its own on top, `LoneInv`: as long as there were never three,
whoever a screen has met is shown already, or a call is on its way that will show him, with a
"left" before it for whoever is in his place (`Seen`). That the room holds two at most (`TwoAtMost`) and that
no screen hears of itself (`NotItself`) is part of it. With nothing on its way, `Seen` leaves
only that he is shown.

`Session_proofs`. `NothingAwaited` (a device that is off waits for nothing), `SavedAreStored` and
`AnsweredAreMade` (what became of a press agrees with rows and accounts). With them the three
invariants about registration and the indicator are inductive, and so is `MenuAwaitsItsUser`;
`PickerOverProfile` is what makes a swallowed segue one that stays on the profile.
`ImplementsRegistry` uses them step by step: an upload's completion posts an application that was
not posted before (`PressesRegister`), the end of a process abandons (`EndAbandons`), and an answer
is of an account that was made (`AnsweredAreMade`).

Only model-checked: `SyncEnds`, `EveryoneSees`, `EveryTransferEnds`, `LonePartnerIsSeen`,
`AbandonedAreForgotten` and `TouchesReturn` (liveness under fairness is outside what the proof
system does), and of course the two violated properties. Their safety parts are proved:
`SyncLoopDescends` and `TransfersDescend` give the variants behind `SyncEnds` and `EveryTransferEnds`,
`MessagesAreFinal` says that what `EveryoneSees` waits for does not go away, and
`QuietPartnerIsShown` is where `LonePartnerIsSeen` ends up once the service has said what it has to
say. The four refinements are of safety specifications: the abstract ones state no fairness, so that an
implementation may stop.

## What the models leave out

* Contact synchronisation: saves of Core Data that fail (they are only printed), a 200
  reply whose body is not a list or whose items miss a field (it ends the process, like the
  other unwraps), and the contacts' names and photos.
* Chat: photos; the recording overlay and its timer; leaving the screen with the back
  button (requests then go on and the observer keeps the view's closures); who the two
  ends of a room are. A handler of the main queue reads `speechText` several times within
  one step: the translator's queue could empty it in between, which adds further ways
  for two overlapping dictations to spoil each other and none for a single one.
* Firebase is one tree that is written at once; writes while offline are not modelled.
* Calls: the sending of a photo itself (its dismissal is there, at any time); their dictation and speech output; call screens that have been left and whose
  observers live on; the session that registers, whose Menu has no conversations.
* Video: the dictation of both call screens (that of the chat without the test for an
  empty text), speech output, camera, codecs, and the media itself.
* Images: photos in chats' bubbles and in cells. A completion keeps the cell it was started for,
  and a table that has been scrolled may use that cell for somebody else by then. The helper's
  functions for records and videos have no callers. A file of a download that exists but cannot be
  opened again for a retry is left out; one that cannot be created is not. Pausing and cancelling transfers, which the SDK
  offers, are never used.
* Session: the verification of the phone by SMS, which is commented out, and the form's
  contents. Core Data's own failures are only printed by the code.
* Pods: Alamofire, Firebase, BoringSSL, gRPC, Protobuf, Cognito, JSQMessages and the rest of the
  AWS SDK. They are some 380000 of the repository's lines, and
  generated service models, cryptography and networking make up nearly all of them; a model of them
  would say nothing about Shiftgram. Of the SDK what is modelled is the path an image takes.

## Plan

Done, in this order: `ContactSync` under `FriendDirectory`, `Chat`, `Rooms`, `Calls`,
`ImageTransfer`, `VideoRoom`, `Session`, each with its theorems,
and `MessageRoom`, `CallBoard` and `AccountRegistry` above three of them. What would come next:

1. `Recorder`: engine, tap, request and task with callbacks that arrive late, shared by
   the chat and both calls; the recording overlay. `Chat` has the part that the chat's text depends on.
2. `Calls`: liveness (a phone that is told of a call rings), and audio screens that outlive Back
   and hang-up; an abstract specification of two in a video room.
3. `Chat`: leaving the screen, photos, and the composition with `Rooms`.
