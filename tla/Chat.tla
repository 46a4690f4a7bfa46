-------------------------------- MODULE Chat --------------------------------
(***************************************************************************)
(* One conversation seen from two phones: what ChatViewController sends,   *)
(* typed or dictated, through a language lookup and a translation, and     *)
(* what its childAdded observer does with the messages of the room.        *)
(*                                                                         *)
(* A text stands for itself and for its translation: a message is right    *)
(* when the text its sender reads and the text that was translated for the *)
(* receiver are the same one.                                              *)
(*                                                                         *)
(* Handlers of the main queue are atomic.  ROGoogleTranslate calls back on *)
(* the queue of its URLSession: the accesses of that callback to           *)
(* speechText are steps of their own.                                      *)
(***************************************************************************)
EXTENDS Naturals, FiniteSets

CONSTANTS Person,   \* the ends of the conversation
          Writer,   \* bound: those of them that write, the others only read
          Send,     \* bound: the messages that are ever submitted
          MaxKey,   \* bound: the keys that are ever made
          Text,     \* what can be typed or said
          Empty,    \* the empty string
          Window    \* queryLimited(toLast: 10)

ASSUME WritersArePeople == Writer \subseteq Person /\ Writer # {}
ASSUME EmptyIsNoText == Empty \notin Text
ASSUME BoundsAreNaturals == Window \in Nat \ {0} /\ MaxKey \in Nat

VARIABLES
  app,           \* the phone shows the chat, is off, or a crash ended it
  sameLanguage,  \* do the two accounts have the same language
  composer,      \* the text in the input field
  holding, engine, task, speech,  \* microphone button, AVAudioEngine, recognition, speechText
  phase, by, kind, text, audio,   \* the submissions and what they captured
  key, nextKey,  \* childByAutoId: keys in the order they were made
  room,          \* the messages that were written, by key
  seen,          \* the keys the observer of this session was told of
  disturbed      \* history: while a dictation of this person was on its way, he began
                 \* another one or the recognition came to an empty result

device == <<composer, holding, engine, task, speech>>
sends  == <<phase, by, kind, text, audio, key>>
vars   == <<app, sameLanguage, device, sends, nextKey, room, seen, disturbed>>

Key     == 1..MaxKey
String  == Text \cup {Empty}
Message == [by : Person, voice : BOOLEAN, audio : String, own : String, trans : String,
            send : Send]
None    == [by |-> "nobody"]
Phases  == {"unused", "lookup", "translating", "reading", "clearing", "written", "lost"}
Written == {k \in Key : room[k] # None}

TypeOK ==
  /\ app \in [Person -> {"on", "off", "noReply", "nilText", "race", "tap"}] /\ sameLanguage \in BOOLEAN
  /\ composer \in [Person -> String] /\ speech \in [Person -> String]
  /\ holding \in [Person -> BOOLEAN] /\ engine \in [Person -> BOOLEAN]
  /\ task \in [Person -> BOOLEAN] /\ disturbed \in [Person -> BOOLEAN]
  /\ phase \in [Send -> Phases] /\ by \in [Send -> Person]
  /\ kind \in [Send -> {"typed", "voice"}] /\ text \in [Send -> String]
  /\ audio \in [Send -> String]
  /\ key \in [Send -> Key \cup {0}] /\ nextKey \in 1..(MaxKey + 1)
  /\ room \in [Key -> Message \cup {None}]
  /\ seen \in [Person -> SUBSET Key]

Background(s) == phase[s] \in {"reading", "clearing"}
InFlight(s) == phase[s] \in {"lookup", "translating"} \/ Background(s)
Dictating(p) == \E s \in Send : InFlight(s) /\ by[s] = p /\ kind[s] = "voice"
-----------------------------------------------------------------------------
\* The process of p ends; nothing it was waiting for is heard of again.
ProcessEnds(p, how) ==
  /\ app' = [app EXCEPT ![p] = how]
  /\ composer' = [composer EXCEPT ![p] = Empty] /\ speech' = [speech EXCEPT ![p] = Empty]
  /\ holding' = [holding EXCEPT ![p] = FALSE] /\ engine' = [engine EXCEPT ![p] = FALSE]
  /\ task' = [task EXCEPT ![p] = FALSE] /\ seen' = [seen EXCEPT ![p] = {}]
  /\ phase' = [s \in Send |-> IF InFlight(s) /\ by[s] = p THEN "lost" ELSE phase[s]]
  /\ UNCHANGED <<by, kind, text, audio, key>>

Kill(p) ==
  /\ app[p] = "on" /\ ProcessEnds(p, "off")
  /\ UNCHANGED <<sameLanguage, nextKey, room, disturbed>>

OpenChat(p) ==
  /\ app[p] # "on" /\ app' = [app EXCEPT ![p] = "on"]
  /\ UNCHANGED <<sameLanguage, device, sends, nextKey, room, seen, disturbed>>

LanguageChanges ==
  /\ sameLanguage' = ~sameLanguage
  /\ UNCHANGED <<app, device, sends, nextKey, room, seen, disturbed>>

Type(p, t) ==
  /\ app[p] = "on" /\ composer' = [composer EXCEPT ![p] = t]
  /\ UNCHANGED <<app, sameLanguage, holding, engine, task, speech, sends, nextKey,
                 room, seen, disturbed>>

\* A submission starts with getFriendLanguage.
Submit(p, s, how, t) ==
  /\ phase[s] = "unused"
  /\ phase' = [phase EXCEPT ![s] = "lookup"] /\ by' = [by EXCEPT ![s] = p]
  /\ kind' = [kind EXCEPT ![s] = how] /\ text' = [text EXCEPT ![s] = t]
  /\ UNCHANGED <<audio, key>>

\* didPressSend: the text is captured, the field keeps it for now.
PressSend(p, s) ==
  /\ app[p] = "on" /\ composer[p] # Empty
  /\ Submit(p, s, "typed", composer[p])
  /\ UNCHANGED <<app, sameLanguage, device, nextKey, room, seen, disturbed>>

\* longPressedButton, .began: startRecording taps the microphone, starts a task
\* and leaves speechText as it is.
HoldMicrophone(p) ==
  /\ app[p] = "on" /\ ~holding[p] /\ ~task[p]
  /\ holding' = [holding EXCEPT ![p] = TRUE] /\ engine' = [engine EXCEPT ![p] = TRUE]
  /\ task' = [task EXCEPT ![p] = TRUE]
  /\ UNCHANGED <<app, sameLanguage, composer, speech, sends, nextKey, room, seen,
                 disturbed>>

\* The same while a task runs: it is cancelled, but only its last callback takes
\* its tap away, and a second installTap raises.
HoldAgain(p) ==
  /\ app[p] = "on" /\ ~holding[p] /\ task[p] /\ ProcessEnds(p, "tap")
  /\ UNCHANGED <<sameLanguage, nextKey, room, disturbed>>

\* A result of the recognition, also after the button was released, and possibly
\* an empty one: formattedString is stored as it is.
Recognise(p, t) ==
  /\ app[p] = "on" /\ task[p] /\ speech' = [speech EXCEPT ![p] = t]
  /\ disturbed' = [disturbed EXCEPT ![p] = @ \/ (t = Empty /\ Dictating(p))]
  /\ UNCHANGED <<app, sameLanguage, composer, holding, engine, task, sends, nextKey,
                 room, seen>>

\* Two threads in speechText at once: the String may be released twice.
SpeechRace(p) ==
  /\ app[p] = "on" /\ task[p] /\ \E s \in Send : Background(s) /\ by[s] = p
  /\ ProcessEnds(p, "race")
  /\ UNCHANGED <<sameLanguage, nextKey, room, disturbed>>

\* Its last result, or an error: the engine stops and the tap is removed.
RecognitionEnds(p) ==
  /\ app[p] = "on" /\ task[p]
  /\ task' = [task EXCEPT ![p] = FALSE] /\ engine' = [engine EXCEPT ![p] = FALSE]
  /\ UNCHANGED <<app, sameLanguage, composer, holding, speech, sends, nextKey, room,
                 seen, disturbed>>

\* Mutant: no test of speechText.
ReleaseMicrophoneUnchecked(p) ==
  /\ app[p] = "on" /\ holding[p]
  /\ holding' = [holding EXCEPT ![p] = FALSE] /\ engine' = [engine EXCEPT ![p] = FALSE]
  /\ IF engine[p]
     THEN /\ \E s \in Send : Submit(p, s, "voice", Empty)
          /\ disturbed' = [disturbed EXCEPT ![p] = @ \/ Dictating(p)]
     ELSE UNCHANGED <<sends, disturbed>>
  /\ UNCHANGED <<app, sameLanguage, composer, task, speech, nextKey, room, seen>>

\* longPressedButton, .ended: a submission if the engine still runs and
\* speechText holds something.  The text itself is not captured.
ReleaseMicrophone(p) ==
  /\ app[p] = "on" /\ holding[p]
  /\ holding' = [holding EXCEPT ![p] = FALSE] /\ engine' = [engine EXCEPT ![p] = FALSE]
  /\ IF engine[p] /\ speech[p] # Empty
     THEN /\ \E s \in Send : Submit(p, s, "voice", Empty)
          /\ disturbed' = [disturbed EXCEPT ![p] = @ \/ Dictating(p)]
     ELSE UNCHANGED <<sends, disturbed>>
  /\ UNCHANGED <<app, sameLanguage, composer, task, speech, nextKey, room, seen>>
-----------------------------------------------------------------------------
\* Mutant: typed text is read from the field when the callback runs.
CurrentOfField(s) == IF kind[s] = "voice" THEN speech[by[s]] ELSE composer[by[s]]

\* The text a submission reads when its callback runs.
Current(s) == IF kind[s] = "voice" THEN speech[by[s]] ELSE text[s]

Write(s, k, spoken, translated) ==
  /\ room' = [room EXCEPT ![k] = [by |-> by[s], voice |-> kind[s] = "voice",
                                  audio |-> spoken, own |-> Current(s),
                                  trans |-> translated, send |-> s]]
  /\ phase' = [phase EXCEPT ![s] = IF @ = "reading" THEN "clearing" ELSE "written"]

\* Mutant: one childByAutoId for all messages of the screen.
LookupSameOneKey(s) ==
  /\ phase[s] = "lookup" /\ sameLanguage /\ nextKey \in Key
  /\ key' = [key EXCEPT ![s] = nextKey] /\ UNCHANGED nextKey
  /\ Write(s, nextKey, Current(s), Current(s))
  /\ IF kind[s] = "typed"
     THEN composer' = [composer EXCEPT ![by[s]] = Empty] /\ UNCHANGED speech
     ELSE speech' = [speech EXCEPT ![by[s]] = Empty] /\ UNCHANGED composer
  /\ UNCHANGED <<app, sameLanguage, holding, engine, task, by, kind, text, audio, seen,
                 disturbed>>

\* getFriendLanguage answered.  Same language: write at once.  For typed text
\* finishSendingMessage empties the field, whatever it holds by now.
LookupSame(s) ==
  /\ phase[s] = "lookup" /\ sameLanguage /\ nextKey \in Key
  /\ key' = [key EXCEPT ![s] = nextKey] /\ nextKey' = nextKey + 1
  /\ Write(s, nextKey, Current(s), Current(s))
  /\ IF kind[s] = "typed"
     THEN composer' = [composer EXCEPT ![by[s]] = Empty] /\ UNCHANGED speech
     ELSE speech' = [speech EXCEPT ![by[s]] = Empty] /\ UNCHANGED composer
  /\ UNCHANGED <<app, sameLanguage, holding, engine, task, by, kind, text, audio, seen,
                 disturbed>>

\* Mutant: a childByAutoId for the translation and one more for the message.
LookupOtherTwoKeys(s) ==
  /\ phase[s] = "lookup" /\ ~sameLanguage /\ nextKey \in Key
  /\ key' = [key EXCEPT ![s] = nextKey] /\ nextKey' = nextKey + 2
  /\ phase' = [phase EXCEPT ![s] = "translating"]
  /\ text' = [text EXCEPT ![s] = Current(s)]
  /\ composer' = [composer EXCEPT ![by[s]] = Empty]
  /\ UNCHANGED <<app, sameLanguage, holding, engine, task, speech, by, kind, audio, room,
                 seen, disturbed>>

\* Another language: the key is made, the text of this moment is sent to the
\* translator, and the field is emptied.
LookupOther(s) ==
  /\ phase[s] = "lookup" /\ ~sameLanguage /\ nextKey \in Key
  /\ key' = [key EXCEPT ![s] = nextKey] /\ nextKey' = nextKey + 1
  /\ phase' = [phase EXCEPT ![s] = "translating"]
  /\ text' = [text EXCEPT ![s] = Current(s)]
  /\ composer' = [composer EXCEPT ![by[s]] = Empty]
  /\ UNCHANGED <<app, sameLanguage, holding, engine, task, speech, by, kind, audio, room,
                 seen, disturbed>>

\* "response.result.value as! NSDictionary" without a value.
LookupFails(s) ==
  /\ phase[s] = "lookup" /\ ProcessEnds(by[s], "noReply")
  /\ UNCHANGED <<sameLanguage, nextKey, room, disturbed>>

\* The translator called back.  A typed text was captured ...
TypedTranslated(s) ==
  /\ phase[s] = "translating" /\ kind[s] = "typed" /\ Write(s, key[s], text[s], text[s])
  /\ UNCHANGED <<app, sameLanguage, device, by, kind, text, audio, key, nextKey, seen,
                 disturbed>>

\* ... but a dictation reads speechText for "audio", again for "ownAudio", and
\* empties it.
VoiceTranslated(s) ==
  /\ phase[s] = "translating" /\ kind[s] = "voice"
  /\ phase' = [phase EXCEPT ![s] = "reading"]
  /\ audio' = [audio EXCEPT ![s] = Current(s)]
  /\ UNCHANGED <<app, sameLanguage, device, by, kind, text, key, nextKey, room, seen,
                 disturbed>>

VoiceWritten(s) ==
  /\ phase[s] = "reading" /\ Write(s, key[s], audio[s], text[s])
  /\ UNCHANGED <<app, sameLanguage, device, by, kind, text, audio, key, nextKey, seen,
                 disturbed>>

VoiceCleared(s) ==
  /\ phase[s] = "clearing" /\ phase' = [phase EXCEPT ![s] = "written"]
  /\ speech' = [speech EXCEPT ![by[s]] = Empty]
  /\ UNCHANGED <<app, sameLanguage, composer, holding, engine, task, by, kind, text,
                 audio, key, nextKey, room, seen, disturbed>>

\* ROGoogleTranslate calls nobody when its request fails.
TranslationFails(s) ==
  /\ phase[s] = "translating" /\ phase' = [phase EXCEPT ![s] = "lost"]
  /\ UNCHANGED <<app, sameLanguage, device, by, kind, text, audio, key, nextKey, room, seen,
                 disturbed>>
-----------------------------------------------------------------------------
InWindow(k) == Cardinality({j \in Written : j > k}) < Window

\* A message whose "audio" is the empty string is taken for a typed one, and a
\* typed one without "ownText" and "transText" has no text to unwrap.
Unreadable(m) == m.voice /\ m.audio = Empty

\* Mutant: only messages of the other person, as the call observers do it.
ChildAddedOfOthers(p, k) ==
  /\ app[p] = "on" /\ k \in Written \ seen[p] /\ InWindow(k) /\ room[k].by # p
  /\ IF Unreadable(room[k])
     THEN ProcessEnds(p, "nilText")
     ELSE seen' = [seen EXCEPT ![p] = @ \cup {k}] /\ UNCHANGED <<app, device, sends>>
  /\ UNCHANGED <<sameLanguage, nextKey, room, disturbed>>

\* The observer's childAdded for a message of the window.
ChildAdded(p, k) ==
  /\ app[p] = "on" /\ k \in Written \ seen[p] /\ InWindow(k)
  /\ IF Unreadable(room[k])
     THEN ProcessEnds(p, "nilText")
     ELSE seen' = [seen EXCEPT ![p] = @ \cup {k}] /\ UNCHANGED <<app, device, sends>>
  /\ UNCHANGED <<sameLanguage, nextKey, room, disturbed>>
-----------------------------------------------------------------------------
Init ==
  /\ app = [p \in Person |-> "off"] /\ sameLanguage \in BOOLEAN
  /\ composer = [p \in Person |-> Empty] /\ speech = [p \in Person |-> Empty]
  /\ holding = [p \in Person |-> FALSE] /\ engine = [p \in Person |-> FALSE]
  /\ task = [p \in Person |-> FALSE] /\ disturbed = [p \in Person |-> FALSE]
  /\ phase = [s \in Send |-> "unused"]
  /\ by = [s \in Send |-> CHOOSE p \in Writer : TRUE]
  /\ kind = [s \in Send |-> "typed"] /\ text = [s \in Send |-> Empty]
  /\ audio = [s \in Send |-> Empty]
  /\ key = [s \in Send |-> 0] /\ nextKey = 1
  /\ room = [k \in Key |-> None] /\ seen = [p \in Person |-> {}]

Input(p) == \/ HoldMicrophone(p) \/ ReleaseMicrophone(p) \/ RecognitionEnds(p)
            \/ HoldAgain(p) \/ SpeechRace(p)
            \/ (\E t \in Text : Type(p, t)) \/ (\E t \in String : Recognise(p, t))
            \/ \E s \in Send : PressSend(p, s)
Network(s) == LookupSame(s) \/ LookupOther(s) \/ LookupFails(s)
              \/ TypedTranslated(s) \/ VoiceTranslated(s) \/ VoiceWritten(s)
              \/ VoiceCleared(s) \/ TranslationFails(s)

Next == \/ LanguageChanges
        \/ \E p \in Person : Kill(p) \/ OpenChat(p)
        \/ \E p \in Writer : Input(p)
        \/ \E s \in Send : Network(s)
        \/ \E p \in Person, k \in Key : ChildAdded(p, k)

Spec == Init /\ [][Next]_vars

\* Every request is answered or times out, and the observer is told of what
\* the room holds.  Nobody has to type, speak or keep the phone on.
Fairness == /\ \A s \in Send : WF_vars(Network(s))
            /\ \A p \in Person, k \in Key : WF_vars(ChildAdded(p, k))

FairSpec == Spec /\ Fairness
-----------------------------------------------------------------------------
\* What the receiver of a typed message reads is the translation of what its
\* sender reads, however much was typed or submitted during the two requests.
TypedPairsMatch ==
  \A k \in Written : ~room[k].voice => room[k].own = room[k].trans /\ room[k].own # Empty

\* A dictation that had a text at its release is only written without one if it
\* was disturbed on its way: by a second one of the same person, or by an empty
\* result that the recognition came to after the release.  Neither requests that
\* are slow or lost, nor kills, nor the typed messages in between rob it of its
\* text (ChatViewController.swift:156, 256-259, 425-433).
EmptyDictationWasDisturbed ==
  \A k \in Written : Empty \in {room[k].audio, room[k].own, room[k].trans} => disturbed[room[k].by]

\* A press of the button, or a dictation, becomes one message at most.
OnceWrittenPerSubmission ==
  \A j, k \in Written : room[j].send = room[k].send => j = k

\* Seen from MessageRoom: whatever lookups, translations, cancelled recordings and
\* kills do, a submission posts one message at most, under its sender's name, and
\* a typed one the very text that was in the field at the press
\* (ChatViewController.swift:379-386).
TypedText(s) == IF kind[s] = "typed" THEN text[s] ELSE Empty
Submitted ==
  [s \in Send |-> IF phase[s] = "unused" THEN None
                  ELSE [by |-> by[s], voice |-> kind[s] = "voice", text |-> TypedText(s)]]
Posted ==
  [k \in Key |-> IF room[k] = None THEN None
                 ELSE [from |-> room[k].send, by |-> room[k].by, voice |-> room[k].voice,
                       text |-> room[k].own]]
Room == INSTANCE MessageRoom WITH Submission <- Send, Place <- Key, Text <- String,
          Nothing <- None, submitted <- Submitted, posted <- Posted, told <- seen
RoomSpec == Room!Spec

\* A phone that opens the chat is only ended by a message of the room if somebody's
\* dictation was disturbed on its way: otherwise nothing is left behind that has no
\* text for its reader (ChatViewController.swift:130).
UndisturbedIsReadable ==
  (\E p \in Person : app[p] = "nilText") => \E q \in Person : disturbed[q]

\* No message is overwritten: each callback writes to a key of its own.
MessagesAreFinal == [][\A k \in Key : room[k] # None => room'[k] = room[k]]_vars

\* The observer is told of each message, the sender's own included, unless the
\* phone goes off or Window newer messages overtake it.
EveryoneSees ==
  \A p \in Person, k \in Key :
    k \in Written ~> \/ k \in seen[p] \/ app[p] # "on"
                     \/ Cardinality({j \in Written : j > k}) >= Window

\* "(text?.isEmpty)!": every message of the room has a text for its observer.
ObserverUnwrapsText == \A p \in Person : app[p] # "nilText"
=============================================================================
