---------------------------- MODULE Chat_proofs ----------------------------
(***************************************************************************)
(* Chat for any number of people, submissions, keys and texts: what is     *)
(* written is written once and stays, typed texts keep their translation,  *)
(* and a dictation is only robbed of its text by another one or by an      *)
(* empty result of its own recognition.                                    *)
(***************************************************************************)
EXTENDS Chat, TLAPS

\* Init chooses a person for the unused submissions: there has to be one.
Chosen == CHOOSE p \in Writer : TRUE

LEMMA InitTypes == Init => TypeOK
<1>. SUFFICES ASSUME Init PROVE TypeOK
  OBVIOUS
<1>1. /\ holding \in [Person -> BOOLEAN] /\ engine \in [Person -> BOOLEAN]
      /\ task \in [Person -> BOOLEAN] /\ disturbed \in [Person -> BOOLEAN]
  BY Zenon DEF Init
<1>2. by \in [Send -> Person]
  <2>1. Chosen \in Person
    BY WritersArePeople DEF Chosen
  <2>2. by = [s \in Send |-> Chosen]
    BY DEF Init, Chosen
  <2>. QED BY <2>1, <2>2
<1>3. room \in [Key -> Message \cup {None}] /\ seen \in [Person -> SUBSET Key]
  BY DEF Init
<1>4. key \in [Send -> Key \cup {0}] /\ nextKey \in 1..(MaxKey + 1)
  BY BoundsAreNaturals DEF Init
<1>. QED BY <1>1, <1>2, <1>3, <1>4 DEF Init, TypeOK, String, Phases

\* The end of a process leaves every variable typed.
LEMMA ProcessEndTypes ==
  ASSUME TypeOK, NEW p \in Person, NEW how \in {"off", "noReply", "nilText", "race", "tap"},
         ProcessEnds(p, how), UNCHANGED <<sameLanguage, nextKey, room, disturbed>>
  PROVE  TypeOK'
<1>1. /\ holding' \in [Person -> BOOLEAN] /\ engine' \in [Person -> BOOLEAN]
      /\ task' \in [Person -> BOOLEAN]
  BY Zenon DEF ProcessEnds, TypeOK
<1>2. phase' \in [Send -> Phases]
  BY DEF ProcessEnds, TypeOK, Phases
<1>. QED BY <1>1, <1>2 DEF ProcessEnds, TypeOK, String

\* What a submission reads is a text.
LEMMA CurrentTypes == TypeOK => \A s \in Send : Current(s) \in String
BY DEF TypeOK, Current

\* A message goes to a key; the submission has a phase after it.
LEMMA WriteTypes ==
  ASSUME TypeOK, NEW s \in Send, NEW k \in Key, NEW spoken \in String,
         NEW translated \in String, Write(s, k, spoken, translated)
  PROVE  room' \in [Key -> Message \cup {None}] /\ phase' \in [Send -> Phases]
<1>1. (kind[s] = "voice") \in BOOLEAN
  OBVIOUS
<1>2. [by |-> by[s], voice |-> kind[s] = "voice", audio |-> spoken,
       own |-> Current(s), trans |-> translated, send |-> s] \in Message
  BY <1>1, CurrentTypes DEF TypeOK, Message
<1>3. room' \in [Key -> Message \cup {None}]
  BY <1>2 DEF Write, TypeOK
<1>. QED BY <1>3 DEF Write, TypeOK, Phases

LEMMA SubmitTypes ==
  ASSUME TypeOK, NEW p \in Person, NEW s \in Send, NEW how \in {"typed", "voice"},
         NEW t \in String, Submit(p, s, how, t)
  PROVE  /\ phase' \in [Send -> Phases] /\ by' \in [Send -> Person]
         /\ kind' \in [Send -> {"typed", "voice"}] /\ text' \in [Send -> String]
         /\ audio' = audio /\ key' = key
BY DEF TypeOK, Submit, Phases

\* Every action keeps the types.
LEMMA NextTypes == TypeOK /\ [Next]_vars => TypeOK'
<1>. SUFFICES ASSUME TypeOK, [Next]_vars PROVE TypeOK'
  OBVIOUS
<1>. USE WritersArePeople
<1>1. CASE LanguageChanges
  BY <1>1 DEF LanguageChanges, TypeOK, device, sends
<1>2. ASSUME NEW p \in Person, Kill(p) PROVE TypeOK'
  BY <1>2, ProcessEndTypes DEF Kill
<1>3. ASSUME NEW p \in Person, OpenChat(p) PROVE TypeOK'
  BY <1>3 DEF OpenChat, TypeOK, device, sends
<1>4. ASSUME NEW p \in Writer, Input(p) PROVE TypeOK'
  <2>1. CASE HoldMicrophone(p)
    <3>1. /\ holding' \in [Person -> BOOLEAN] /\ engine' \in [Person -> BOOLEAN]
          /\ task' \in [Person -> BOOLEAN]
      BY <2>1, Zenon DEF HoldMicrophone, TypeOK
    <3>. QED BY <2>1, <3>1 DEF HoldMicrophone, TypeOK, sends
  <2>2. CASE ReleaseMicrophone(p)
    <3>1. holding' \in [Person -> BOOLEAN] /\ engine' \in [Person -> BOOLEAN]
      BY <2>2, Zenon DEF ReleaseMicrophone, TypeOK
    <3>2. CASE engine[p] /\ speech[p] # Empty
      <4>1. PICK s \in Send : Submit(p, s, "voice", Empty)
        BY <2>2, <3>2 DEF ReleaseMicrophone
      <4>2. /\ phase' \in [Send -> Phases] /\ by' \in [Send -> Person]
            /\ kind' \in [Send -> {"typed", "voice"}] /\ text' \in [Send -> String]
            /\ audio' = audio /\ key' = key
        <5>1. p \in Person /\ Empty \in String
          BY DEF String
        <5>. QED BY <4>1, <5>1, SubmitTypes
      <4>3. disturbed' \in [Person -> BOOLEAN]
        <5>1. (disturbed[p] \/ Dictating(p)) \in BOOLEAN
          OBVIOUS
        <5>2. disturbed' = [disturbed EXCEPT ![p] = disturbed[p] \/ Dictating(p)]
          BY <2>2, <3>2 DEF ReleaseMicrophone
        <5>. QED BY <5>1, <5>2, Zenon DEF TypeOK
      <4>. QED BY <2>2, <3>1, <4>2, <4>3 DEF ReleaseMicrophone, TypeOK
    <3>3. CASE ~(engine[p] /\ speech[p] # Empty)
      BY <2>2, <3>1, <3>3 DEF ReleaseMicrophone, TypeOK, sends
    <3>. QED BY <3>2, <3>3
  <2>3. CASE RecognitionEnds(p)
    <3>1. engine' \in [Person -> BOOLEAN] /\ task' \in [Person -> BOOLEAN]
      BY <2>3, Zenon DEF RecognitionEnds, TypeOK
    <3>. QED BY <2>3, <3>1 DEF RecognitionEnds, TypeOK, sends
  <2>4. CASE SpeechRace(p) \/ HoldAgain(p)
    BY <2>4, ProcessEndTypes DEF SpeechRace, HoldAgain
  <2>5. ASSUME NEW t \in Text, Type(p, t) PROVE TypeOK'
    BY <2>5 DEF Type, TypeOK, sends, String
  <2>6. ASSUME NEW t \in String, Recognise(p, t) PROVE TypeOK'
    BY <2>6 DEF Recognise, TypeOK, sends, String
  <2>7. ASSUME NEW s \in Send, PressSend(p, s) PROVE TypeOK'
    <3>1. p \in Person /\ composer[p] \in String
      BY DEF TypeOK
    <3>2. Submit(p, s, "typed", composer[p])
      BY <2>7 DEF PressSend
    <3>3. /\ phase' \in [Send -> Phases] /\ by' \in [Send -> Person]
          /\ kind' \in [Send -> {"typed", "voice"}] /\ text' \in [Send -> String]
          /\ audio' = audio /\ key' = key
      BY <3>1, <3>2, SubmitTypes
    <3>. QED BY <2>7, <3>3 DEF PressSend, TypeOK, device
  <2>. QED BY <1>4, <2>1, <2>2, <2>3, <2>4, <2>5, <2>6, <2>7 DEF Input
<1>5. ASSUME NEW s \in Send, Network(s) PROVE TypeOK'
  <2>1. by[s] \in Person /\ Current(s) \in String /\ text[s] \in String
        /\ audio[s] \in String /\ Empty \in String
    BY CurrentTypes DEF TypeOK, String
  <2>2. CASE LookupSame(s)
    <3>1. nextKey \in Key /\ Write(s, nextKey, Current(s), Current(s))
      BY <2>2 DEF LookupSame
    <3>2. room' \in [Key -> Message \cup {None}] /\ phase' \in [Send -> Phases]
      BY <2>1, <3>1, WriteTypes
    <3>3. key' \in [Send -> Key \cup {0}] /\ nextKey' \in 1..(MaxKey + 1)
      BY <2>2, BoundsAreNaturals DEF LookupSame, TypeOK, Key
    <3>4. composer' \in [Person -> String] /\ speech' \in [Person -> String]
      BY <2>1, <2>2 DEF LookupSame, TypeOK
    <3>. QED BY <2>2, <3>2, <3>3, <3>4 DEF LookupSame, TypeOK
  <2>3. CASE LookupOther(s)
    <3>1. key' \in [Send -> Key \cup {0}] /\ nextKey' \in 1..(MaxKey + 1)
      BY <2>3, BoundsAreNaturals DEF LookupOther, TypeOK, Key
    <3>2. /\ phase' \in [Send -> Phases] /\ text' \in [Send -> String]
          /\ composer' \in [Person -> String]
      BY <2>1, <2>3 DEF LookupOther, TypeOK, Phases
    <3>. QED BY <2>3, <3>1, <3>2 DEF LookupOther, TypeOK
  <2>4. CASE LookupFails(s)
    BY <2>1, <2>4, ProcessEndTypes DEF LookupFails
  <2>5. CASE TypedTranslated(s) \/ VoiceWritten(s)
    <3>1. CASE key[s] \in Key
      <4>1. room' \in [Key -> Message \cup {None}] /\ phase' \in [Send -> Phases]
        BY <2>1, <2>5, <3>1, WriteTypes DEF TypedTranslated, VoiceWritten
      <4>. QED BY <2>5, <4>1 DEF TypedTranslated, VoiceWritten, TypeOK, device
    <3>2. CASE key[s] \notin Key
      <4>1. room' = room
        BY <2>5, <3>2 DEF TypedTranslated, VoiceWritten, Write, TypeOK
      <4>2. phase' \in [Send -> Phases]
        BY <2>5 DEF TypedTranslated, VoiceWritten, Write, TypeOK, Phases
      <4>. QED BY <2>5, <4>1, <4>2 DEF TypedTranslated, VoiceWritten, TypeOK, device
    <3>. QED BY <3>1, <3>2
  <2>6. CASE VoiceTranslated(s)
    BY <2>1, <2>6 DEF VoiceTranslated, TypeOK, device, Phases
  <2>7. CASE VoiceCleared(s)
    BY <2>1, <2>7 DEF VoiceCleared, TypeOK, Phases
  <2>8. CASE TranslationFails(s)
    BY <2>8 DEF TranslationFails, TypeOK, device, Phases
  <2>. QED BY <1>5, <2>2, <2>3, <2>4, <2>5, <2>6, <2>7, <2>8 DEF Network
<1>6. ASSUME NEW p \in Person, NEW k \in Key, ChildAdded(p, k) PROVE TypeOK'
  <2>1. CASE Unreadable(room[k])
    BY <1>6, <2>1, ProcessEndTypes DEF ChildAdded
  <2>2. CASE ~Unreadable(room[k])
    BY <1>6, <2>2 DEF ChildAdded, TypeOK, device, sends
  <2>. QED BY <2>1, <2>2
<1>7. CASE UNCHANGED vars
  BY <1>7 DEF vars, TypeOK, device, sends
<1>. QED BY <1>1, <1>2, <1>3, <1>4, <1>5, <1>6, <1>7 DEF Next

\* Type correctness of the conversation.
THEOREM TypeCorrect == Spec => []TypeOK
<1>1. Init => TypeOK
  BY InitTypes
<1>2. TypeOK /\ [Next]_vars => TypeOK'
  BY NextTypes
<1>. QED BY <1>1, <1>2, PTL DEF Spec
-----------------------------------------------------------------------------
\* A typed text is captured when the button is pressed.
Captured == \A s \in Send : /\ kind[s] = "typed" /\ InFlight(s) => text[s] # Empty
                            /\ Background(s) => kind[s] = "voice"

\* Keys are made in increasing order, each for one submission.
WrittenBelow == \A k \in Written : k < nextKey
Reserved(s)  == phase[s] \in {"translating", "reading"}
KeysReserved == \A s \in Send : Reserved(s) =>
                  /\ key[s] \in Key /\ key[s] < nextKey /\ room[key[s]] = None
                  /\ \A t \in Send : Reserved(t) /\ key[t] = key[s] => t = s
Finished(s)  == phase[s] \in {"clearing", "written", "lost"}
WritersFinished == \A k \in Written : Finished(room[k].send)

\* The keys part does not depend on what is said or typed.
KeyInv == /\ TypeOK /\ WrittenBelow /\ KeysReserved /\ WritersFinished
          /\ OnceWrittenPerSubmission

LEMMA NoMessageIsNone == None \notin Message
<1>1. SUFFICES ASSUME None \in Message PROVE FALSE
  OBVIOUS
<1>2. "send" \in DOMAIN None
  BY <1>1 DEF Message
<1>3. "send" \notin {"by"}
  OBVIOUS
<1>4. DOMAIN None = {"by"}
  BY DEF None
<1>. QED BY <1>2, <1>3, <1>4

EndsOrStarts == \A s \in Send : /\ phase'[s] \in {"translating", "reading"} => Reserved(s)
                                /\ Finished(s) => phase'[s] \in {"clearing", "written", "lost"}

\* A step that writes nothing and only ends submissions, or starts one.
LEMMA KeysKept ==
  ASSUME KeyInv, TypeOK', room' = room, key' = key, nextKey' = nextKey,
         EndsOrStarts
  PROVE  KeyInv'
<1>1. Written' = Written
  BY DEF Written
<1>2. \A k \in Written : room[k].send \in Send
  BY DEF KeyInv, TypeOK, Written, Message
<1>3. KeysReserved'
  BY DEF KeyInv, KeysReserved, EndsOrStarts, Reserved
<1>4. WritersFinished'
  BY <1>1, <1>2 DEF KeyInv, WritersFinished, EndsOrStarts, Finished
<1>. QED BY <1>1, <1>3, <1>4 DEF KeyInv, WrittenBelow, OnceWrittenPerSubmission

\* Writing a message of s to k, which nobody has written to or reserved.
LEMMA WriteKeeps ==
  ASSUME KeyInv, TypeOK', NEW s \in Send, NEW k \in Key, NEW spoken \in String,
         NEW translated \in String, Write(s, k, spoken, translated),
         phase[s] \in {"lookup", "translating", "reading"},
         k < nextKey', nextKey <= nextKey', room[k] = None,
         \A t \in Send \ {s} : key'[t] = key[t] /\ (Reserved(t) => key[t] # k)
  PROVE  /\ KeyInv'
         /\ \A j \in Key : room[j] # None => room'[j] = room[j]
<1>1. /\ \A j \in Key \ {k} : room'[j] = room[j]
      /\ room'[k].send = s
  BY DEF Write, KeyInv, TypeOK
<1>2. /\ \A t \in Send \ {s} : phase'[t] = phase[t]
      /\ phase'[s] \in {"clearing", "written"}
  BY DEF Write, KeyInv, TypeOK
<1>3. Written' \subseteq Written \cup {k} /\ k \notin Written
  BY <1>1 DEF Written
<1>4. \A j \in Written : room[j].send \in Send \ {s} /\ j \in Key
  BY DEF KeyInv, TypeOK, Written, Message, WritersFinished, Finished
<1>5. WrittenBelow'
  <2>1. \A j \in Written : j < nextKey /\ j \in Nat
    BY <1>4 DEF KeyInv, WrittenBelow, Key
  <2>2. nextKey \in Nat /\ nextKey' \in Nat
    BY DEF KeyInv, TypeOK
  <2>. QED BY <1>3, <2>1, <2>2 DEF WrittenBelow
<1>6. KeysReserved'
  <2>1. SUFFICES ASSUME NEW t \in Send, Reserved(t)'
        PROVE  /\ key'[t] \in Key /\ key'[t] < nextKey' /\ room'[key'[t]] = None
               /\ \A u \in Send : Reserved(u)' /\ key'[u] = key'[t] => u = t
    BY DEF KeysReserved
  <2>2. t # s /\ Reserved(t) /\ key'[t] = key[t] /\ key[t] # k
    BY <1>2, <2>1 DEF Reserved
  <2>3. key[t] \in Key /\ key[t] < nextKey /\ room[key[t]] = None
    BY <2>2 DEF KeyInv, KeysReserved
  <2>4. key[t] < nextKey'
    BY <2>3 DEF KeyInv, TypeOK, Key
  <2>5. room'[key[t]] = None
    BY <1>1, <2>2, <2>3
  <2>6. ASSUME NEW u \in Send, Reserved(u)', key'[u] = key'[t] PROVE u = t
    <3>1. u # s /\ Reserved(u) /\ key'[u] = key[u]
      BY <1>2, <2>6 DEF Reserved
    <3>. QED BY <2>2, <2>6, <3>1 DEF KeyInv, KeysReserved
  <2>. QED BY <2>2, <2>3, <2>4, <2>5, <2>6
<1>7. WritersFinished'
  <2>1. \A j \in Written : phase'[room'[j].send] \in {"clearing", "written", "lost"}
    BY <1>1, <1>2, <1>3, <1>4 DEF KeyInv, WritersFinished, Finished
  <2>2. phase'[room'[k].send] \in {"clearing", "written", "lost"}
    BY <1>1, <1>2
  <2>. QED BY <1>3, <2>1, <2>2 DEF WritersFinished, Finished
<1>8. OnceWrittenPerSubmission'
  <2>1. \A j \in Written : room'[j] = room[j]
    BY <1>1, <1>3, <1>4
  <2>. QED BY <1>1, <1>3, <1>4, <2>1 DEF KeyInv, OnceWrittenPerSubmission
<1>9. \A j \in Key : room[j] # None => room'[j] = room[j]
  BY <1>1
<1>. QED BY <1>5, <1>6, <1>7, <1>8, <1>9 DEF KeyInv

\* The steps that write nothing and leave the keys alone.
LEMMA QuietSteps ==
  ASSUME KeyInv, TypeOK', room' = room, key' = key, nextKey' = nextKey,
         \/ phase' = phase
         \/ \E p \in Person : \E how : ProcessEnds(p, how)
         \/ \E p, how, t : \E s \in Send : Submit(p, s, how, t)
         \/ \E s \in Send : VoiceTranslated(s) \/ VoiceCleared(s) \/ TranslationFails(s)
  PROVE  KeyInv'
<1>. SUFFICES EndsOrStarts
  BY KeysKept
<1>1. CASE phase' = phase
  BY <1>1 DEF EndsOrStarts, Reserved, Finished
<1>2. ASSUME NEW p \in Person, NEW how, ProcessEnds(p, how)
      PROVE  EndsOrStarts
  BY <1>2 DEF ProcessEnds, EndsOrStarts, Reserved, Finished
<1>3. ASSUME NEW p, NEW how, NEW t, NEW u \in Send, Submit(p, u, how, t)
      PROVE  EndsOrStarts
  <2>1. phase[u] = "unused" /\ phase'[u] = "lookup"
        /\ \A s \in Send \ {u} : phase'[s] = phase[s]
    BY <1>3 DEF Submit, KeyInv, TypeOK
  <2>. QED BY <2>1 DEF EndsOrStarts, Reserved, Finished
<1>4. ASSUME NEW u \in Send, VoiceTranslated(u) \/ VoiceCleared(u) \/ TranslationFails(u)
      PROVE  EndsOrStarts
  BY <1>4 DEF VoiceTranslated, VoiceCleared, TranslationFails, EndsOrStarts, Reserved, Finished,
              KeyInv, TypeOK
<1>. QED BY <1>1, <1>2, <1>3, <1>4

\* Every step keeps the keys in order and every message as it is.
LEMMA NextKeys ==
  KeyInv /\ [Next]_vars => /\ KeyInv'
                          /\ \A j \in Key : room[j] # None => room'[j] = room[j]
<1>. SUFFICES ASSUME KeyInv, [Next]_vars
              PROVE  /\ KeyInv'
                     /\ \A j \in Key : room[j] # None => room'[j] = room[j]
  OBVIOUS
<1>0. TypeOK /\ TypeOK'
  BY NextTypes DEF KeyInv
<1>1. CASE LanguageChanges \/ UNCHANGED vars
  BY <1>0, <1>1, QuietSteps DEF LanguageChanges, vars, sends
<1>2. ASSUME NEW p \in Person, Kill(p) \/ OpenChat(p) PROVE KeyInv' /\ room' = room
  BY <1>0, <1>2, QuietSteps DEF Kill, OpenChat, sends, ProcessEnds
<1>3. ASSUME NEW p \in Writer, Input(p) PROVE KeyInv' /\ room' = room
  <2>1. CASE \/ HoldMicrophone(p) \/ RecognitionEnds(p)
             \/ (\E t \in Text : Type(p, t)) \/ (\E t \in String : Recognise(p, t))
    BY <1>0, <2>1, QuietSteps DEF HoldMicrophone, RecognitionEnds, Type, Recognise, sends
  <2>2. CASE SpeechRace(p) \/ HoldAgain(p)
    BY <1>0, <2>2, QuietSteps, WritersArePeople DEF SpeechRace, HoldAgain, ProcessEnds
  <2>3. CASE ReleaseMicrophone(p)
    <3>1. CASE engine[p] /\ speech[p] # Empty
      BY <1>0, <2>3, <3>1, QuietSteps DEF ReleaseMicrophone, Submit
    <3>2. CASE ~(engine[p] /\ speech[p] # Empty)
      BY <1>0, <2>3, <3>2, QuietSteps DEF ReleaseMicrophone, sends
    <3>. QED BY <3>1, <3>2
  <2>4. ASSUME NEW s \in Send, PressSend(p, s) PROVE KeyInv' /\ room' = room
    BY <1>0, <2>4, QuietSteps DEF PressSend, Submit
  <2>. QED BY <1>3, <2>1, <2>2, <2>3, <2>4 DEF Input
<1>4. ASSUME NEW s \in Send, Network(s)
      PROVE  /\ KeyInv'
             /\ \A j \in Key : room[j] # None => room'[j] = room[j]
  <2>1. /\ by[s] \in Person /\ Current(s) \in String /\ text[s] \in String
        /\ audio[s] \in String /\ nextKey \in Nat
    BY <1>0, CurrentTypes DEF TypeOK
  <2>2. nextKey \in Key => room[nextKey] = None /\ \A t \in Send : Reserved(t) => key[t] # nextKey
    BY <2>1 DEF KeyInv, WrittenBelow, KeysReserved, Written
  <2>3. CASE LookupSame(s)
    <3>1. /\ nextKey \in Key /\ Write(s, nextKey, Current(s), Current(s))
          /\ phase[s] = "lookup" /\ nextKey' = nextKey + 1
          /\ \A t \in Send \ {s} : key'[t] = key[t]
      BY <1>0, <2>3 DEF LookupSame, TypeOK
    <3>2. nextKey < nextKey' /\ nextKey <= nextKey'
      BY <2>1, <3>1
    <3>. QED BY <1>0, <2>1, <2>2, <3>1, <3>2, WriteKeeps
  <2>4. CASE LookupOther(s)
    <3>1. /\ nextKey \in Key /\ nextKey' = nextKey + 1 /\ room' = room
          /\ key'[s] = nextKey /\ \A t \in Send \ {s} : key'[t] = key[t] /\ phase'[t] = phase[t]
          /\ phase[s] = "lookup" /\ phase'[s] = "translating"
      BY <1>0, <2>4 DEF LookupOther, TypeOK
    <3>2. Written' = Written /\ WrittenBelow'
      BY <2>1, <3>1 DEF KeyInv, WrittenBelow, Written, Key
    <3>3. \A t \in Send \ {s} : /\ Reserved(t)' => Reserved(t) /\ key'[t] # nextKey
                                /\ Finished(t) => Finished(t)'
      BY <2>2, <3>1 DEF Reserved, Finished
    <3>4. KeysReserved'
      <4>1. SUFFICES ASSUME NEW t \in Send, phase'[t] \in {"translating", "reading"}
            PROVE  /\ key'[t] \in Key /\ key'[t] < nextKey' /\ room'[key'[t]] = None
                   /\ \A u \in Send : phase'[u] \in {"translating", "reading"}
                                        /\ key'[u] = key'[t] => u = t
        BY DEF KeysReserved, Reserved
      <4>2. CASE t = s
        BY <2>1, <2>2, <3>1, <4>2 DEF Reserved
      <4>3. CASE t # s
        <5>1. Reserved(t) /\ key'[t] = key[t] /\ key[t] # nextKey
          BY <2>2, <3>1, <4>1, <4>3 DEF Reserved
        <5>2. key[t] \in Key /\ key[t] < nextKey /\ room[key[t]] = None
          BY <5>1 DEF KeyInv, KeysReserved
        <5>3. key[t] < nextKey'
          BY <2>1, <3>1, <5>2 DEF Key
        <5>4. ASSUME NEW u \in Send, phase'[u] \in {"translating", "reading"}, key'[u] = key'[t]
              PROVE  u = t
          <6>1. u # s
            BY <3>1, <5>1, <5>4
          <6>2. Reserved(u) /\ key'[u] = key[u]
            BY <3>1, <5>4, <6>1 DEF Reserved
          <6>. QED BY <5>1, <5>4, <6>2 DEF KeyInv, KeysReserved
        <5>. QED BY <3>1, <5>1, <5>2, <5>3, <5>4
      <4>. QED BY <4>2, <4>3
    <3>5. WritersFinished' /\ OnceWrittenPerSubmission'
      <4>1. \A k \in Written : room[k].send \in Send /\ Finished(room[k].send)
        <5>1. \A k \in Written : room[k].send \in Send
          BY DEF KeyInv, TypeOK, Written, Message
        <5>. QED BY <5>1 DEF KeyInv, WritersFinished
      <4>2. \A k \in Written : room[k].send # s
        BY <3>1, <4>1 DEF Finished
      <4>3. WritersFinished'
        BY <3>1, <3>2, <4>1, <4>2 DEF WritersFinished, Finished
      <4>. QED BY <3>1, <3>2, <4>3 DEF KeyInv, OnceWrittenPerSubmission
    <3>. QED BY <1>0, <3>1, <3>2, <3>4, <3>5 DEF KeyInv
  <2>5. CASE LookupFails(s)
    BY <1>0, <2>1, <2>5, QuietSteps DEF LookupFails, ProcessEnds
  <2>6. CASE TypedTranslated(s) \/ VoiceWritten(s)
    <3>1. Reserved(s) /\ key' = key /\ nextKey' = nextKey
      BY <2>6 DEF TypedTranslated, VoiceWritten, Reserved
    <3>2. /\ key[s] \in Key /\ key[s] < nextKey /\ room[key[s]] = None
          /\ \A t \in Send \ {s} : Reserved(t) => key[t] # key[s]
      BY <3>1 DEF KeyInv, KeysReserved
    <3>3. nextKey <= nextKey' /\ key[s] < nextKey'
      BY <2>1, <3>1, <3>2
    <3>4. \/ Write(s, key[s], text[s], text[s])
          \/ Write(s, key[s], audio[s], text[s])
      BY <2>6 DEF TypedTranslated, VoiceWritten
    <3>5. phase[s] \in {"lookup", "translating", "reading"}
      BY <3>1 DEF Reserved
    <3>. QED BY <1>0, <2>1, <3>1, <3>2, <3>3, <3>4, <3>5, WriteKeeps
  <2>7. CASE VoiceTranslated(s) \/ VoiceCleared(s) \/ TranslationFails(s)
    <3>1. room' = room /\ key' = key /\ nextKey' = nextKey
      BY <2>7 DEF VoiceTranslated, VoiceCleared, TranslationFails
    <3>. QED BY <1>0, <2>7, <3>1, QuietSteps
  <2>. QED BY <1>4, <2>3, <2>4, <2>5, <2>6, <2>7 DEF Network
<1>5. ASSUME NEW p \in Person, NEW k \in Key, ChildAdded(p, k) PROVE KeyInv' /\ room' = room
  <2>1. CASE Unreadable(room[k])
    BY <1>0, <1>5, <2>1, QuietSteps DEF ChildAdded, ProcessEnds
  <2>2. CASE ~Unreadable(room[k])
    BY <1>0, <1>5, <2>2, QuietSteps DEF ChildAdded, sends
  <2>. QED BY <2>1, <2>2
<1>. QED BY <1>1, <1>2, <1>3, <1>4, <1>5 DEF Next, LanguageChanges, vars

LEMMA InitKeys == Init => KeyInv
<1>. SUFFICES ASSUME Init PROVE KeyInv
  OBVIOUS
<1>1. Written = {} /\ \A s \in Send : ~Reserved(s)
  BY DEF Init, Written, Reserved
<1>. QED BY <1>1, InitTypes DEF KeyInv, WrittenBelow, KeysReserved, WritersFinished,
                               OnceWrittenPerSubmission

\* A press of the button, or a dictation, becomes one message at most, for any
\* number of them in flight.
THEOREM WrittenOnce == Spec => []OnceWrittenPerSubmission
<1>1. Init => KeyInv
  BY InitKeys
<1>2. KeyInv /\ [Next]_vars => KeyInv'
  BY NextKeys
<1>3. KeyInv => OnceWrittenPerSubmission
  BY DEF KeyInv
<1>. QED BY <1>1, <1>2, <1>3, PTL DEF Spec

\* A message in the room never changes, whatever callbacks are still to come.
THEOREM MessagesStay == Spec => MessagesAreFinal
<1>1. Init => KeyInv
  BY InitKeys
<1>2. KeyInv /\ [Next]_vars => KeyInv'
  BY NextKeys
<1>3. KeyInv /\ [Next]_vars => [\A k \in Key : room[k] # None => room'[k] = room[k]]_vars
  BY NextKeys
<1>. QED BY <1>1, <1>2, <1>3, PTL DEF Spec, MessagesAreFinal
-----------------------------------------------------------------------------
\* A step that says nothing of the submissions.
LEMMA CapturedKept == Captured /\ UNCHANGED <<phase, kind, text>> => Captured'
BY DEF Captured, InFlight, Background

LEMMA NextCaptured == TypeOK /\ Captured /\ [Next]_vars => Captured'
<1>. SUFFICES ASSUME TypeOK, Captured, [Next]_vars PROVE Captured'
  OBVIOUS
<1>0. ASSUME NEW p \in Person, NEW how, ProcessEnds(p, how) PROVE Captured'
  BY <1>0 DEF ProcessEnds, Captured, InFlight, Background
<1>1. ASSUME NEW p, NEW s \in Send, NEW how, NEW t, Submit(p, s, how, t),
             how = "typed" => t # Empty
      PROVE  Captured'
  BY <1>1 DEF Submit, Captured, InFlight, Background, TypeOK
<1>2. CASE LanguageChanges \/ UNCHANGED vars
  BY <1>2, CapturedKept DEF LanguageChanges, vars, sends
<1>3. ASSUME NEW p \in Person, Kill(p) \/ OpenChat(p) PROVE Captured'
  BY <1>0, <1>3, CapturedKept DEF Kill, OpenChat, sends
<1>4. ASSUME NEW p \in Writer, Input(p) PROVE Captured'
  <2>1. CASE \/ HoldMicrophone(p) \/ RecognitionEnds(p)
             \/ (\E t \in Text : Type(p, t)) \/ (\E t \in String : Recognise(p, t))
    BY <2>1, CapturedKept DEF HoldMicrophone, RecognitionEnds, Type, Recognise, sends
  <2>2. CASE SpeechRace(p) \/ HoldAgain(p)
    BY <1>0, <2>2, WritersArePeople DEF SpeechRace, HoldAgain
  <2>3. CASE ReleaseMicrophone(p)
    BY <1>1, <2>3, CapturedKept DEF ReleaseMicrophone, sends
  <2>4. ASSUME NEW s \in Send, PressSend(p, s) PROVE Captured'
    BY <1>1, <2>4 DEF PressSend
  <2>. QED BY <1>4, <2>1, <2>2, <2>3, <2>4 DEF Input
<1>5. ASSUME NEW s \in Send, Network(s) PROVE Captured'
  <2>1. CASE LookupFails(s)
    BY <1>0, <2>1 DEF LookupFails, TypeOK
  <2>2. CASE LookupSame(s) \/ TypedTranslated(s) \/ VoiceWritten(s)
    BY <2>2 DEF LookupSame, TypedTranslated, VoiceWritten, Write, Captured, InFlight,
                Background, TypeOK
  <2>3. CASE LookupOther(s)
    BY <2>3 DEF LookupOther, Current, Captured, InFlight, Background, TypeOK
  <2>4. CASE VoiceTranslated(s) \/ VoiceCleared(s) \/ TranslationFails(s)
    BY <2>4 DEF VoiceTranslated, VoiceCleared, TranslationFails, Captured, InFlight,
                Background, TypeOK
  <2>. QED BY <1>5, <2>1, <2>2, <2>3, <2>4 DEF Network
<1>6. ASSUME NEW p \in Person, NEW k \in Key, ChildAdded(p, k) PROVE Captured'
  BY <1>0, <1>6, CapturedKept DEF ChildAdded, sends
<1>. QED BY <1>2, <1>3, <1>4, <1>5, <1>6 DEF Next

\* What a step that writes puts into its message.
Texts(s, spoken, translated) ==
  /\ kind[s] = "typed" => spoken = text[s] /\ translated = text[s]
  /\ kind[s] = "voice" =>
       \/ phase[s] = "lookup" /\ spoken = speech[by[s]] /\ translated = speech[by[s]]
       \/ phase[s] = "reading" /\ spoken = audio[s] /\ translated = text[s]
Writing(s, k, spoken, translated) ==
  /\ InFlight(s) /\ Texts(s, spoken, translated) /\ Write(s, k, spoken, translated)

LEMMA WritingSteps ==
  ASSUME TypeOK, Captured, [Next]_vars
  PROVE  \/ room' = room
         \/ \E s \in Send, k \in Key, spoken \in String, translated \in String :
              Writing(s, k, spoken, translated)
<1>1. CASE LanguageChanges \/ UNCHANGED vars
  BY <1>1 DEF LanguageChanges, vars
<1>2. ASSUME NEW p \in Person, Kill(p) \/ OpenChat(p) PROVE room' = room
  BY <1>2 DEF Kill, OpenChat
<1>3. ASSUME NEW p \in Writer, Input(p) PROVE room' = room
  BY <1>3 DEF Input, HoldMicrophone, RecognitionEnds, Type, Recognise, SpeechRace, HoldAgain,
              ReleaseMicrophone, PressSend
<1>4. ASSUME NEW p \in Person, NEW k \in Key, ChildAdded(p, k) PROVE room' = room
  BY <1>4 DEF ChildAdded
<1>5. ASSUME NEW s \in Send, Network(s), room' # room
      PROVE  \E k \in Key, spoken \in String, translated \in String :
               Writing(s, k, spoken, translated)
  <2>1. /\ Current(s) \in String /\ text[s] \in String /\ audio[s] \in String
        /\ kind[s] \in {"typed", "voice"}
    BY CurrentTypes DEF TypeOK
  <2>2. \A k, spoken, translated :
          Write(s, k, spoken, translated) => k \in Key
    BY <1>5 DEF Write, TypeOK
  <2>3. CASE LookupSame(s)
    <3>1. Writing(s, nextKey, Current(s), Current(s)) /\ nextKey \in Key
      BY <2>1, <2>3 DEF LookupSame, Writing, InFlight, Texts, Current
    <3>. QED BY <2>1, <3>1
  <2>4. CASE TypedTranslated(s)
    <3>1. Writing(s, key[s], text[s], text[s])
      BY <2>4 DEF TypedTranslated, Writing, InFlight, Texts
    <3>. QED BY <2>1, <2>2, <3>1 DEF Writing
  <2>5. CASE VoiceWritten(s)
    <3>1. Writing(s, key[s], audio[s], text[s])
      BY <2>5 DEF VoiceWritten, Writing, InFlight, Background, Texts, Captured
    <3>. QED BY <2>1, <2>2, <3>1 DEF Writing
  <2>. QED BY <1>5, <2>3, <2>4, <2>5
           DEF Network, LookupOther, LookupFails, VoiceTranslated, VoiceCleared, TranslationFails
<1>. QED BY <1>1, <1>2, <1>3, <1>4, <1>5 DEF Next

\* Typed messages only differ from what was there by pairs of one captured text.
LEMMA NextTyped == TypeOK /\ Captured /\ TypedPairsMatch /\ [Next]_vars => TypedPairsMatch'
<1>. SUFFICES ASSUME TypeOK, Captured, TypedPairsMatch, [Next]_vars PROVE TypedPairsMatch'
  OBVIOUS
<1>1. CASE room' = room
  BY <1>1 DEF TypedPairsMatch, Written
<1>2. ASSUME NEW s \in Send, NEW k \in Key, NEW spoken \in String, NEW translated \in String,
             Writing(s, k, spoken, translated)
      PROVE  TypedPairsMatch'
  <2>1. \A j \in Key \ {k} : room'[j] = room[j]
    BY <1>2 DEF Writing, Write, TypeOK
  <2>2. /\ room'[k].voice = (kind[s] = "voice") /\ room'[k].own = Current(s)
        /\ room'[k].trans = translated
    BY <1>2 DEF Writing, Write, TypeOK
  <2>3. kind[s] # "voice" => kind[s] = "typed"
    BY DEF TypeOK
  <2>4. ~room'[k].voice => room'[k].own = room'[k].trans /\ room'[k].own # Empty
    BY <1>2, <2>2, <2>3 DEF Writing, Texts, Captured, Current
  <2>. QED BY <2>1, <2>4 DEF TypedPairsMatch, Written
<1>. QED BY <1>1, <1>2, WritingSteps

\* What the receiver of a typed message reads is the translation of what its
\* sender reads, for any number of submissions in flight.
THEOREM TypedPairs == Spec => []TypedPairsMatch
<1>1. Init => TypeOK /\ Captured /\ TypedPairsMatch
  BY InitTypes DEF Init, Captured, InFlight, Background, TypedPairsMatch, Written
<1>2. TypeOK /\ Captured /\ TypedPairsMatch /\ [Next]_vars
        => TypeOK' /\ Captured' /\ TypedPairsMatch'
  BY NextTypes, NextCaptured, NextTyped
<1>. QED BY <1>1, <1>2, PTL DEF Spec
-----------------------------------------------------------------------------
\* A dictation that is the only one of its sender finds a text at each of its
\* reads of speechText.
Voice(s, p) == InFlight(s) /\ by[s] = p /\ kind[s] = "voice"
Alone(s, p) == /\ speech[p] # Empty
               /\ phase[s] # "lookup" => text[s] # Empty
               /\ phase[s] = "reading" => audio[s] # Empty
               /\ \A t \in Send : Voice(t, p) => t = s
Undisturbed == \A p \in Person, s \in Send : ~disturbed[p] /\ Voice(s, p) => Alone(s, p)

\* A step that starts no dictation, and neither empties speechText nor changes
\* what the dictations of a person have captured.
LEMMA UndisturbedKept ==
  ASSUME TypeOK, Undisturbed, disturbed' = disturbed,
         \A p \in Person, s \in Send : Voice(s, p)' =>
            /\ Voice(s, p) /\ phase'[s] = phase[s]
            /\ text'[s] = text[s] /\ audio'[s] = audio[s]
            /\ speech[p] # Empty => speech'[p] # Empty
  PROVE  Undisturbed'
BY DEF Undisturbed, Alone, Voice, InFlight, Background

LEMMA NextUndisturbed == TypeOK /\ Captured /\ Undisturbed /\ [Next]_vars => Undisturbed'
<1>. SUFFICES ASSUME TypeOK, Captured, Undisturbed, [Next]_vars PROVE Undisturbed'
  OBVIOUS
<1>. USE DEF Voice, InFlight, Background
<1>0. ASSUME NEW p \in Person, NEW how, ProcessEnds(p, how), disturbed' = disturbed
      PROVE  Undisturbed'
  BY <1>0, UndisturbedKept DEF ProcessEnds, TypeOK
<1>1. ASSUME NEW p, NEW s \in Send, NEW t, Submit(p, s, "typed", t),
             UNCHANGED <<speech, disturbed>>
      PROVE  Undisturbed'
  BY <1>1, UndisturbedKept DEF Submit, TypeOK
<1>2. CASE LanguageChanges \/ UNCHANGED vars
  BY <1>2, UndisturbedKept DEF LanguageChanges, vars, sends, device
<1>3. ASSUME NEW p \in Person, Kill(p) \/ OpenChat(p) PROVE Undisturbed'
  BY <1>0, <1>3, UndisturbedKept DEF Kill, OpenChat, sends, device
<1>4. ASSUME NEW p \in Writer, Input(p) PROVE Undisturbed'
  <2>. p \in Person
    BY WritersArePeople
  <2>1. CASE HoldMicrophone(p) \/ RecognitionEnds(p) \/ \E t \in Text : Type(p, t)
    BY <2>1, UndisturbedKept DEF HoldMicrophone, RecognitionEnds, Type, sends
  <2>2. ASSUME NEW t \in String, Recognise(p, t) PROVE Undisturbed'
    <3>1. disturbed' = [disturbed EXCEPT ![p] = disturbed[p] \/ (t = Empty /\ Dictating(p))]
      BY <2>2 DEF Recognise
    <3>2. disturbed \in [Person -> BOOLEAN]
      BY DEF TypeOK
    <3>3. \A q \in Person : disturbed'[q] <=> disturbed[q] \/ (q = p /\ t = Empty /\ Dictating(p))
      BY <3>1, <3>2, Zenon
    <3>4. UNCHANGED <<phase, by, kind, text, audio>> /\ speech' = [speech EXCEPT ![p] = t]
      BY <2>2 DEF Recognise, sends
    <3>5. ASSUME NEW q \in Person, NEW s \in Send, ~disturbed'[q], Voice(s, q)'
          PROVE  Alone(s, q)'
      <4>1. Voice(s, q) /\ Alone(s, q)
        BY <3>3, <3>4, <3>5 DEF Undisturbed
      <4>2. speech'[q] # Empty
        BY <3>3, <3>4, <3>5, <4>1 DEF Dictating, Alone, TypeOK
      <4>. QED BY <3>4, <4>1, <4>2 DEF Alone
    <3>. QED BY <3>5 DEF Undisturbed
  <2>3. CASE SpeechRace(p) \/ HoldAgain(p)
    BY <1>0, <2>3 DEF SpeechRace, HoldAgain
  <2>4. CASE ReleaseMicrophone(p)
    <3>1. CASE engine[p] /\ speech[p] # Empty
      <4>1. PICK s \in Send : Submit(p, s, "voice", Empty)
        BY <2>4, <3>1 DEF ReleaseMicrophone
      <4>2. /\ phase'[s] = "lookup" /\ by'[s] = p /\ kind'[s] = "voice" /\ audio' = audio
            /\ \A t \in Send \ {s} : /\ phase'[t] = phase[t] /\ by'[t] = by[t]
                                     /\ kind'[t] = kind[t] /\ text'[t] = text[t]
        BY <4>1 DEF Submit, TypeOK
      <4>3. speech' = speech /\ (\A q \in Person : disturbed'[q] <=>
                                    disturbed[q] \/ (q = p /\ Dictating(p)))
        <5>1. disturbed' = [disturbed EXCEPT ![p] = disturbed[p] \/ Dictating(p)]
          BY <2>4, <3>1 DEF ReleaseMicrophone
        <5>2. disturbed \in [Person -> BOOLEAN]
          BY DEF TypeOK
        <5>3. \A q \in Person : disturbed'[q] <=> disturbed[q] \/ (q = p /\ Dictating(p))
          BY <5>1, <5>2, Zenon
        <5>. QED BY <2>4, <5>3 DEF ReleaseMicrophone
      <4>4. SUFFICES ASSUME NEW q \in Person, NEW t \in Send, ~disturbed'[q], Voice(t, q)'
            PROVE  Alone(t, q)'
        BY DEF Undisturbed
      <4>5. CASE q = p
        <5>1. \A u \in Send : ~Voice(u, p)
          BY <4>3, <4>4, <4>5 DEF Dictating
        <5>2. \A u \in Send : Voice(u, p)' => u = s
          BY <4>2, <5>1
        <5>. QED BY <3>1, <4>2, <4>3, <4>4, <4>5, <5>2 DEF Alone
      <4>6. CASE q # p
        <5>1. \A u \in Send : Voice(u, q)' => u # s /\ Voice(u, q)
          BY <4>2, <4>6
        <5>2. Alone(t, q) /\ t # s
          BY <4>3, <4>4, <5>1 DEF Undisturbed
        <5>. QED BY <4>2, <4>3, <5>1, <5>2 DEF Alone
      <4>. QED BY <4>5, <4>6
    <3>2. CASE ~(engine[p] /\ speech[p] # Empty)
      BY <2>4, <3>2, UndisturbedKept DEF ReleaseMicrophone, sends
    <3>. QED BY <3>1, <3>2
  <2>5. ASSUME NEW s \in Send, PressSend(p, s) PROVE Undisturbed'
    BY <1>1, <2>5 DEF PressSend, device
  <2>. QED BY <1>4, <2>1, <2>2, <2>3, <2>4, <2>5 DEF Input
<1>5. ASSUME NEW s \in Send, Network(s) PROVE Undisturbed'
  <2>1. CASE LookupFails(s)
    BY <1>0, <2>1 DEF LookupFails, TypeOK
  <2>2. ASSUME LookupSame(s) \/ VoiceCleared(s) PROVE Undisturbed'
    <3>1. /\ phase'[s] = "written" /\ disturbed' = disturbed
          /\ by' = by /\ kind' = kind /\ text' = text /\ audio' = audio
          /\ \A t \in Send \ {s} : phase'[t] = phase[t]
          /\ speech' = speech \/ (Voice(s, by[s]) /\ speech' = [speech EXCEPT ![by[s]] = Empty])
      <4>1. CASE LookupSame(s)
        BY <4>1 DEF LookupSame, Write, TypeOK
      <4>2. CASE VoiceCleared(s)
        BY <4>2 DEF VoiceCleared, Captured, TypeOK
      <4>. QED BY <2>2, <4>1, <4>2
    <3>. QED BY <3>1 DEF Undisturbed, Alone, TypeOK
  <2>3. CASE LookupOther(s)
    BY <2>3 DEF LookupOther, Current, Undisturbed, Alone, TypeOK
  <2>4. CASE TypedTranslated(s)
    BY <2>4, UndisturbedKept DEF TypedTranslated, Write, device, TypeOK
  <2>5. CASE VoiceTranslated(s)
    BY <2>5 DEF VoiceTranslated, Current, Undisturbed, Alone, device, TypeOK
  <2>6. CASE VoiceWritten(s)
    BY <2>6 DEF VoiceWritten, Write, Undisturbed, Alone, device, TypeOK
  <2>7. CASE TranslationFails(s)
    BY <2>7, UndisturbedKept DEF TranslationFails, device, TypeOK
  <2>. QED BY <1>5, <2>1, <2>2, <2>3, <2>4, <2>5, <2>6, <2>7 DEF Network
<1>6. ASSUME NEW p \in Person, NEW k \in Key, ChildAdded(p, k) PROVE Undisturbed'
  BY <1>0, <1>6, UndisturbedKept DEF ChildAdded, sends, device
<1>. QED BY <1>2, <1>3, <1>4, <1>5, <1>6 DEF Next

LEMMA DisturbancesStay ==
  TypeOK /\ [Next]_vars => \A p \in Person : disturbed[p] => disturbed'[p]
<1>. SUFFICES ASSUME TypeOK, [Next]_vars, NEW q \in Person, disturbed[q] PROVE disturbed'[q]
  OBVIOUS
<1>1. CASE disturbed' = disturbed
  BY <1>1
<1>2. ASSUME NEW p \in Writer, NEW again, disturbed' = [disturbed EXCEPT ![p] = @ \/ again]
      PROVE  disturbed'[q]
  <2>1. disturbed \in [Person -> BOOLEAN] /\ p \in Person
    BY WritersArePeople DEF TypeOK
  <2>. QED BY <1>2, <2>1, Zenon
<1>3. disturbed' = disturbed
      \/ \E p \in Writer :
           \/ disturbed' = [disturbed EXCEPT ![p] = @ \/ Dictating(p)]
           \/ \E t \in String : disturbed' = [disturbed EXCEPT ![p] = @ \/ (t = Empty /\ Dictating(p))]
  BY DEF Next, vars, LanguageChanges, Kill, OpenChat, Input, HoldMicrophone, RecognitionEnds,
         Type, Recognise, SpeechRace, HoldAgain, ReleaseMicrophone, PressSend, Network, LookupSame,
         LookupOther, LookupFails, TypedTranslated, VoiceTranslated, VoiceWritten,
         VoiceCleared, TranslationFails, ChildAdded
<1>. QED BY <1>1, <1>2, <1>3

DictationInv == TypeOK /\ Captured /\ Undisturbed /\ EmptyDictationWasDisturbed

LEMMA NextDictation == DictationInv /\ [Next]_vars => DictationInv'
<1>. SUFFICES ASSUME DictationInv, [Next]_vars PROVE DictationInv'
  OBVIOUS
<1>0. TypeOK /\ Captured /\ Undisturbed /\ EmptyDictationWasDisturbed
  BY DEF DictationInv
<1>1. TypeOK' /\ Captured' /\ Undisturbed'
  BY <1>0, NextTypes, NextCaptured, NextUndisturbed
<1>2. \A k \in Written : room[k].by \in Person
  BY <1>0 DEF TypeOK, Written, Message
<1>3. \A k \in Written : Empty \in {room[k].audio, room[k].own, room[k].trans}
                        => disturbed'[room[k].by]
  BY <1>0, <1>2, DisturbancesStay DEF EmptyDictationWasDisturbed
<1>4. CASE room' = room
  <2>1. \A j \in Written : room'[j].by = room[j].by
    BY <1>4
  <2>2. Written' = Written
    BY <1>4 DEF Written
  <2>3. EmptyDictationWasDisturbed'
    BY <1>3, <1>4, <2>1, <2>2 DEF EmptyDictationWasDisturbed
  <2>. QED BY <1>1, <2>3 DEF DictationInv
<1>5. ASSUME NEW s \in Send, NEW k \in Key, NEW spoken \in String, NEW translated \in String,
             Writing(s, k, spoken, translated)
      PROVE  EmptyDictationWasDisturbed'
  <2>1. \A j \in Key \ {k} : room'[j] = room[j]
    BY <1>0, <1>5 DEF Writing, Write, TypeOK
  <2>2. /\ room'[k].by = by[s] /\ room'[k].audio = spoken /\ room'[k].own = Current(s)
        /\ room'[k].trans = translated
    BY <1>0, <1>5 DEF Writing, Write, TypeOK
  <2>3. by[s] \in Person /\ InFlight(s)
    BY <1>0, <1>5 DEF TypeOK, Writing
  <2>4. CASE kind[s] = "typed"
    BY <1>0, <1>3, <1>5, <2>1, <2>2, <2>4
    DEF Writing, Texts, Captured, Current, EmptyDictationWasDisturbed, Written
  <2>5. CASE kind[s] = "voice" /\ disturbed[by[s]]
    BY <1>0, <1>3, <2>1, <2>2, <2>3, <2>5, DisturbancesStay
    DEF EmptyDictationWasDisturbed, Written
  <2>6. CASE kind[s] = "voice" /\ ~disturbed[by[s]]
    <3>1. Alone(s, by[s])
      BY <1>0, <2>3, <2>6 DEF Undisturbed, Voice
    <3>2. spoken # Empty /\ Current(s) # Empty /\ translated # Empty
      BY <1>5, <2>6, <3>1 DEF Writing, Texts, Alone, Current
    <3>. QED BY <1>3, <2>1, <2>2, <3>2 DEF EmptyDictationWasDisturbed, Written
  <2>. QED BY <1>0, <2>4, <2>5, <2>6 DEF TypeOK
<1>6. CASE room' # room
  BY <1>0, <1>1, <1>5, <1>6, WritingSteps DEF DictationInv
<1>. QED BY <1>4, <1>6

\* An empty dictation is only ever written after a dictation of its sender was
\* disturbed on its way, by a second one or by an empty result, however long its
\* requests take and whatever is killed (ChatViewController.swift:156-170, 256-259).
THEOREM DictationsKeepTheirText == Spec => []EmptyDictationWasDisturbed
<1>1. Init => DictationInv
  BY InitTypes DEF Init, DictationInv, Captured, Undisturbed, Voice, InFlight, Background,
                   EmptyDictationWasDisturbed, Written
<1>2. DictationInv /\ [Next]_vars => DictationInv'
  BY NextDictation
<1>3. DictationInv => EmptyDictationWasDisturbed
  BY DEF DictationInv
<1>. QED BY <1>1, <1>2, <1>3, PTL DEF Spec
-----------------------------------------------------------------------------
\* An observer that finds no text in a message ends its process: by then the
\* dictation of somebody had been disturbed.
LEMMA NextReadable ==
  DictationInv /\ UndisturbedIsReadable /\ [Next]_vars => UndisturbedIsReadable'
<1>. SUFFICES ASSUME DictationInv, UndisturbedIsReadable, [Next]_vars,
                     NEW q \in Person, app'[q] = "nilText"
              PROVE  \E p \in Person : disturbed'[p]
  BY DEF UndisturbedIsReadable
<1>0. TypeOK
  BY DEF DictationInv
<1>1. ASSUME NEW p \in Person, disturbed[p] PROVE \E r \in Person : disturbed'[r]
  BY <1>0, <1>1, DisturbancesStay
<1>2. CASE app[q] = "nilText"
  BY <1>1, <1>2 DEF UndisturbedIsReadable
<1>3. ASSUME NEW p \in Person, NEW k \in Key, ChildAdded(p, k), Unreadable(room[k])
      PROVE  \E r \in Person : disturbed'[r]
  <2>1. k \in Written /\ room[k].by \in Person /\ room[k].audio = Empty
    BY <1>0, <1>3 DEF ChildAdded, Unreadable, TypeOK, Written, Message
  <2>. QED BY <1>1, <2>1 DEF DictationInv, EmptyDictationWasDisturbed
<1>4. ASSUME app[q] # "nilText"
      PROVE  \E p \in Person, k \in Key : ChildAdded(p, k) /\ Unreadable(room[k])
  <2>1. ASSUME NEW p \in Person, NEW how, how # "nilText", ProcessEnds(p, how) PROVE FALSE
    BY <1>0, <1>4, <2>1 DEF ProcessEnds, TypeOK
  <2>2. ~ LanguageChanges /\ vars' # vars
    BY <1>4 DEF LanguageChanges, vars
  <2>3. \A p \in Person : ~ Kill(p) /\ ~ OpenChat(p)
    BY <1>0, <1>4, <2>1 DEF Kill, OpenChat, TypeOK
  <2>4. \A p \in Writer : ~ Input(p)
    BY <1>4, <2>1, WritersArePeople
       DEF Input, HoldMicrophone, RecognitionEnds, Type, Recognise, SpeechRace, HoldAgain,
           ReleaseMicrophone, PressSend
  <2>5. \A s \in Send : ~ Network(s)
    BY <1>0, <1>4, <2>1
       DEF Network, LookupSame, LookupOther, LookupFails, TypedTranslated, VoiceTranslated,
           VoiceWritten, VoiceCleared, TranslationFails, TypeOK
  <2>6. \E p \in Person, k \in Key : ChildAdded(p, k)
    BY <2>2, <2>3, <2>4, <2>5 DEF Next
  <2>. QED BY <1>4, <2>6 DEF ChildAdded
<1>. QED BY <1>2, <1>3, <1>4

\* Dictations that neither a second one nor an empty result disturbs leave no
\* message behind that ends the phones which read it (ChatViewController.swift:130).
THEOREM UndisturbedAreReadable == Spec => []UndisturbedIsReadable
<1>1. Init => DictationInv /\ UndisturbedIsReadable
  BY InitTypes DEF Init, DictationInv, Captured, Undisturbed, Voice, InFlight, Background,
                   EmptyDictationWasDisturbed, Written, UndisturbedIsReadable
<1>2. DictationInv /\ UndisturbedIsReadable /\ [Next]_vars
        => DictationInv' /\ UndisturbedIsReadable'
  BY NextDictation, NextReadable
<1>. QED BY <1>1, <1>2, PTL DEF Spec
-----------------------------------------------------------------------------
\* Chat as an implementation of MessageRoom.  The mapped variables stay the same
\* while no submission begins and nothing is written.
Kept(s) == /\ (phase[s] = "unused") <=> (phase'[s] = "unused")
           /\ phase[s] # "unused" => by'[s] = by[s] /\ kind'[s] = kind[s]
                                     /\ TypedText(s)' = TypedText(s)

LEMMA SubmittedKept ==
  ASSUME \A s \in Send : Kept(s) PROVE Submitted' = Submitted
BY DEF Submitted, Kept

LEMMA PostedKept == ASSUME room' = room PROVE Posted' = Posted
BY DEF Posted

LEMMA QuietIsStutter ==
  ASSUME room' = room, seen' = seen, \A s \in Send : Kept(s)
  PROVE  UNCHANGED Room!vars
BY SubmittedKept, PostedKept DEF Room!vars

\* The end of a process: its observer is gone.
LEMMA EndLeaves ==
  ASSUME TypeOK, NEW p \in Person, NEW how, ProcessEnds(p, how), room' = room
  PROVE  Room!Leave(p)
<1>1. \A s \in Send : Kept(s)
  BY DEF ProcessEnds, Kept, TypedText, InFlight, Background, TypeOK
<1>2. Submitted' = Submitted /\ Posted' = Posted
  BY <1>1, SubmittedKept, PostedKept
<1>3. seen' = [seen EXCEPT ![p] = {}]
  BY DEF ProcessEnds
<1>. QED BY <1>2, <1>3 DEF Room!Leave

LEMMA SubmitSubmits ==
  ASSUME TypeOK, NEW p \in Person, NEW s \in Send, NEW how \in {"typed", "voice"},
         NEW t \in String, Submit(p, s, how, t), how = "voice" => t = Empty,
         room' = room, seen' = seen
  PROVE  \E voice \in BOOLEAN, x \in String : Room!Submit(s, p, voice, x)
<1>1. Submitted[s] = None /\ s \in Send
  BY DEF Submit, Submitted
<1>2. /\ phase'[s] = "lookup" /\ by'[s] = p /\ kind'[s] = how /\ TypedText(s)' = t
      /\ \A r \in Send \ {s} : Kept(r)
  BY DEF Submit, TypedText, Kept, TypeOK
<1>3. Submitted' = [Submitted EXCEPT ![s] = [by |-> p, voice |-> how = "voice", text |-> t]]
  BY <1>2 DEF Submitted, Kept
<1>4. Posted' = Posted
  BY PostedKept
<1>5. Room!Submit(s, p, how = "voice", t)
  BY <1>1, <1>3, <1>4 DEF Room!Submit
<1>. QED BY <1>5

\* Writing to a key that nobody has written to is posting.
LEMMA WritePosts ==
  ASSUME KeyInv, NEW s \in Send, NEW k \in Key, NEW spoken, NEW translated,
         Write(s, k, spoken, translated), phase[s] \in {"lookup", "translating", "reading"},
         room[k] = None, UNCHANGED <<by, kind, text, seen>>
  PROVE  \E x \in String : Room!Post(s, k, x)
<1>0. TypeOK /\ Current(s) \in String /\ kind[s] \in {"typed", "voice"}
  BY CurrentTypes DEF KeyInv, TypeOK
<1>1. \A r \in Send : Kept(r)
  BY <1>0 DEF Write, Kept, TypedText, TypeOK
<1>2. Submitted' = Submitted
  BY <1>1, SubmittedKept
<1>3. Submitted[s] = [by |-> by[s], voice |-> kind[s] = "voice", text |-> TypedText(s)]
  BY DEF Submitted
<1>4. Submitted[s] # None
  BY <1>3 DEF None
<1>5. Posted[k] = None
  BY DEF Posted
<1>6. ASSUME NEW j \in Key, Posted[j] # None PROVE Posted[j].from # s
  <2>1. j \in Written /\ Posted[j].from = room[j].send
    BY <1>6 DEF Posted, Written
  <2>. QED BY <2>1 DEF KeyInv, WritersFinished, Finished
<1>7. ~Submitted[s].voice => Current(s) = Submitted[s].text
  <2>1. Submitted[s].text = TypedText(s) /\ Submitted[s].voice = (kind[s] = "voice")
    BY <1>3
  <2>2. CASE kind[s] = "voice"
    BY <2>1, <2>2
  <2>3. CASE kind[s] = "typed"
    BY <2>1, <2>3 DEF Current, TypedText
  <2>. QED BY <1>0, <2>2, <2>3
<1>8. Posted' = [Posted EXCEPT ![k] = [from |-> s, by |-> Submitted[s].by,
                                       voice |-> Submitted[s].voice, text |-> Current(s)]]
  <2>1. /\ \A j \in Key \ {k} : room'[j] = room[j]
        /\ room'[k] = [by |-> by[s], voice |-> kind[s] = "voice", audio |-> spoken,
                       own |-> Current(s), trans |-> translated, send |-> s]
    BY <1>0 DEF Write, TypeOK
  <2>2. room'[k] # None
    BY <2>1 DEF None
  <2>3. \A j \in Key \ {k} : Posted'[j] = Posted[j]
    BY <2>1 DEF Posted
  <2>4. Posted'[k] = [from |-> s, by |-> Submitted[s].by, voice |-> Submitted[s].voice,
                      text |-> Current(s)]
    BY <1>3, <2>1, <2>2 DEF Posted
  <2>. QED BY <2>3, <2>4 DEF Posted
<1>9. Room!Post(s, k, Current(s))
  BY <1>2, <1>4, <1>5, <1>6, <1>7, <1>8 DEF Room!Post
<1>. QED BY <1>0, <1>9

\* Every step of the conversation is one of MessageRoom, or none.
LEMMA StepOfRoom == KeyInv /\ [Next]_vars => [Room!Next]_(Room!vars)
<1>. SUFFICES ASSUME KeyInv, [Next]_vars PROVE Room!Next \/ UNCHANGED Room!vars
  OBVIOUS
<1>0. TypeOK
  BY DEF KeyInv
<1>. USE DEF Kept
<1>1. ASSUME NEW p \in Person, NEW how, ProcessEnds(p, how), room' = room PROVE Room!Next
  BY <1>0, <1>1, EndLeaves DEF Room!Next
<1>2. ASSUME NEW p \in Person, NEW s \in Send, NEW how \in {"typed", "voice"},
             NEW t \in String, Submit(p, s, how, t), how = "voice" => t = Empty,
             room' = room, seen' = seen
      PROVE  Room!Next
  BY <1>0, <1>2, SubmitSubmits DEF Room!Next
<1>3. CASE LanguageChanges \/ UNCHANGED vars
  BY <1>3, QuietIsStutter DEF LanguageChanges, vars, sends, TypedText
<1>4. ASSUME NEW p \in Person, Kill(p) \/ OpenChat(p) PROVE Room!Next \/ UNCHANGED Room!vars
  BY <1>1, <1>4, QuietIsStutter DEF Kill, OpenChat, sends, TypedText
<1>5. ASSUME NEW p \in Writer, Input(p) PROVE Room!Next \/ UNCHANGED Room!vars
  <2>. p \in Person
    BY WritersArePeople
  <2>1. CASE \/ HoldMicrophone(p) \/ RecognitionEnds(p)
             \/ (\E t \in Text : Type(p, t)) \/ (\E t \in String : Recognise(p, t))
    BY <2>1, QuietIsStutter
       DEF HoldMicrophone, RecognitionEnds, Type, Recognise, sends, TypedText
  <2>2. CASE SpeechRace(p) \/ HoldAgain(p)
    BY <1>1, <2>2 DEF SpeechRace, HoldAgain
  <2>3. CASE ReleaseMicrophone(p)
    <3>1. Empty \in String
      BY DEF String
    <3>2. CASE engine[p] /\ speech[p] # Empty
      BY <1>2, <2>3, <3>1, <3>2 DEF ReleaseMicrophone
    <3>3. CASE ~(engine[p] /\ speech[p] # Empty)
      BY <2>3, <3>3, QuietIsStutter DEF ReleaseMicrophone, sends, TypedText
    <3>. QED BY <3>2, <3>3
  <2>4. ASSUME NEW s \in Send, PressSend(p, s) PROVE Room!Next
    <3>1. composer[p] \in String
      BY <1>0 DEF TypeOK
    <3>. QED BY <1>2, <2>4, <3>1 DEF PressSend
  <2>. QED BY <1>5, <2>1, <2>2, <2>3, <2>4 DEF Input
<1>6. ASSUME NEW s \in Send, Network(s) PROVE Room!Next \/ UNCHANGED Room!vars
  <2>1. ASSUME NEW k \in Key, NEW spoken, NEW translated, Write(s, k, spoken, translated),
               phase[s] \in {"lookup", "translating", "reading"}, room[k] = None,
               UNCHANGED <<by, kind, text, seen>>
        PROVE  Room!Next
    BY <2>1, WritePosts DEF Room!Next
  <2>2. CASE LookupSame(s)
    <3>1. nextKey \in Key => room[nextKey] = None
      BY <1>0 DEF KeyInv, WrittenBelow, Written, TypeOK
    <3>. QED BY <2>1, <2>2, <3>1 DEF LookupSame
  <2>3. CASE LookupOther(s)
    <3>1. room' = room /\ seen' = seen
      BY <2>3 DEF LookupOther
    <3>2. \A r \in Send : Kept(r)
      BY <1>0, <2>3 DEF LookupOther, TypedText, Current, TypeOK
    <3>. QED BY <3>1, <3>2, QuietIsStutter
  <2>4. CASE LookupFails(s)
    BY <1>0, <1>1, <2>4 DEF LookupFails, TypeOK
  <2>5. CASE TypedTranslated(s) \/ VoiceWritten(s)
    <3>1. key[s] \in Key /\ room[key[s]] = None
      BY <2>5 DEF TypedTranslated, VoiceWritten, KeyInv, KeysReserved, Reserved
    <3>. QED BY <2>1, <2>5, <3>1 DEF TypedTranslated, VoiceWritten
  <2>6. CASE VoiceTranslated(s) \/ VoiceCleared(s) \/ TranslationFails(s)
    BY <1>0, <2>6, QuietIsStutter
       DEF VoiceTranslated, VoiceCleared, TranslationFails, TypedText, TypeOK
  <2>. QED BY <1>6, <2>2, <2>3, <2>4, <2>5, <2>6 DEF Network
<1>7. ASSUME NEW p \in Person, NEW k \in Key, ChildAdded(p, k) PROVE Room!Next
  <2>1. CASE Unreadable(room[k])
    BY <1>1, <1>7, <2>1 DEF ChildAdded
  <2>2. CASE ~Unreadable(room[k])
    <3>1. Submitted' = Submitted /\ Posted' = Posted
      BY <1>7, <2>2, SubmittedKept, PostedKept DEF ChildAdded, sends, TypedText
    <3>2. Posted[k] # None
      BY <1>7 DEF ChildAdded, Written, Posted, None
    <3>3. Room!Tell(p, k)
      BY <1>7, <2>2, <3>1, <3>2 DEF ChildAdded, Room!Tell
    <3>. QED BY <3>3 DEF Room!Next
  <2>. QED BY <2>1, <2>2
<1>. QED BY <1>3, <1>4, <1>5, <1>6, <1>7 DEF Next

\* A conversation of any number of people, submissions and keys keeps the promises
\* of MessageRoom.
THEOREM ImplementsRoom == Spec => RoomSpec
<1>1. Init => Room!Init
  BY DEF Init, Room!Init, Submitted, Posted
<1>2. Init => KeyInv
  BY InitKeys
<1>3. KeyInv /\ [Next]_vars => KeyInv'
  BY NextKeys
<1>4. KeyInv /\ [Next]_vars => [Room!Next]_(Room!vars)
  BY StepOfRoom
<1>. QED BY <1>1, <1>2, <1>3, <1>4, PTL DEF Spec, RoomSpec, Room!Spec
=============================================================================
