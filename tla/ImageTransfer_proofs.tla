----------------------- MODULE ImageTransfer_proofs -----------------------
(***************************************************************************)
(* Theorems about ImageTransfer, for any number of transfers.              *)
(***************************************************************************)
EXTENDS ImageTransfer, TLAPS

LEMMA Naming ==
  /\ Upload \subseteq Transfer /\ Download \subseteq Transfer
  /\ None \notin Transfer /\ Torn \notin Transfer /\ None # Torn
  /\ None \notin Image /\ Torn \notin Image
  /\ \A u \in Upload : u \notin Download /\ u \notin Photo
BY TransfersDiffer, NothingIsATransfer DEF Transfer, Image

USE Naming DEF Goes, InFlight, Over

(***************************************************************************)
(* TypeOK is inductive.                                                    *)
(***************************************************************************)
LEMMA TypeInit == Init => TypeOK
BY RetriesAreNatural, KeysAreKnown DEF Init, TypeOK, Content, Image, Phases, Transfer

LEMMA TypeNext == TypeOK /\ [Next]_vars => TypeOK'
<1> SUFFICES ASSUME TypeOK, [Next]_vars PROVE TypeOK'
  OBVIOUS
<1> USE RetriesAreNatural, KeysAreKnown DEF TypeOK, Phases, Content
<1>1. CASE ProcessEnds
  BY <1>1 DEF ProcessEnds, file, gets, uploads
<1>2. ASSUME NEW u \in Upload, BeginWrite(u) \/ WriteNothing(u) PROVE TypeOK'
  <2>1. CASE BeginWrite(u) BY <2>1 DEF BeginWrite, Begins, gets
  <2>2. CASE WriteNothing(u) BY <2>2 DEF WriteNothing, Begins, file, gets
  <2> QED BY <1>2, <2>1, <2>2
<1>3. ASSUME NEW u \in Upload, Uploading(u) PROVE TypeOK'
  <2>1. CASE EndWrite(u) BY <2>1 DEF EndWrite, gets, uploads, Image
  <2>2. CASE WriteFails(u) BY <2>2 DEF WriteFails, file, gets, uploads
  <2>3. CASE CallUpload(u) BY <2>3 DEF CallUpload, file, gets, uploads
  <2>4. CASE CallUploadInVain(u) BY <2>4 DEF CallUploadInVain, file, gets, uploads
  <2>5. CASE OpenBody(u) BY <2>5 DEF OpenBody, file, gets
  <2>6. CASE FirstPart(u) BY <2>6 DEF FirstPart, file, gets
  <2>7. CASE SendRest(u) \/ SecondPart(u)
    BY <2>7 DEF SendRest, SecondPart, Store, file, gets, uploads
  <2>8. CASE Stored(u) BY <2>8 DEF Stored, file, gets, uploads
  <2> QED BY <1>3, <2>1, <2>2, <2>3, <2>4, <2>5, <2>6, <2>7, <2>8 DEF Uploading
<1>4. ASSUME NEW t \in Transfer, Ending(t) PROVE TypeOK'
  <2>1. CASE Complete(t) BY <2>1 DEF Complete, file, gets, uploads
  <2>2. CASE Retry(t) BY <2>2 DEF Retry, CloseHandle, Broken, file, uploads
  <2>3. CASE Fail(t) BY <2>3 DEF Fail, CloseHandle, Broken, file, uploads
  <2> QED BY <1>4, <2>1, <2>2, <2>3 DEF Ending
<1>5. ASSUME NEW d \in Download, Request(d) \/ ReceivePart(d) PROVE TypeOK'
  <2>1. CASE Request(d) BY <2>1 DEF Request, Begins, file, gets, uploads
  <2>2. CASE ReceivePart(d) BY <2>2 DEF ReceivePart, Append, file, uploads
  <2> QED BY <1>5, <2>1, <2>2
<1>6. ASSUME NEW d \in Download, Downloading(d) PROVE TypeOK'
  <2>1. CASE Respond(d) BY <2>1 DEF Respond, file, uploads
  <2>2. CASE Receive(d) BY <2>2 DEF Receive, Append, Image, file, uploads
  <2>3. CASE RefusedOnClosedHandle(d)
    BY <2>3 DEF RefusedOnClosedHandle, ProcessEnds, file, gets, uploads
  <2>4. CASE Remove(d) BY <2>4 DEF Remove, uploads
  <2>5. CASE MoveIn(d) BY <2>5 DEF MoveIn, gets, uploads
  <2>6. CASE MoveFails(d) BY <2>6 DEF MoveFails, file, gets, uploads
  <2>7. CASE Read(d) BY <2>7 DEF Read, file, uploads
  <2>8. CASE MoveNothing(d) BY <2>8 DEF MoveNothing, file, gets, uploads
  <2> QED BY <1>6, <2>1, <2>2, <2>3, <2>4, <2>5, <2>6, <2>7, <2>8 DEF Downloading
<1>7. CASE UNCHANGED vars
  BY <1>7 DEF vars, file, gets, uploads
<1> QED
  BY <1>1, <1>2, <1>3, <1>4, <1>5, <1>6, <1>7 DEF Next

(* Every reachable state of AwsHelper and the transfer manager has its     *)
(* type, for any number of transfers and retries.                          *)
THEOREM Typed == Spec => []TypeOK
BY TypeInit, TypeNext, PTL DEF Spec

(***************************************************************************)
(* Who holds the main thread and the delegate queue, and which phases an   *)
(* upload and a download go through.                                       *)
(***************************************************************************)
Locks ==
  /\ \A d \in Download : phase[d] \in {"moving", "reading"} <=> queue = d
  /\ \A u \in Upload : phase[u] \in {"writing", "written"} <=> main = u
  /\ \A d \in Download :
       phase[d] \notin {"writing", "written", "multipart", "sending", "stored"}
  /\ \A u \in Upload :
       phase[u] \notin {"receiving", "cut", "received", "moving", "reading"}

LEMMA LocksNext == TypeOK /\ Locks /\ [Next]_vars => Locks'
<1> SUFFICES ASSUME TypeOK, Locks, [Next]_vars PROVE Locks'
  OBVIOUS
<1> USE DEF TypeOK, Locks, Transfer
<1>1. CASE ProcessEnds
  BY <1>1 DEF ProcessEnds, file, gets, uploads
<1>2. ASSUME NEW u \in Upload, BeginWrite(u) \/ WriteNothing(u) PROVE Locks'
  <2>1. CASE BeginWrite(u) BY <2>1 DEF BeginWrite, Begins, gets
  <2>2. CASE WriteNothing(u) BY <2>2 DEF WriteNothing, Begins, file, gets
  <2> QED BY <1>2, <2>1, <2>2
<1>3. ASSUME NEW u \in Upload, Uploading(u) PROVE Locks'
  <2>1. CASE EndWrite(u) BY <2>1 DEF EndWrite, gets, uploads
  <2>2. CASE WriteFails(u) BY <2>2 DEF WriteFails, file, gets, uploads
  <2>3. CASE CallUpload(u) BY <2>3 DEF CallUpload, file, gets, uploads
  <2>4. CASE CallUploadInVain(u) BY <2>4 DEF CallUploadInVain, file, gets, uploads
  <2>5. CASE OpenBody(u) BY <2>5 DEF OpenBody, file, gets
  <2>6. CASE FirstPart(u) BY <2>6 DEF FirstPart, file, gets
  <2>7. CASE SendRest(u) BY <2>7 DEF SendRest, Store, file, gets, uploads
  <2>8. CASE SecondPart(u) BY <2>8 DEF SecondPart, Store, file, gets, uploads
  <2>9. CASE Stored(u) BY <2>9 DEF Stored, file, gets, uploads
  <2> QED BY <1>3, <2>1, <2>2, <2>3, <2>4, <2>5, <2>6, <2>7, <2>8, <2>9 DEF Uploading
<1>4. ASSUME NEW t \in Transfer, Ending(t) PROVE Locks'
  <2>1. CASE Complete(t) BY <2>1 DEF Complete, file, gets, uploads
  <2>2. CASE Retry(t) BY <2>2 DEF Retry, CloseHandle, Broken, file, uploads
  <2>3. CASE Fail(t) BY <2>3 DEF Fail, CloseHandle, Broken, file, uploads
  <2> QED BY <1>4, <2>1, <2>2, <2>3 DEF Ending
<1>5. ASSUME NEW d \in Download, Request(d) \/ ReceivePart(d) PROVE Locks'
  <2>1. CASE Request(d) BY <2>1 DEF Request, Begins, file, gets, uploads
  <2>2. CASE ReceivePart(d) BY <2>2 DEF ReceivePart, Append, file, uploads
  <2> QED BY <1>5, <2>1, <2>2
<1>6. ASSUME NEW d \in Download, Downloading(d) PROVE Locks'
  <2>1. CASE Respond(d) BY <2>1 DEF Respond, file, uploads
  <2>2. CASE Receive(d) BY <2>2 DEF Receive, Append, file, uploads
  <2>3. CASE RefusedOnClosedHandle(d)
    BY <2>3 DEF RefusedOnClosedHandle, ProcessEnds, file, gets, uploads
  <2>4. CASE Remove(d) BY <2>4 DEF Remove, uploads
  <2>5. CASE MoveIn(d) BY <2>5 DEF MoveIn, gets, uploads
  <2>6. CASE MoveFails(d) BY <2>6 DEF MoveFails, file, gets, uploads
  <2>7. CASE Read(d) BY <2>7 DEF Read, file, uploads
  <2>8. CASE MoveNothing(d) BY <2>8 DEF MoveNothing, file, gets, uploads
  <2> QED BY <1>6, <2>1, <2>2, <2>3, <2>4, <2>5, <2>6, <2>7, <2>8 DEF Downloading
<1>7. CASE UNCHANGED vars
  BY <1>7 DEF vars, file, gets, uploads
<1> QED
  BY <1>1, <1>2, <1>3, <1>4, <1>5, <1>6, <1>7 DEF Next

(***************************************************************************)
(* What the files and an upload's body hold.                               *)
(***************************************************************************)
Files ==
  /\ path # None => data[path] # None
  /\ \A u \in Upload : phase[u] = "writing" => source[u] # None
  /\ \A u \in Upload : phase[u] = "sending" => body[u] # None
  /\ \A u \in Upload : phase[u] \in {"stored", "posted", "done"} => bucket[u] # None
  /\ \A u \in Upload : phase[u] = "idle" => bucket[u] = None
  /\ \A d \in Download :
       handle[d] # "none" /\ phase[d] \in {"received", "moving", "reading"} => temp[d] # None
  /\ \A d \in Download : phase[d] \in {"receiving", "received"} => handle[d] # "closed"
  /\ \A d \in Download : phase[d] = "moving" => handle[d] # "none"
  /\ \A d \in Download : phase[d] # "idle" => bucket[For[d]] # None

LEMMA FilesNext == TypeOK /\ Locks /\ Files /\ [Next]_vars => Files'
<1> SUFFICES ASSUME TypeOK, Locks, Files, [Next]_vars PROVE Files'
  OBVIOUS
<1> USE KeysAreKnown DEF TypeOK, Locks, Files, Transfer, Image
<1>1. CASE ProcessEnds
  BY <1>1 DEF ProcessEnds, file, gets, uploads
<1>2. ASSUME NEW u \in Upload, BeginWrite(u) \/ WriteNothing(u) PROVE Files'
  <2>1. CASE BeginWrite(u) BY <2>1 DEF BeginWrite, Begins, gets
  <2>2. CASE WriteNothing(u) BY <2>2 DEF WriteNothing, Begins, file, gets
  <2> QED BY <1>2, <2>1, <2>2
<1>3. ASSUME NEW u \in Upload, Uploading(u) PROVE Files'
  <2>1. CASE EndWrite(u) BY <2>1 DEF EndWrite, gets, uploads
  <2>2. CASE WriteFails(u) BY <2>2 DEF WriteFails, file, gets, uploads
  <2>3. CASE CallUpload(u) BY <2>3 DEF CallUpload, file, gets, uploads
  <2>4. CASE CallUploadInVain(u) BY <2>4 DEF CallUploadInVain, file, gets, uploads
  <2>5. CASE OpenBody(u) BY <2>5 DEF OpenBody, file, gets
  <2>6. CASE FirstPart(u) BY <2>6 DEF FirstPart, file, gets
  <2>7. CASE SendRest(u) BY <2>7 DEF SendRest, Store, file, gets, uploads
  <2>8. CASE SecondPart(u) BY <2>8 DEF SecondPart, Store, file, gets, uploads
  <2>9. CASE Stored(u) BY <2>9 DEF Stored, file, gets, uploads
  <2> QED BY <1>3, <2>1, <2>2, <2>3, <2>4, <2>5, <2>6, <2>7, <2>8, <2>9 DEF Uploading
<1>4. ASSUME NEW t \in Transfer, Ending(t) PROVE Files'
  <2>1. CASE Complete(t) BY <2>1 DEF Complete, file, gets, uploads
  <2>2. CASE Retry(t) BY <2>2 DEF Retry, CloseHandle, Broken, file, uploads
  <2>3. CASE Fail(t) BY <2>3 DEF Fail, CloseHandle, Broken, file, uploads
  <2> QED BY <1>4, <2>1, <2>2, <2>3 DEF Ending
<1>5. ASSUME NEW d \in Download, Request(d) \/ ReceivePart(d) PROVE Files'
  <2>1. CASE Request(d) BY <2>1 DEF Request, Begins, file, gets, uploads
  <2>2. CASE ReceivePart(d) BY <2>2 DEF ReceivePart, Append, file, uploads
  <2> QED BY <1>5, <2>1, <2>2
<1>6. ASSUME NEW d \in Download, Downloading(d) PROVE Files'
  <2>1. CASE Respond(d) BY <2>1 DEF Respond, file, uploads
  <2>2. CASE Receive(d) BY <2>2 DEF Receive, Append, file, uploads
  <2>3. CASE RefusedOnClosedHandle(d)
    BY <2>3 DEF RefusedOnClosedHandle, ProcessEnds, file, gets, uploads
  <2>4. CASE Remove(d) BY <2>4 DEF Remove, uploads
  <2>5. CASE MoveIn(d) BY <2>5 DEF MoveIn, gets, uploads
  <2>6. CASE MoveFails(d) BY <2>6 DEF MoveFails, file, gets, uploads
  <2>7. CASE Read(d) BY <2>7 DEF Read, file, uploads
  <2>8. CASE MoveNothing(d) BY <2>8 DEF MoveNothing, file, gets, uploads
  <2> QED BY <1>6, <2>1, <2>2, <2>3, <2>4, <2>5, <2>6, <2>7, <2>8 DEF Downloading
<1>7. CASE UNCHANGED vars
  BY <1>7 DEF vars, file, gets, uploads
<1> QED
  BY <1>1, <1>2, <1>3, <1>4, <1>5, <1>6, <1>7 DEF Next

(***************************************************************************)
(* What downloads have fetched, and what the one that is read back finds.  *)
(***************************************************************************)
Downloads ==
  /\ \A d \in Download : temp[d] \in {None, Torn, bucket[For[d]]}
  /\ \A d \in Download :
       handle[d] # "none" => got[d] \in {None, Torn, bucket[For[d]]} \cup Upload
  /\ \A d \in Download :
       phase[d] = "idle" => temp[d] = None /\ got[d] = None /\ attempt[d] = 0
  /\ \A d \in Download :
       phase[d] # "idle" /\ For[d] \in Upload => phase[For[d]] = "done"
  /\ \A d \in Download :
       phase[d] \in {"requested", "receiving", "cut", "received", "moving", "reading"}
         => got[d] = None
  /\ \A d \in Download : handle[d] # "none" /\ phase[d] = "reading" =>
       path = d /\ data[d] \in {temp[d], Torn} \cup Upload
  /\ \A d \in Download :
       phase[d] \in {"requested", "receiving"} /\ attempt[d] = 0 => temp[d] = None
  /\ \A d \in Download :
       handle[d] # "none" /\ phase[d] \in {"received", "moving", "reading"} /\ attempt[d] = 0
         => temp[d] = bucket[For[d]]
  /\ \A i \in Photo : bucket[i] = i

LEMMA DownloadsNext ==
  TypeOK /\ Locks /\ Files /\ Downloads /\ [Next]_vars => Downloads'
<1> SUFFICES ASSUME TypeOK, Locks, Files, Downloads, [Next]_vars PROVE Downloads'
  OBVIOUS
<1> USE KeysAreKnown DEF TypeOK, Locks, Files, Downloads, Transfer, Image
<1>1. CASE ProcessEnds
  BY <1>1 DEF ProcessEnds, file, gets, uploads
<1>2. ASSUME NEW u \in Upload, BeginWrite(u) \/ WriteNothing(u) PROVE Downloads'
  <2>1. CASE BeginWrite(u) BY <2>1 DEF BeginWrite, Begins, gets
  <2>2. CASE WriteNothing(u) BY <2>2 DEF WriteNothing, Begins, file, gets
  <2> QED BY <1>2, <2>1, <2>2
<1>3. ASSUME NEW u \in Upload, Uploading(u) PROVE Downloads'
  <2>1. CASE EndWrite(u) BY <2>1 DEF EndWrite, gets, uploads
  <2>2. CASE WriteFails(u) BY <2>2 DEF WriteFails, file, gets, uploads
  <2>3. CASE CallUpload(u) BY <2>3 DEF CallUpload, file, gets, uploads
  <2>4. CASE CallUploadInVain(u) BY <2>4 DEF CallUploadInVain, file, gets, uploads
  <2>5. CASE OpenBody(u) BY <2>5 DEF OpenBody, file, gets
  <2>6. CASE FirstPart(u) BY <2>6 DEF FirstPart, file, gets
  <2>7. CASE SendRest(u) BY <2>7 DEF SendRest, Store, file, gets, uploads
  <2>8. CASE SecondPart(u) BY <2>8 DEF SecondPart, Store, file, gets, uploads
  <2>9. CASE Stored(u) BY <2>9 DEF Stored, file, gets, uploads
  <2> QED BY <1>3, <2>1, <2>2, <2>3, <2>4, <2>5, <2>6, <2>7, <2>8, <2>9 DEF Uploading
<1>4. ASSUME NEW t \in Transfer, Ending(t) PROVE Downloads'
  <2>1. CASE Complete(t) BY <2>1 DEF Complete, file, gets, uploads
  <2>2. CASE Retry(t) BY <2>2 DEF Retry, CloseHandle, Broken, file, uploads
  <2>3. CASE Fail(t) BY <2>3 DEF Fail, CloseHandle, Broken, file, uploads
  <2> QED BY <1>4, <2>1, <2>2, <2>3 DEF Ending
<1>5. ASSUME NEW d \in Download, Request(d) \/ ReceivePart(d) PROVE Downloads'
  <2>1. CASE Request(d) BY <2>1 DEF Request, Begins, file, gets, uploads
  <2>2. CASE ReceivePart(d) BY <2>2 DEF ReceivePart, Append, file, uploads
  <2> QED BY <1>5, <2>1, <2>2
<1>6. ASSUME NEW d \in Download, Downloading(d) PROVE Downloads'
  <2>1. CASE Respond(d) BY <2>1 DEF Respond, file, uploads
  <2>2. CASE Receive(d) BY <2>2 DEF Receive, Append, file, uploads
  <2>3. CASE RefusedOnClosedHandle(d)
    BY <2>3 DEF RefusedOnClosedHandle, ProcessEnds, file, gets, uploads
  <2>4. CASE Remove(d) BY <2>4 DEF Remove, uploads
  <2>5. CASE MoveIn(d) BY <2>5 DEF MoveIn, gets, uploads
  <2>6. CASE MoveFails(d) BY <2>6 DEF MoveFails, file, gets, uploads
  <2>7. CASE Read(d) BY <2>7 DEF Read, file, uploads
  <2>8. CASE MoveNothing(d) BY <2>8 DEF MoveNothing, file, gets, uploads
  <2> QED BY <1>6, <2>1, <2>2, <2>3, <2>4, <2>5, <2>6, <2>7, <2>8 DEF Downloading
<1>7. CASE UNCHANGED vars
  BY <1>7 DEF vars, file, gets, uploads
<1> QED
  BY <1>1, <1>2, <1>3, <1>4, <1>5, <1>6, <1>7 DEF Next

(***************************************************************************)
(* A transfer that nobody disturbs: nobody else is under way, so the file  *)
(* is the one it left there.                                               *)
(***************************************************************************)
AloneInv ==
  /\ \A t, o \in Transfer : alone[t] /\ InFlight(t) /\ InFlight(o) => o = t
  /\ \A u \in Upload : alone[u] /\ wrote[u] => bucket[u] \in {None, u}
  /\ \A u \in Upload :
       alone[u] /\ phase[u] = "writing" => path # None /\ path = source[u]
  /\ \A u \in Upload : alone[u] /\ wrote[u]
       /\ phase[u] \in {"written", "requested", "multipart", "sending", "stored"}
         => path # None /\ data[path] = u
  /\ \A u \in Upload : alone[u] /\ wrote[u] /\ phase[u] = "sending" =>
       body[u] = u /\ source[u] \in {None, path}
  /\ \A d \in Download : alone[d] /\ phase[d] = "moving" => path = None
  /\ \A d \in Download : alone[d] /\ handle[d] # "none" /\ phase[d] = "reading" =>
       path = d /\ data[path] = temp[d]
  /\ \A d \in Download : alone[d] /\ handle[d] # "none" /\ got[d] # None =>
       got[d] = bucket[For[d]] \/ (got[d] = Torn /\ attempt[d] > 0)

LEMMA Beginning ==
  ASSUME TypeOK, NEW b \in Transfer, Begins(b),
         NEW new \in {"writing", "written", "requested"}, Goes(b, "idle", new)
  PROVE  /\ \A t \in Transfer : t # b => phase'[t] = phase[t]
         /\ \A t \in Transfer : alone'[t] =>
              /\ alone[t]
              /\ t # b => ~InFlight(t) /\ phase'[t] = phase[t]
              /\ \A o \in Transfer : InFlight(t)' /\ InFlight(o)' => o = t
         /\ phase'[b] = new
BY DEF Begins, TypeOK

LEMMA AloneNext ==
  TypeOK /\ Locks /\ Files /\ Downloads /\ AloneInv /\ [Next]_vars => AloneInv'
<1> SUFFICES ASSUME TypeOK, Locks, Files, Downloads, AloneInv, [Next]_vars
             PROVE AloneInv'
  OBVIOUS
<1> USE KeysAreKnown DEF TypeOK, Locks, Files, Downloads, AloneInv, Transfer, Image
<1>1. CASE ProcessEnds
  BY <1>1 DEF ProcessEnds, file, gets, uploads
<1>2. ASSUME NEW u \in Upload, BeginWrite(u) PROVE AloneInv'
  <2>1. u \in Transfer /\ Begins(u) /\ Goes(u, "idle", "writing")
    BY <1>2 DEF BeginWrite
  <2> HIDE DEF AloneInv
  <2>2. /\ \A t \in Transfer : t # u => phase'[t] = phase[t]
        /\ \A t \in Transfer : alone'[t] =>
             /\ alone[t]
             /\ t # u => ~InFlight(t) /\ phase'[t] = phase[t]
             /\ \A o \in Transfer : InFlight(t)' /\ InFlight(o)' => o = t
        /\ phase'[u] = "writing"
    BY <2>1, Beginning
  <2>3. /\ path' # None /\ source'[u] = path'
        /\ UNCHANGED <<body, wrote, bucket, gets, attempt>>
    BY <1>2 DEF BeginWrite
  <2> QED BY <2>2, <2>3 DEF AloneInv, gets
<1>8. ASSUME NEW u \in Upload, WriteNothing(u) PROVE AloneInv'
  <2>1. u \in Transfer /\ Begins(u) /\ Goes(u, "idle", "written")
    BY <1>8 DEF WriteNothing
  <2> HIDE DEF AloneInv
  <2>2. /\ \A t \in Transfer : t # u => phase'[t] = phase[t]
        /\ \A t \in Transfer : alone'[t] =>
             /\ alone[t]
             /\ t # u => ~InFlight(t) /\ phase'[t] = phase[t]
             /\ \A o \in Transfer : InFlight(t)' /\ InFlight(o)' => o = t
        /\ phase'[u] = "written"
    BY <2>1, Beginning
  <2>3. /\ ~wrote'[u] /\ \A v \in Upload : wrote'[v] => wrote[v]
        /\ UNCHANGED <<file, source, body, bucket, gets, attempt>>
    BY <1>8 DEF WriteNothing
  <2>4. \A t, o \in Transfer : alone'[t] /\ InFlight(t)' /\ InFlight(o)' => o = t
    BY <2>2
  <2>5. \A t \in Transfer : alone'[t] =>
          alone[t] /\ (t # u => phase[t] = phase'[t]) /\ (phase'[t] # "written" => t # u)
    BY <2>2
  <2>6. \A d \in Download : d \in Transfer /\ d # u
    BY Naming
  <2> HIDE DEF TypeOK, Locks, Files, Downloads
  <2> USE DEF AloneInv, file, gets
  <2>7. /\ \A v \in Upload : alone'[v] /\ wrote'[v] => bucket'[v] \in {None, v}
        /\ \A v \in Upload :
             alone'[v] /\ phase'[v] = "writing" => path' # None /\ path' = source'[v]
        /\ \A v \in Upload : alone'[v] /\ wrote'[v]
             /\ phase'[v] \in {"written", "requested", "multipart", "sending", "stored"}
               => path' # None /\ data'[path'] = v
        /\ \A v \in Upload : alone'[v] /\ wrote'[v] /\ phase'[v] = "sending" =>
             body'[v] = v /\ source'[v] \in {None, path'}
    BY <2>3, <2>5
  <2>8. /\ \A d \in Download : alone'[d] /\ phase'[d] = "moving" => path' = None
        /\ \A d \in Download : alone'[d] /\ handle'[d] # "none" /\ phase'[d] = "reading" =>
             path' = d /\ data'[path'] = temp'[d]
        /\ \A d \in Download : alone'[d] /\ handle'[d] # "none" /\ got'[d] # None =>
             got'[d] = bucket'[For[d]] \/ (got'[d] = Torn /\ attempt'[d] > 0)
    BY <2>3, <2>5, <2>6
  <2> QED BY <2>4, <2>7, <2>8
<1>3. ASSUME NEW u \in Upload, Uploading(u) PROVE AloneInv'
  <2>1. CASE EndWrite(u)
    <3>1. /\ phase[u] = "writing" /\ phase'[u] = "written"
          /\ \A t \in Transfer : t # u => phase'[t] = phase[t]
          /\ data' = [data EXCEPT ![source[u]] = u]
          /\ UNCHANGED <<path, temp, handle, got, attempt, source, body, wrote, bucket, alone>>
      BY <2>1 DEF EndWrite, gets, uploads
    <3>2. \A t \in Transfer : alone[t] /\ InFlight(t)' => t = u
      BY <3>1
    <3>3. \A d \in Download : d \in Transfer /\ d # u
      BY Naming
    <3>4. alone[u] => path # None /\ data'[path] = u
      BY <3>1
    <3>5. \A t \in Transfer : alone[t] /\ phase'[t] \in {"writing", "requested", "multipart",
            "sending", "stored", "moving", "reading"} => FALSE
      BY <3>1, <3>2
    <3> HIDE DEF TypeOK, Locks, Files, Downloads
    <3>6. \A t, o \in Transfer : alone'[t] /\ InFlight(t)' /\ InFlight(o)' => o = t
      BY <3>1, <3>2
    <3>7. /\ \A v \in Upload : alone'[v] /\ wrote'[v] => bucket'[v] \in {None, v}
          /\ \A v \in Upload : alone'[v] /\ phase'[v] = "written" => v = u
      BY <3>1, <3>2
    <3>8. \A d \in Download : alone'[d] /\ handle'[d] # "none" /\ got'[d] # None =>
            got'[d] = bucket'[For[d]] \/ (got'[d] = Torn /\ attempt'[d] > 0)
      BY <3>1
    <3> QED BY <3>1, <3>3, <3>4, <3>5, <3>6, <3>7, <3>8
  <2>2. CASE WriteFails(u) BY <2>2 DEF WriteFails, file, gets, uploads
  <2>3. CASE CallUpload(u) BY <2>3 DEF CallUpload, file, gets, uploads
  <2>4. CASE CallUploadInVain(u) BY <2>4 DEF CallUploadInVain, file, gets, uploads
  <2>5. CASE OpenBody(u) BY <2>5 DEF OpenBody, file, gets
  <2>6. CASE FirstPart(u) BY <2>6 DEF FirstPart, file, gets
  <2>7. CASE SendRest(u) BY SMTT(30), <2>7 DEF SendRest, Store, file, gets, uploads
  <2>8. CASE SecondPart(u) BY SMTT(30), <2>8 DEF SecondPart, Store, file, gets, uploads
  <2>9. CASE Stored(u) BY <2>9 DEF Stored, file, gets, uploads
  <2> QED BY <1>3, <2>1, <2>2, <2>3, <2>4, <2>5, <2>6, <2>7, <2>8, <2>9 DEF Uploading
<1>4. ASSUME NEW t \in Transfer, Ending(t) PROVE AloneInv'
  <2>1. CASE Complete(t) BY <2>1 DEF Complete, file, gets, uploads
  <2>2. CASE Retry(t) BY <2>2 DEF Retry, CloseHandle, Broken, file, uploads
  <2>3. CASE Fail(t) BY <2>3 DEF Fail, CloseHandle, Broken, file, uploads
  <2> QED BY <1>4, <2>1, <2>2, <2>3 DEF Ending
<1>5. ASSUME NEW d \in Download, Request(d) \/ ReceivePart(d) PROVE AloneInv'
  <2>1. CASE Request(d)
    <3>1. d \in Transfer /\ Begins(d) /\ Goes(d, "idle", "requested")
      BY <2>1 DEF Request
    <3> HIDE DEF AloneInv
    <3>2. /\ \A t \in Transfer : t # d => phase'[t] = phase[t]
          /\ \A t \in Transfer : alone'[t] =>
               /\ alone[t]
               /\ t # d => ~InFlight(t) /\ phase'[t] = phase[t]
               /\ \A o \in Transfer : InFlight(t)' /\ InFlight(o)' => o = t
          /\ phase'[d] = "requested"
      BY <3>1, Beginning
    <3>3. UNCHANGED <<file, gets, uploads, attempt, bucket>>
      BY <2>1 DEF Request
    <3>4. \A t \in Transfer : alone'[t] /\ phase'[t] # "requested" =>
            alone[t] /\ phase[t] = phase'[t]
      BY <3>2
    <3>5. \A t, o \in Transfer : alone'[t] /\ InFlight(t)' /\ InFlight(o)' => o = t
      BY <3>2
    <3>6. \A u \in Upload : phase'[u] = phase[u] /\ (alone'[u] => alone[u])
      BY <3>2 DEF Transfer, TypeOK
    <3>7. \A e \in Download : alone'[e] => alone[e]
      BY <3>2 DEF Transfer
    <3> HIDE DEF TypeOK, Locks, Files, Downloads
    <3> USE DEF AloneInv, file, gets, uploads
    <3>8. /\ \A u \in Upload : alone'[u] /\ wrote'[u] => bucket'[u] \in {None, u}
          /\ \A u \in Upload :
               alone'[u] /\ phase'[u] = "writing" => path' # None /\ path' = source'[u]
          /\ \A u \in Upload : alone'[u] /\ wrote'[u]
               /\ phase'[u] \in {"written", "requested", "multipart", "sending", "stored"}
                 => path' # None /\ data'[path'] = u
          /\ \A u \in Upload :
               alone'[u] /\ wrote'[u] /\ phase'[u] = "sending" => body'[u] = u /\ source'[u] \in {None, path'}
      BY <3>3, <3>6
    <3>9. /\ \A e \in Download : alone'[e] /\ phase'[e] = "moving" => path' = None
          /\ \A e \in Download :
               alone'[e] /\ handle'[e] # "none" /\ phase'[e] = "reading" => path' = e /\ data'[path'] = temp'[e]
      BY <3>3, <3>4 DEF Transfer
    <3>10. \A e \in Download : alone'[e] /\ handle'[e] # "none" /\ got'[e] # None =>
             got'[e] = bucket'[For[e]] \/ (got'[e] = Torn /\ attempt'[e] > 0)
      BY <3>3, <3>7
    <3> QED BY <3>5, <3>8, <3>9, <3>10
  <2>2. CASE ReceivePart(d) BY <2>2 DEF ReceivePart, Append, file, uploads
  <2> QED BY <1>5, <2>1, <2>2
<1>6. ASSUME NEW d \in Download, Downloading(d) PROVE AloneInv'
  <2>1. CASE Respond(d) BY <2>1 DEF Respond, file, uploads
  <2>2. CASE Receive(d) BY <2>2 DEF Receive, Append, file, uploads
  <2>3. CASE RefusedOnClosedHandle(d)
    BY <2>3 DEF RefusedOnClosedHandle, ProcessEnds, file, gets, uploads
  <2>4. CASE Remove(d)
    <3>1. /\ phase[d] = "received" /\ phase'[d] = "moving"
          /\ \A t \in Transfer : t # d => phase'[t] = phase[t]
          /\ path' = None /\ handle[d] = "open"
          /\ \A e \in Download : e # d => handle'[e] = handle[e]
          /\ UNCHANGED <<data, temp, got, attempt, uploads, bucket, alone>>
      BY <2>4 DEF Remove
    <3>2. \A t \in Transfer : alone[t] /\ InFlight(t)' => t = d
      BY <3>1
    <3>3. \A u \in Upload : u \in Transfer /\ u # d
      BY Naming
    <3> HIDE DEF TypeOK, Locks, Files, Downloads
    <3>4. \A t, o \in Transfer : alone'[t] /\ InFlight(t)' /\ InFlight(o)' => o = t
      BY <3>1, <3>2
    <3>5. /\ \A u \in Upload : alone'[u] /\ wrote'[u] => bucket'[u] \in {None, u}
          /\ \A u \in Upload : alone'[u] => ~InFlight(u)'
      BY <3>1, <3>2, <3>3 DEF uploads
    <3>6. /\ \A e \in Download : alone'[e] /\ phase'[e] = "moving" => path' = None
          /\ \A e \in Download : alone'[e] => phase'[e] # "reading"
          /\ \A e \in Download : alone'[e] /\ handle'[e] # "none" /\ got'[e] # None =>
               got'[e] = bucket'[For[e]] \/ (got'[e] = Torn /\ attempt'[e] > 0)
      BY <3>1, <3>2
    <3> QED BY <3>4, <3>5, <3>6
  <2>5. CASE MoveIn(d) BY <2>5 DEF MoveIn, gets, uploads
  <2>6. CASE MoveFails(d) BY <2>6 DEF MoveFails, file, gets, uploads
  <2>7. CASE Read(d) BY <2>7 DEF Read, file, uploads
  <2>8. CASE MoveNothing(d) BY <2>8 DEF MoveNothing, file, gets, uploads
  <2> QED BY <1>6, <2>1, <2>2, <2>3, <2>4, <2>5, <2>6, <2>7, <2>8 DEF Downloading
<1>7. CASE UNCHANGED vars
  BY <1>7 DEF vars, file, gets, uploads
<1> QED
  BY <1>1, <1>2, <1>3, <1>4, <1>5, <1>6, <1>7, <1>8 DEF Next

(***************************************************************************)
(* The inductive invariant, and what follows from it.                      *)
(***************************************************************************)
IInv == TypeOK /\ Locks /\ Files /\ Downloads /\ AloneInv

LEMMA IInvInit == Init => IInv
<1> SUFFICES ASSUME Init PROVE IInv
  OBVIOUS
<1>1. TypeOK
  BY TypeInit
<1>2. Locks
  BY DEF Init, Locks, Transfer
<1>3. Files /\ Downloads
  BY KeysAreKnown DEF Init, Files, Downloads, Transfer, Image
<1>4. AloneInv
  BY KeysAreKnown DEF Init, AloneInv, Transfer, Image
<1> QED
  BY <1>1, <1>2, <1>3, <1>4 DEF IInv

THEOREM Inductive == Spec => []IInv
<1>1. IInv /\ [Next]_vars => IInv'
  BY TypeNext, LocksNext, FilesNext, DownloadsNext, AloneNext DEF IInv
<1> QED
  BY IInvInit, <1>1, PTL DEF Spec

(* However the main thread, the network thread and the delegate queue come *)
(* between each other, an upload that is alone and whose image had a JPEG  *)
(* representation stores that image.                                       *)
THEOREM LoneUploadsAreTrue == Spec => []LoneUploadIsTrue
<1>1. IInv => LoneUploadIsTrue
  BY DEF IInv, AloneInv, LoneUploadIsTrue
<1> QED
  BY Inductive, <1>1, PTL

(* downloadImage, alone and at its first attempt, delivers what is stored  *)
(* for the key; repeated, that or a torn image.  Without a file of its own *)
(* it delivers whatever test.jpg holds, and nothing is claimed.            *)
THEOREM LoneDownloadsAreTrue == Spec => []LoneDownloadIsTrue
<1>1. IInv => LoneDownloadIsTrue
  BY DEF IInv, AloneInv, LoneDownloadIsTrue
<1> QED
  BY Inductive, <1>1, PTL

(* Removing, moving and reading back hold the delegate queue together, so  *)
(* one download never delivers the photo that another one fetched.         *)
THEOREM NoMixing == Spec => []DownloadsDoNotMix
<1>1. IInv => DownloadsDoNotMix
  BY DEF IInv, Downloads, DownloadsDoNotMix, Image
<1> QED
  BY Inductive, <1>1, PTL

(* The completion of uploadImage runs for keys only that are in the bucket.*)
THEOREM ReportsAreTrue == Spec => []ReportedIsStored
<1>1. IInv => ReportedIsStored
  BY DEF IInv, Files, ReportedIsStored
<1> QED
  BY Inductive, <1>1, PTL

(* A lone download whose object has arrived is not failed by any step: the *)
(* move finds its place free and the read finds the file.                  *)
THEOREM LoneArrivalsAreDelivered == Spec => LoneArrivalIsDelivered
<1> DEFINE Safe == \A d \in Download :
      alone[d] /\ handle[d] # "none" /\ phase[d] \in {"received", "moving", "reading"}
        => phase'[d] # "failed"
<1>1. IInv /\ [Next]_vars => Safe
  <2> SUFFICES ASSUME IInv, [Next]_vars, NEW e \in Download, alone[e],
                      handle[e] # "none", phase[e] \in {"received", "moving", "reading"}
               PROVE  phase'[e] # "failed"
    OBVIOUS
  <2> USE DEF IInv, TypeOK, Locks, AloneInv
  <2>1. CASE ProcessEnds
    BY <2>1 DEF ProcessEnds, file, gets, uploads
  <2>2. ASSUME NEW u \in Upload, BeginWrite(u) \/ WriteNothing(u) PROVE phase'[e] # "failed"
    BY <2>2 DEF BeginWrite, WriteNothing, Begins, gets
  <2>3. ASSUME NEW u \in Upload, Uploading(u) PROVE phase'[e] # "failed"
    <3>1. CASE EndWrite(u) BY <3>1 DEF EndWrite, gets, uploads
    <3>2. CASE WriteFails(u) BY <3>2 DEF WriteFails, file, gets, uploads
    <3>3. CASE CallUpload(u) BY <3>3 DEF CallUpload, file, gets, uploads
    <3>4. CASE CallUploadInVain(u) BY <3>4 DEF CallUploadInVain, file, gets, uploads
    <3>5. CASE OpenBody(u) BY <3>5 DEF OpenBody, file, gets
    <3>6. CASE FirstPart(u) BY <3>6 DEF FirstPart, file, gets
    <3>7. CASE SendRest(u) BY <3>7 DEF SendRest, Store, file, gets, uploads
    <3>8. CASE SecondPart(u) BY <3>8 DEF SecondPart, Store, file, gets, uploads
    <3>9. CASE Stored(u) BY <3>9 DEF Stored, file, gets, uploads
    <3> QED BY <2>3, <3>1, <3>2, <3>3, <3>4, <3>5, <3>6, <3>7, <3>8, <3>9 DEF Uploading
  <2>4. ASSUME NEW t \in Transfer, Ending(t) PROVE phase'[e] # "failed"
    <3>1. CASE Complete(t) BY <3>1 DEF Complete, file, gets, uploads
    <3>2. CASE Retry(t) BY <3>2 DEF Retry, CloseHandle, Broken, file, uploads
    <3>3. CASE Fail(t) BY <3>3 DEF Fail, CloseHandle, Broken, file, uploads
    <3> QED BY <2>4, <3>1, <3>2, <3>3 DEF Ending
  <2>5. ASSUME NEW d \in Download, Request(d) \/ ReceivePart(d) PROVE phase'[e] # "failed"
    <3>1. CASE Request(d) BY <3>1 DEF Request, Begins, file, gets, uploads
    <3>2. CASE ReceivePart(d) BY <3>2 DEF ReceivePart, Append, file, uploads
    <3> QED BY <2>5, <3>1, <3>2
  <2>6. ASSUME NEW d \in Download, Downloading(d) PROVE phase'[e] # "failed"
    <3>1. CASE Respond(d) BY <3>1 DEF Respond, file, uploads
    <3>2. CASE Receive(d) BY <3>2 DEF Receive, Append, file, uploads
    <3>3. CASE RefusedOnClosedHandle(d)
      BY <3>3 DEF RefusedOnClosedHandle, ProcessEnds, file, gets, uploads
    <3>4. CASE Remove(d) BY <3>4 DEF Remove, uploads
    <3>5. CASE MoveIn(d) BY <3>5 DEF MoveIn, gets, uploads
    <3>6. CASE MoveFails(d) BY <3>6 DEF MoveFails, file, gets, uploads
    <3>7. CASE Read(d) BY <3>7 DEF Read, file, uploads
    <3>8. CASE MoveNothing(d) BY <3>8 DEF MoveNothing, file, gets, uploads
    <3> QED BY <2>6, <3>1, <3>2, <3>3, <3>4, <3>5, <3>6, <3>7, <3>8 DEF Downloading
  <2>7. CASE UNCHANGED vars
    BY <2>7 DEF vars, file, gets, uploads
  <2> QED
    BY <2>1, <2>2, <2>3, <2>4, <2>5, <2>6, <2>7 DEF Next
<1>2. IInv /\ [Next]_vars => [Safe]_vars
  BY <1>1
<1> QED
  BY Inductive, <1>2, PTL DEF Spec, LoneArrivalIsDelivered

(* Every step of a transfer lowers Distance within its attempt or counts a *)
(* further attempt up to maxRetryCount; a transfer that is over takes no   *)
(* step, so that no completion runs twice or after a failure.              *)
THEOREM TransfersAlwaysDescend == Spec => TransfersDescend
<1> DEFINE Falls(t) == phase[t] # "idle" /\ <<phase[t], attempt[t]>>' # <<phase[t], attempt[t]>> =>
      /\ InFlight(t)
      /\ \/ attempt'[t] = attempt[t] /\ Distance(t)' < Distance(t)
         \/ attempt'[t] = attempt[t] + 1 /\ attempt'[t] <= MaxRetry
<1>1. IInv /\ [Next]_vars => \A t \in Transfer : Falls(t)
  <2> SUFFICES ASSUME IInv, [Next]_vars, NEW s \in Transfer PROVE Falls(s)
    OBVIOUS
  <2>0. ASSUME ProcessEnds PROVE Falls(s)
    <3>1. attempt'[s] = attempt[s] /\ phase'[s] = IF InFlight(s) THEN "lost" ELSE phase[s]
      BY <2>0 DEF ProcessEnds
    <3>2. InFlight(s) => Distance(s) \in 2..9
      BY DEF Distance, IInv, TypeOK, Phases
    <3>3. phase'[s] = "lost" => Distance(s)' = 1
      BY DEF Distance
    <3> QED BY <3>1, <3>2, <3>3
  <2>1. CASE ProcessEnds
    BY <2>0, <2>1
  <2> USE DEF IInv, TypeOK, Locks, Distance
  <2>2. ASSUME NEW u \in Upload, BeginWrite(u) \/ WriteNothing(u) PROVE Falls(s)
    BY <2>2 DEF BeginWrite, WriteNothing, file, gets
  <2>3. ASSUME NEW u \in Upload, Uploading(u) PROVE Falls(s)
    <3>1. CASE EndWrite(u) BY <3>1 DEF EndWrite, gets, uploads
    <3>2. CASE WriteFails(u) BY <3>2 DEF WriteFails, file, gets, uploads
    <3>3. CASE CallUpload(u) BY <3>3 DEF CallUpload, file, gets, uploads
    <3>4. CASE CallUploadInVain(u) BY <3>4 DEF CallUploadInVain, file, gets, uploads
    <3>5. CASE OpenBody(u) BY <3>5 DEF OpenBody, file, gets
    <3>6. CASE FirstPart(u) BY <3>6 DEF FirstPart, file, gets
    <3>7. CASE SendRest(u) BY <3>7 DEF SendRest, Store, file, gets, uploads
    <3>8. CASE SecondPart(u) BY <3>8 DEF SecondPart, Store, file, gets, uploads
    <3>9. CASE Stored(u) BY <3>9 DEF Stored, file, gets, uploads
    <3> QED BY <2>3, <3>1, <3>2, <3>3, <3>4, <3>5, <3>6, <3>7, <3>8, <3>9 DEF Uploading
  <2>4. ASSUME NEW t \in Transfer, Ending(t) PROVE Falls(s)
    <3>1. CASE Complete(t) BY <3>1 DEF Complete, file, gets, uploads
    <3>2. CASE Retry(t) BY <3>2, RetriesAreNatural DEF Retry, Broken, file, uploads
    <3>3. CASE Fail(t) BY <3>3 DEF Fail, Broken, file, uploads
    <3> QED BY <2>4, <3>1, <3>2, <3>3 DEF Ending
  <2>5. ASSUME NEW d \in Download, Request(d) \/ ReceivePart(d) PROVE Falls(s)
    <3>1. CASE Request(d) BY <3>1 DEF Request, file, gets, uploads
    <3>2. CASE ReceivePart(d) BY <3>2 DEF ReceivePart, Append, file, uploads
    <3> QED BY <2>5, <3>1, <3>2
  <2>6. ASSUME NEW d \in Download, Downloading(d) PROVE Falls(s)
    <3>1. CASE Respond(d) BY <3>1 DEF Respond, file, uploads
    <3>2. CASE Receive(d) BY <3>2 DEF Receive, Append, file, uploads
    <3>3. CASE RefusedOnClosedHandle(d)
      BY <2>0, <3>3 DEF RefusedOnClosedHandle
    <3>4. CASE Remove(d) BY <3>4 DEF Remove, uploads
    <3>5. CASE MoveIn(d) BY <3>5 DEF MoveIn, gets, uploads
    <3>6. CASE MoveFails(d) BY <3>6 DEF MoveFails, file, gets, uploads
    <3>7. CASE Read(d) BY <3>7 DEF Read, file, uploads
    <3>8. CASE MoveNothing(d) BY <3>8 DEF MoveNothing, file, gets, uploads
    <3> QED BY <2>6, <3>1, <3>2, <3>3, <3>4, <3>5, <3>6, <3>7, <3>8 DEF Downloading
  <2>7. CASE UNCHANGED vars
    BY <2>7 DEF vars
  <2> QED
    BY <2>1, <2>2, <2>3, <2>4, <2>5, <2>6, <2>7 DEF Next
<1>2. IInv /\ [Next]_vars => [\A t \in Transfer : Falls(t)]_vars
  BY <1>1
<1> QED
  BY Inductive, <1>2, PTL DEF Spec, TransfersDescend
=============================================================================
