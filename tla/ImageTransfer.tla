--------------------------- MODULE ImageTransfer ---------------------------
(***************************************************************************)
(* AwsHelper.uploadImage and downloadImage on top of AWSS3TransferManager. *)
(* All transfers of the app go through the one file test.jpg.  Three       *)
(* threads touch it: the main thread writes the image that is to be        *)
(* uploaded, the network thread reads the body of a request from it, and   *)
(* the session's serial delegate queue removes it, moves a finished        *)
(* download there, reads it back, and cuts parts of big uploads out of it. *)
(*                                                                         *)
(* An image is named by the key it belongs to.  A file has an inode, named *)
(* by the transfer that made it: writing keeps the inode, moving another   *)
(* file to the path does not.                                              *)
(***************************************************************************)
EXTENDS Naturals

CONSTANTS Photo,     \* the images that are in the bucket from the start
          Upload,    \* the uploads, and the keys and images they are for
          Download,  \* the downloads
          For,       \* the key that a download asks for
          MaxRetry,  \* maxRetryCount
          None,      \* no image, no file, nobody
          Torn       \* bytes of several images, or some of one

ASSUME TransfersDiffer == Upload \cap Download = {} /\ Photo \cap (Upload \cup Download) = {}
ASSUME NothingIsATransfer ==
  None # Torn /\ {None, Torn} \cap (Photo \cup Upload \cup Download) = {}
ASSUME KeysAreKnown == For \in [Download -> Photo \cup Upload]
ASSUME RetriesAreNatural == MaxRetry \in Nat

VARIABLES
  main,      \* the upload whose handler the main thread is in
  queue,     \* the download whose completion the delegate queue is in
  path,      \* the inode that is test.jpg now
  data,      \* what each inode holds
  temp,      \* what a download has in its own temporary file
  handle,    \* responseFilehandle of a download
  phase, attempt,         \* currentRetryCount
  source, body, \* an upload's open file and what has been read of it
  bucket,    \* the objects of the bucket
  got,       \* the data that a download's completion is called with
  alone,     \* history: no other transfer was under way at the same time
  wrote      \* history: the image of an upload had a JPEG representation

file    == <<path, data>>
uploads == <<source, body, wrote>>
gets    == <<temp, handle, got>>
vars    == <<main, queue, file, gets, phase, attempt, uploads, bucket, alone>>

Transfer == Upload \cup Download
Image    == Photo \cup Upload
Content  == Image \cup {None, Torn}
Over     == {"idle", "done", "failed", "lost"}
Phases   == Over \cup {"writing", "written", "requested", "multipart", "sending", "stored",
                       "receiving", "cut", "received", "moving", "reading", "posted"}
InFlight(t) == phase[t] \notin Over

TypeOK ==
  /\ main \in Upload \cup {None} /\ queue \in Download \cup {None}
  /\ path \in Transfer \cup {None} /\ data \in [Transfer -> Content]
  /\ temp \in [Download -> Content] /\ got \in [Download -> Content]
  /\ handle \in [Download -> {"none", "open", "closed"}]
  /\ phase \in [Transfer -> Phases] /\ attempt \in [Transfer -> 0..MaxRetry]
  /\ source \in [Upload -> Transfer \cup {None}] /\ body \in [Upload -> Content]
  /\ bucket \in [Image -> Content] /\ alone \in [Transfer -> BOOLEAN]
  /\ wrote \in [Upload -> BOOLEAN]

Init ==
  /\ main = None /\ queue = None
  /\ path = None /\ data = [t \in Transfer |-> None]
  /\ temp = [d \in Download |-> None] /\ got = [d \in Download |-> None]
  /\ handle = [d \in Download |-> "none"]
  /\ phase = [t \in Transfer |-> "idle"] /\ attempt = [t \in Transfer |-> 0]
  /\ source = [u \in Upload |-> None] /\ body = [u \in Upload |-> None]
  /\ bucket = [i \in Image |-> IF i \in Photo THEN i ELSE None]
  /\ alone = [t \in Transfer |-> TRUE] /\ wrote = [u \in Upload |-> TRUE]
-----------------------------------------------------------------------------
Goes(t, from, to) == phase[t] = from /\ phase' = [phase EXCEPT ![t] = to]

\* Whoever is under way when t begins is not alone any more, nor is t.
Begins(t) ==
  alone' = [s \in Transfer |-> alone[s] /\ IF s = t THEN \A o \in Transfer : ~InFlight(o)
                                          ELSE ~InFlight(s)]

\* The process ends: nobody waits any longer.  The files stay.
ProcessEnds ==
  /\ main' = None /\ queue' = None
  /\ phase' = [t \in Transfer |-> IF InFlight(t) THEN "lost" ELSE phase[t]]
  /\ UNCHANGED <<file, gets, attempt, uploads, bucket, alone>>

-----------------------------------------------------------------------------
\* uploadImage: Data.write truncates the file that is there, or makes one.
BeginWrite(u) ==
  /\ main = None /\ Goes(u, "idle", "writing") /\ Begins(u)
  /\ main' = u
  /\ path' = IF path = None THEN u ELSE path
  /\ data' = [data EXCEPT ![path'] = Torn]
  /\ source' = [source EXCEPT ![u] = path']
  /\ UNCHANGED <<queue, gets, attempt, body, wrote, bucket>>

\* UIImageJPEGRepresentation has returned nil: jpgImage?.write writes nothing
\* and throws nothing, and the upload goes on with whatever is at test.jpg.
WriteNothing(u) ==
  /\ main = None /\ Goes(u, "idle", "written") /\ Begins(u)
  /\ main' = u /\ wrote' = [wrote EXCEPT ![u] = FALSE]
  /\ UNCHANGED <<queue, file, gets, attempt, source, body, bucket>>

\* All bytes are written, to a file that may not be test.jpg any more.
EndWrite(u) ==
  /\ Goes(u, "writing", "written") /\ data' = [data EXCEPT ![source[u]] = u]
  /\ UNCHANGED <<main, queue, path, gets, attempt, uploads, bucket, alone>>

\* Mutant: the error is swallowed ("try?") and the upload goes on.
WriteFailsUnnoticed(u) ==
  /\ Goes(u, "writing", "written")
  /\ UNCHANGED <<main, queue, file, gets, attempt, uploads, bucket, alone>>

\* Writing throws: "failed" is printed.
WriteFails(u) ==
  /\ Goes(u, "writing", "failed") /\ main' = None
  /\ UNCHANGED <<queue, file, gets, attempt, uploads, bucket, alone>>

\* transferManager.upload takes the size of whatever is the file now; it
\* decides whether the file is sent in one request or in parts.
CallUpload(u) ==
  /\ path # None /\ \E how \in {"requested", "multipart"} : Goes(u, "written", how)
  /\ main' = None
  /\ UNCHANGED <<queue, file, gets, attempt, uploads, bucket, alone>>

\* There is no file, just now.
CallUploadInVain(u) ==
  /\ path = None /\ Goes(u, "written", "failed") /\ main' = None
  /\ UNCHANGED <<queue, file, gets, attempt, uploads, bucket, alone>>

\* The network thread opens the body of a request and reads the first of it ...
OpenBody(u) ==
  /\ path # None /\ Goes(u, "requested", "sending")
  /\ source' = [source EXCEPT ![u] = path] /\ body' = [body EXCEPT ![u] = data[path]]
  /\ UNCHANGED <<main, queue, file, gets, attempt, wrote, bucket, alone>>

\* ... while a big upload reads its first part on the delegate queue.
FirstPart(u) ==
  /\ queue = None /\ path # None /\ Goes(u, "multipart", "sending")
  /\ source' = [source EXCEPT ![u] = None] /\ body' = [body EXCEPT ![u] = data[path]]
  /\ UNCHANGED <<main, queue, file, gets, attempt, wrote, bucket, alone>>

\* The rest is read, from the open file or for a second part from test.jpg
\* again.  S3 keeps the object if the length is the announced one; another
\* length is a failed request.
Store(u, inode) ==
  /\ Goes(u, "sending", "stored")
  /\ bucket' = [bucket EXCEPT ![u] = IF data[inode] = body[u] THEN body[u] ELSE Torn]
  /\ UNCHANGED <<main, queue, file, gets, attempt, uploads, alone>>

SendRest(u)   == source[u] # None /\ Store(u, source[u])
SecondPart(u) == source[u] = None /\ queue = None /\ path # None /\ Store(u, path)

\* The answer arrives; the completion runs on the main queue.
Stored(u) ==
  /\ queue = None /\ Goes(u, "stored", "posted")
  /\ UNCHANGED <<main, queue, file, gets, attempt, uploads, bucket, alone>>
-----------------------------------------------------------------------------
\* downloadImage, for a key that somebody got to know.
Request(d) ==
  /\ main = None /\ bucket[For[d]] # None /\ (For[d] \in Upload => phase[For[d]] = "done")
  /\ Goes(d, "idle", "requested") /\ Begins(d)
  /\ UNCHANGED <<main, queue, file, gets, attempt, uploads, bucket>>

\* didReceiveResponse with 2xx: the download's own file is opened at its end,
\* or created.  If that fails it is only logged, and there is no handle.
Respond(d) ==
  /\ queue = None /\ Goes(d, "requested", "receiving")
  /\ \/ handle' = [handle EXCEPT ![d] = "open"]
     \/ handle[d] = "none" /\ UNCHANGED handle
  /\ UNCHANGED <<main, queue, file, temp, got, attempt, uploads, bucket, alone>>

\* Data is added to the file of an open handle; without one it stays in memory.
Append(d, some) == temp' = IF handle[d] = "open" THEN [temp EXCEPT ![d] = some] ELSE temp

\* Mutant: no cacheKey in the temporary file's name; a failed download's is found.
ReceiveIntoSharedFile(d) ==
  /\ queue = None /\ Goes(d, "receiving", "received")
  /\ Append(d, IF \A e \in Download : e = d \/ phase[e] = "failed" => temp[e] = None
               THEN bucket[For[d]] ELSE Torn)
  /\ UNCHANGED <<main, queue, file, handle, got, attempt, uploads, bucket, alone>>

\* The whole object arrives.
Receive(d) ==
  /\ queue = None /\ Goes(d, "receiving", "received")
  /\ Append(d, IF temp[d] = None THEN bucket[For[d]] ELSE Torn)
  /\ UNCHANGED <<main, queue, file, handle, got, attempt, uploads, bucket, alone>>

\* A part of it does, and the connection breaks.
ReceivePart(d) ==
  /\ queue = None /\ Goes(d, "receiving", "cut") /\ Append(d, Torn)
  /\ UNCHANGED <<main, queue, file, handle, got, attempt, uploads, bucket, alone>>

\* Any other status: its text is data, which goes to the handle there is.  A
\* handle that an earlier attempt closed raises an exception.
RefusedOnClosedHandle(d) ==
  /\ queue = None /\ phase[d] = "requested" /\ handle[d] = "closed" /\ ProcessEnds

\* Mutant: the session has a concurrent delegate queue.
RemoveConcurrently(d) ==
  /\ handle[d] = "open" /\ Goes(d, "received", "moving") /\ path' = None
  /\ handle' = [handle EXCEPT ![d] = "closed"]
  /\ UNCHANGED <<main, queue, data, temp, got, attempt, uploads, bucket, alone>>

\* Mutant: an existing file is not removed before the move.
RemoveNothing(d) ==
  /\ queue = None /\ handle[d] = "open" /\ Goes(d, "received", "moving") /\ queue' = d
  /\ handle' = [handle EXCEPT ![d] = "closed"]
  /\ UNCHANGED <<main, file, temp, got, attempt, uploads, bucket, alone>>

\* The completion of a finished download holds the delegate queue: what is at
\* the path is removed ...
Remove(d) ==
  /\ queue = None /\ handle[d] = "open" /\ Goes(d, "received", "moving")
  /\ queue' = d /\ path' = None
  /\ handle' = [handle EXCEPT ![d] = "closed"]
  /\ UNCHANGED <<main, data, temp, got, attempt, uploads, bucket, alone>>

\* ... the download is moved there ...
MoveIn(d) ==
  /\ path = None /\ Goes(d, "moving", "reading")
  /\ path' = d /\ data' = [data EXCEPT ![d] = temp[d]]
  /\ UNCHANGED <<main, queue, gets, attempt, uploads, bucket, alone>>

\* ... unless a file has come up again ...
MoveFails(d) ==
  /\ path # None /\ Goes(d, "moving", "failed") /\ queue' = None
  /\ UNCHANGED <<main, file, gets, attempt, uploads, bucket, alone>>

\* ... or the download has no file: nothing is moved, and that is no error ...
MoveNothing(d) ==
  /\ queue = None /\ handle[d] = "none" /\ Goes(d, "received", "reading") /\ queue' = d
  /\ UNCHANGED <<main, file, gets, attempt, uploads, bucket, alone>>

\* ... and NSData(contentsOf:) reads what is at the path, if there is a file.
Read(d) ==
  /\ Goes(d, "reading", IF path = None THEN "failed" ELSE "posted") /\ queue' = None
  /\ got' = [got EXCEPT ![d] = IF path = None THEN None ELSE data[path]]
  /\ UNCHANGED <<main, file, temp, handle, attempt, uploads, bucket, alone>>
-----------------------------------------------------------------------------
\* The completion of AwsHelper's caller.
Complete(t) ==
  /\ main = None /\ Goes(t, "posted", "done")
  /\ UNCHANGED <<main, queue, file, gets, attempt, uploads, bucket, alone>>

\* A request that breaks, times out or is refused; for an upload also one
\* that S3 has carried out.
Broken == {"requested", "multipart", "sending", "stored", "receiving", "cut"}
CloseHandle(t) ==
  handle' = [d \in Download |-> IF d = t /\ handle[d] = "open" THEN "closed" ELSE handle[d]]

\* Mutant: once more than the retry handler allows.
RetryOnceMore(t) ==
  /\ queue = None /\ attempt[t] <= MaxRetry
  /\ phase[t] \in Broken \ {"multipart"} /\ (t \in Upload => source[t] # None)
  /\ phase' = [phase EXCEPT ![t] = "requested"]
  /\ attempt' = [attempt EXCEPT ![t] = @ + 1] /\ CloseHandle(t)
  /\ UNCHANGED <<main, queue, file, temp, got, uploads, bucket, alone>>

\* Mutant: the attempt that failed is not counted.
RetryUncounted(t) ==
  /\ queue = None /\ attempt[t] < MaxRetry
  /\ phase[t] \in Broken \ {"multipart"} /\ (t \in Upload => source[t] # None)
  /\ phase' = [phase EXCEPT ![t] = "requested"] /\ CloseHandle(t)
  /\ UNCHANGED <<main, queue, file, temp, got, attempt, uploads, bucket, alone>>

\* The retry handler lets it be repeated; the body is opened anew.
Retry(t) ==
  /\ queue = None /\ attempt[t] < MaxRetry
  /\ phase[t] \in Broken \ {"multipart"} /\ (t \in Upload => source[t] # None)
  /\ phase' = [phase EXCEPT ![t] = "requested"]
  /\ attempt' = [attempt EXCEPT ![t] = @ + 1] /\ CloseHandle(t)
  /\ UNCHANGED <<main, queue, file, temp, got, uploads, bucket, alone>>

\* Mutant: a body that was cut is waited for.
FailUnlessCut(t) ==
  /\ queue = None /\ phase[t] \in Broken \ {"cut"}
  /\ phase' = [phase EXCEPT ![t] = "failed"] /\ CloseHandle(t)
  /\ UNCHANGED <<main, queue, file, temp, got, attempt, uploads, bucket, alone>>

\* It does not: the error is printed, and nobody hears of the transfer again.
Fail(t) ==
  /\ queue = None /\ phase[t] \in Broken
  /\ phase' = [phase EXCEPT ![t] = "failed"] /\ CloseHandle(t)
  /\ UNCHANGED <<main, queue, file, temp, got, attempt, uploads, bucket, alone>>
-----------------------------------------------------------------------------
Uploading(u) ==
  \/ EndWrite(u) \/ WriteFails(u) \/ CallUpload(u) \/ CallUploadInVain(u)
  \/ OpenBody(u) \/ FirstPart(u) \/ SendRest(u) \/ SecondPart(u) \/ Stored(u)

Downloading(d) ==
  \/ Respond(d) \/ Receive(d) \/ RefusedOnClosedHandle(d)
  \/ Remove(d) \/ MoveIn(d) \/ MoveFails(d) \/ MoveNothing(d) \/ Read(d)

Ending(t) == Complete(t) \/ Retry(t) \/ Fail(t)

Next ==
  \/ ProcessEnds
  \/ \E u \in Upload : BeginWrite(u) \/ WriteNothing(u) \/ Uploading(u) \/ Ending(u)
  \/ \E d \in Download : Request(d) \/ ReceivePart(d) \/ Downloading(d) \/ Ending(d)

Spec == Init /\ [][Next]_vars

\* The main thread and the delegate queue go on with what they began, and
\* every request is answered or times out.
FairSpec ==
  /\ Spec
  /\ \A u \in Upload : WF_vars(Uploading(u) \/ Ending(u))
  /\ \A d \in Download : WF_vars(Downloading(d) \/ Ending(d))
-----------------------------------------------------------------------------
\* An image that is written and uploaded while nothing else is transferred is
\* stored as it is, however often its request is repeated: only an image without
\* a JPEG representation lets another one be stored under its key.
LoneUploadIsTrue == \A u \in Upload : alone[u] /\ wrote[u] => bucket[u] \in {None, u}

\* A download that is alone and could make its file delivers the image of its
\* key; only one that was repeated may deliver parts of it, and never another.
LoneDownloadIsTrue ==
  \A d \in Download : alone[d] /\ handle[d] # "none" /\ got[d] # None =>
    got[d] = bucket[For[d]] \/ (got[d] = Torn /\ attempt[d] > 0)

\* Downloads may overlap as they like, as those of a table's cells do: none that
\* has a file is given what another one has fetched.  What comes between are
\* uploads.
DownloadsDoNotMix ==
  \A d \in Download : handle[d] # "none" /\ got[d] \in Photo => got[d] = bucket[For[d]]

\* When all of a lone download is in its file, its completion gets it: only a
\* file that an upload wrote in between makes the move fail.
LoneArrivalIsDelivered ==
  [][\A d \in Download :
       alone[d] /\ handle[d] # "none" /\ phase[d] \in {"received", "moving", "reading"}
         => phase'[d] # "failed"]_vars

\* An upload is only ever reported when its key can be downloaded.
ReportedIsStored ==
  \A u \in Upload : phase[u] \in {"posted", "done"} => bucket[u] # None

\* Why every transfer ends, and once only: each of its steps leads nearer to the
\* end of the attempt, or begins one of the few that the retry handler allows;
\* what is over begins no attempt and calls no completion.
Distance(t) ==
  CASE phase[t] = "writing" -> 9                  [] phase[t] = "written" -> 8
    [] phase[t] \in {"requested", "multipart"} -> 7
    [] phase[t] \in {"sending", "receiving"} -> 6
    [] phase[t] \in {"stored", "cut", "received"} -> 5
    [] phase[t] = "moving" -> 4                   [] phase[t] = "reading" -> 3
    [] phase[t] = "posted" -> 2                   [] OTHER -> 1

TransfersDescend ==
  [][\A t \in Transfer :
       phase[t] # "idle" /\ <<phase[t], attempt[t]>>' # <<phase[t], attempt[t]>> =>
         /\ InFlight(t)
         /\ \/ attempt'[t] = attempt[t] /\ Distance(t)' < Distance(t)
            \/ attempt'[t] = attempt[t] + 1 /\ attempt'[t] <= MaxRetry]_vars

\* Whatever fails, nothing stays under way forever: neither the main thread
\* nor the delegate queue waits for somebody who waits for it.
EveryTransferEnds == <>[](\A t \in Transfer : ~InFlight(t))
=============================================================================
