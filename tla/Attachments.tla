----------------------------- MODULE Attachments ------------------------------
(* One picked file on its way into a message: the phone's upload job, the    *)
(* attachment row, the stored objects, the sends that process them, the      *)
(* sweep of unsent uploads and the deletion of the message.                  *)
(* apps/mobile/src/uploads/flow.ts, manager.ts; apps/api/src/attachments/    *)
(* attachments.service.ts, db/attachments.ts; messages.service.ts.           *)
(*                                                                           *)
(* The job has one clientMsgId, so the message store (module MessageLog)     *)
(* keeps at most one message of it.                                          *)
EXTENDS Naturals, FiniteSets

CONSTANTS
  Slots,       \* attachment ids
  Sends,       \* send requests the server can be running
  MaxAttempts, \* MAX_ATTEMPTS of runUpload
  MaxRetries,  \* bound on taps on Retry
  MaxCrashes,  \* bound on restarts of the API
  None

VARIABLES
  step,     \* what the upload job does
  slot,     \* progress.slot, or None
  uploaded, \* progress.uploaded
  attempt, retries,
  row,      \* the attachment rows
  stored,   \* the objects of each: "upload" (staging) and "original"
  sends,    \* the requests the API is running
  message,  \* the message's attachment, None, or "deleted"
  cleaning, \* rows removed (sweep) or to be removed (deletion) with their files
  crashes

vars == <<step, slot, uploaded, attempt, retries, row, stored, sends, message, cleaning,
          crashes>>

Idle == [at |-> "idle", slot |-> None]
TypeOK ==
  /\ step \in {"slot", "put", "send", "sending", "pause", "failed", "sent", "gone"}
  /\ slot \in Slots \cup {None} /\ uploaded \in BOOLEAN
  /\ attempt \in 1..MaxAttempts /\ retries \in 0..MaxRetries
  /\ row \in [Slots -> {"none", "new", "processed", "linked", "gone"}]
  /\ stored \in [Slots -> SUBSET {"upload", "original"}]
  /\ sends \in [Sends -> [at : {"idle", "find", "head", "store", "mark", "unstage", "append",
                                "ok", "refused", "error"}, slot : Slots \cup {None}]]
  /\ message \in Slots \cup {None, "deleted"}
  /\ cleaning \subseteq [slot : Slots, by : {"sweep", "delete"}]
  /\ crashes \in 0..MaxCrashes

Init ==
  /\ step = "slot" /\ slot = None /\ uploaded = FALSE /\ attempt = 1 /\ retries = 0
  /\ row = [a \in Slots |-> "none"] /\ stored = [a \in Slots |-> {}]
  /\ sends = [s \in Sends |-> Idle] /\ message = None /\ cleaning = {} /\ crashes = 0

job == <<step, slot, uploaded, attempt, retries>>
store == <<row, stored, message, cleaning>>
progress == <<slot, uploaded>>

Answered(s) == sends[s].at \in {"ok", "refused", "error"}
Running(s) == sends[s].at # "idle" /\ ~Answered(s)

(******************************* The upload job ***************************)

\* runUpload: another attempt after a pause, or the bubble says "failed".
Again ==
  IF attempt < MaxAttempts THEN step' = "pause" /\ attempt' = attempt + 1
                           ELSE step' = "failed" /\ UNCHANGED attempt

\* createUpload: the row is there whether or not its answer arrives.
RequestUpload(a) ==
  /\ step = "slot" /\ row[a] = "none" /\ row' = [row EXCEPT ![a] = "new"]
  /\ \/ slot' = a /\ step' = "put" /\ UNCHANGED attempt
     \/ Again /\ UNCHANGED slot
  /\ UNCHANGED <<uploaded, retries, stored, sends, message, cleaning, crashes>>

\* The PUT to storage; when it fails the next attempt asks for a fresh link.
Put ==
  /\ step = "put"
  /\ \/ stored' = [stored EXCEPT ![slot] = @ \cup {"upload"}]
        /\ uploaded' = TRUE /\ step' = "send" /\ UNCHANGED <<slot, attempt>>
     \/ stored' \in {stored, [stored EXCEPT ![slot] = @ \cup {"upload"}]}
        /\ slot' = None /\ Again /\ UNCHANGED uploaded
  /\ UNCHANGED <<retries, row, sends, message, cleaning, crashes>>

Send(s) ==
  /\ step = "send" /\ sends[s] = Idle /\ step' = "sending"
  /\ sends' = [sends EXCEPT ![s] = [at |-> "find", slot |-> slot]]
  /\ UNCHANGED <<progress, attempt, retries, store, crashes>>

\* The answer: a refusal (400) is final, an error (500) worth another try.
Answer(s) ==
  /\ step = "sending" /\ Answered(s) /\ sends' = [sends EXCEPT ![s] = Idle]
  /\ CASE sends[s].at = "ok"      -> step' = "sent" /\ UNCHANGED attempt
       [] sends[s].at = "refused" -> step' = "failed" /\ UNCHANGED attempt
       [] OTHER                   -> Again
  /\ UNCHANGED <<progress, retries, store, crashes>>
\* The connection is lost; the request runs on.
Lose ==
  /\ step = "sending" /\ Again
  /\ UNCHANGED <<progress, retries, sends, store, crashes>>
\* An answer nobody waits for.
Drop(s) ==
  /\ Answered(s) /\ step # "sending" /\ sends' = [sends EXCEPT ![s] = Idle]
  /\ UNCHANGED <<job, store, crashes>>

Resume == step' = IF uploaded THEN "send" ELSE IF slot # None THEN "put" ELSE "slot"
Wake == step = "pause" /\ Resume /\ UNCHANGED <<progress, attempt, retries, sends, store, crashes>>
Retry ==
  /\ step = "failed" /\ retries < MaxRetries /\ retries' = retries + 1 /\ attempt' = 1 /\ Resume
  /\ UNCHANGED <<progress, sends, store, crashes>>
\* discard, or sign-out: clear.
Cancel ==
  /\ step \notin {"sent", "gone"} /\ step' = "gone"
  /\ UNCHANGED <<progress, attempt, retries, sends, store, crashes>>

(******************************* The send request *************************)

To(s, at) == sends' = [sends EXCEPT ![s].at = at]

\* prepareForMessage: the row, and what it allows.
Find(s) ==
  /\ sends[s].at = "find"
  /\ LET a == sends[s].slot IN
     To(s, CASE row[a] = "gone" -> "refused"
             [] row[a] = "linked" -> "append"   \* sent with this clientMsgId
             [] row[a] = "processed" -> "append"
             [] OTHER -> "head")
  /\ UNCHANGED <<job, store, crashes>>
Head(s) ==
  /\ sends[s].at = "head"
  /\ To(s, IF "upload" \in stored[sends[s].slot] THEN "store" ELSE "refused")
  /\ UNCHANGED <<job, store, crashes>>
\* storeFile, processVoice or processImage reads the staged file, stores it.
Store(s) ==
  /\ sends[s].at = "store"
  /\ LET a == sends[s].slot IN
     IF "upload" \in stored[a]
     THEN To(s, "mark") /\ stored' = [stored EXCEPT ![a] = @ \cup {"original"}]
     ELSE To(s, "error") /\ UNCHANGED stored
  /\ UNCHANGED <<job, row, message, cleaning, crashes>>
\* markAttachmentProcessed: a row that is gone fails the request.
Mark(s) ==
  /\ sends[s].at = "mark"
  /\ LET a == sends[s].slot IN
     /\ To(s, IF row[a] = "gone" THEN "error" ELSE "unstage")
     /\ row' = [row EXCEPT ![a] = IF @ = "new" THEN "processed" ELSE @]
  /\ UNCHANGED <<job, stored, message, cleaning, crashes>>
Unstage(s) ==
  /\ sends[s].at = "unstage" /\ To(s, "append")
  /\ stored' = [stored EXCEPT ![sends[s].slot] = @ \ {"upload"}]
  /\ UNCHANGED <<job, row, message, cleaning, crashes>>
\* appendMessageWithStatus: the same clientMsgId gives the message there is;
\* otherwise the row is linked in the same transaction, or all is rolled back.
Append(s) ==
  /\ sends[s].at = "append"
  /\ LET a == sends[s].slot IN
     \/ message # None /\ To(s, "ok") /\ UNCHANGED <<row, message>>
     \/ /\ message = None /\ row[a] = "processed" /\ To(s, "ok")
        /\ row' = [row EXCEPT ![a] = "linked"] /\ message' = a
     \/ message = None /\ row[a] # "processed" /\ To(s, "refused") /\ UNCHANGED <<row, message>>
  /\ UNCHANGED <<job, stored, cleaning, crashes>>

(**************************** Sweep and deletion **************************)

\* The bug of trusting the subquery: rows a send has just linked go too.
SweepSnapshot(a) ==
  /\ row[a] \in {"new", "processed", "linked"} /\ row' = [row EXCEPT ![a] = "gone"]
  /\ cleaning' = cleaning \cup {[slot |-> a, by |-> "sweep"]}
  /\ UNCHANGED <<job, stored, sends, message, crashes>>
\* deleteStaleUnsentAttachments: the row first, its files in a later call.
Sweep(a) ==
  /\ row[a] \in {"new", "processed"} /\ row' = [row EXCEPT ![a] = "gone"]
  /\ cleaning' = cleaning \cup {[slot |-> a, by |-> "sweep"]}
  /\ UNCHANGED <<job, stored, sends, message, crashes>>

\* softDeleteMessage, then deleteRows: the files first, the row last.
DeleteMessage ==
  /\ message \in Slots /\ message' = "deleted"
  /\ cleaning' = cleaning \cup {[slot |-> message, by |-> "delete"]}
  /\ UNCHANGED <<job, row, stored, sends, crashes>>
Clean(c) ==
  /\ c \in cleaning /\ cleaning' = cleaning \ {c} /\ stored' = [stored EXCEPT ![c.slot] = {}]
  /\ row' = [row EXCEPT ![c.slot] = "gone"]
  /\ UNCHANGED <<job, sends, message, crashes>>

\* Requests and sweeps in memory are lost; the phone sees a lost connection.
Crash ==
  /\ crashes < MaxCrashes /\ crashes' = crashes + 1 /\ cleaning' = {}
  /\ sends' = [s \in Sends |-> Idle]
  /\ IF step = "sending" THEN Again ELSE UNCHANGED <<step, attempt>>
  /\ UNCHANGED <<progress, retries, row, stored, message>>

Serve(s) == Find(s) \/ Head(s) \/ Store(s) \/ Mark(s) \/ Unstage(s) \/ Append(s)
Next ==
  \/ Put \/ Lose \/ Wake \/ Retry \/ Cancel \/ DeleteMessage \/ Crash
  \/ \E a \in Slots : RequestUpload(a) \/ Sweep(a)
  \/ \E s \in Sends : Send(s) \/ Answer(s) \/ Drop(s) \/ Serve(s)
  \/ \E c \in cleaning : Clean(c)

Spec == Init /\ [][Next]_vars

(****************************** Properties ********************************)

\* What a message carries can be downloaded: its row and its processed file
\* outlive the sweep, retried sends and lost answers (db/attachments.ts:65).
StoredWhileSent == message \in Slots => row[message] = "linked" /\ "original" \in stored[message]

\* "a retried send of that same message ... gets the stored result back"
\* (attachments.service.ts:202): it is not refused once the message is there.
RetryGetsResult == [][\A s \in Sends :
                        Running(s) /\ message \in Slots => sends'[s].at # "refused"]_vars

\* Nothing that was cleaned up leaves files behind.
NoFilesLeft == \A a \in Slots : row[a] = "gone" /\ (\A s \in Sends : sends[s] = Idle)
                               /\ (\A c \in cleaning : c.slot # a) => stored[a] = {}
=============================================================================
