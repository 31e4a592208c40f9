------------------------------ MODULE PdfRouter ------------------------------
(***************************************************************************)
(* The PDF attachments of a mail on their way to the NAS: the agent has    *)
(* the bridge unlock each, asks the language model for a name and writes   *)
(* the pages under that name, recording every step in pdf_attachments.     *)
(* A mail is fetched again until its result is recorded, so a restart      *)
(* brings its attachments back.                                            *)
(***************************************************************************)
EXTENDS Integers, Sequences, FiniteSets

CONSTANTS
  NoPath,
  Docs,       \* PDFs, told apart by their bytes (and the first 8 digits of their hash)
  FileNames,  \* names the model may propose, with their folder
  Mails,      \* mails with attachments
  RouterRegimes

Oversized == "oversized"      \* dropped by the size guard, only the name is known
Kinds == {"plain", "encrypted", "unreadable"}

ASSUME RouterAssumption ==
  /\ NoPath \notin Docs \cup FileNames \cup Mails
  /\ Oversized \notin Docs
  /\ \A r \in RouterRegimes :
       /\ DOMAIN r.carries \subseteq Mails
       /\ \A m \in DOMAIN r.carries : r.carries[m] \in Seq(Docs \cup {Oversized})
       /\ r.kind \in [Docs -> Kinds]
       /\ r.passwords \in BOOLEAN /\ r.allowed \in BOOLEAN /\ r.routerFaults \in Nat

\* No name is proposed that ends like one that was taken, in the digits of a hash.
ASSUME NamesAssumption ==
  /\ FileNames \cap (FileNames \X Docs) = {}
  /\ NoPath \notin FileNames \X Docs

VARIABLES
  rows,     \* pdf_attachments: [attachment_key -> its row]
  nas,      \* [path -> what the file holds]
  mounted,  \* the share is there
  routing,  \* the mail and the attachment at hand
  handled,  \* the mails whose result is recorded
  cut,      \* history: paths whose writing was broken off
  astray,   \* history: attachments written while the share was away
  routerFaults, routerRegime

routerVars == <<rows, nas, mounted, routing, handled, cut, astray, routerFaults, routerRegime>>

\* A name is used with the first digits of the document's hash when it is taken.
Paths == FileNames \cup (FileNames \X Docs)
NoFile == [doc |-> NoPath, form |-> "none"]
File(doc, form) == [doc |-> doc, form |-> form]
AttachmentKeys == Mails \X (Docs \cup {Oversized})
NoRow == [status |-> "none", path |-> NoPath]
Row(status, path) == [status |-> status, path |-> path]

Resting == [pc |-> "idle", mail |-> NoPath, left |-> <<>>, form |-> "raw", name |-> NoPath, path |-> NoPath]
On(pc) == routing.pc = pc
Doc == Head(routing.left)
Key == <<routing.mail, Doc>>
Kind == routerRegime.kind[Doc]

RouterInit ==
  /\ routerRegime \in RouterRegimes
  /\ rows = [k \in AttachmentKeys |-> NoRow]
  /\ nas = [p \in Paths |-> NoFile]
  /\ mounted = TRUE
  /\ routing = Resting /\ handled = {}
  /\ cut = {} /\ astray = {}
  /\ routerFaults = 0

RouterFault == routerFaults < routerRegime.routerFaults /\ routerFaults' = routerFaults + 1
NoFault == UNCHANGED routerFaults
Same == UNCHANGED <<handled, routerRegime>>

\* upsert_pdf_attachment: the path, once known, stays.
Upsert(status, path) ==
  rows' = [rows EXCEPT ![Key] = Row(status, IF path = NoPath THEN @.path ELSE path)]
Settle == routing' = [routing EXCEPT !.pc = "attachment", !.left = Tail(@), !.form = "raw", !.name = NoPath, !.path = NoPath]
-----------------------------------------------------------------------------
(* A mail not yet recorded is (again) the next to be processed.                *)
TakeMail ==
  /\ On("idle")
  /\ \E m \in DOMAIN routerRegime.carries \ handled :
       routing' = [Resting EXCEPT !.pc = "attachment", !.mail = m,
                     !.left = IF routerRegime.allowed THEN routerRegime.carries[m] ELSE <<>>]
  /\ NoFault /\ Same /\ UNCHANGED <<rows, nas, mounted, cut, astray>>

TooLarge ==
  /\ On("attachment") /\ routing.left # <<>> /\ Doc = Oversized
  /\ Upsert("pending_review", NoPath) /\ Settle
  /\ NoFault /\ Same /\ UNCHANGED <<nas, mounted, cut, astray>>

AlreadyRouted == rows[Key].status \in {"routed", "unlocked"}
Skip ==
  /\ On("attachment") /\ routing.left # <<>> /\ Doc # Oversized /\ AlreadyRouted
  /\ Settle
  /\ NoFault /\ Same /\ UNCHANGED <<rows, nas, mounted, cut, astray>>

Begin ==
  /\ On("attachment") /\ routing.left # <<>> /\ Doc # Oversized /\ ~ AlreadyRouted
  /\ Upsert("pending", NoPath)
  /\ routing' = [routing EXCEPT !.pc = IF routerRegime.passwords THEN "unlock" ELSE "name"]
  /\ NoFault /\ Same /\ UNCHANGED <<nas, mounted, cut, astray>>

UnlockViaRaising ==      \* a mutation: a refusal is not caught
  /\ On("unlock")
  /\ \/ Kind = "encrypted" /\ Upsert("unlocked", NoPath) /\ routing' = [routing EXCEPT !.pc = "name", !.form = "unlocked"]
     \/ Kind # "encrypted" /\ routing' = Resting /\ UNCHANGED rows
  /\ NoFault /\ Same /\ UNCHANGED <<nas, mounted, cut, astray>>

(* The bridge tries no password, then each.  Its answer for a PDF that needs   *)
(* none has no index of the password, and the agent fails to read it.          *)
UnlockVia ==
  /\ On("unlock")
  /\ CASE Kind = "encrypted" -> /\ Upsert("unlocked", NoPath)
                                /\ routing' = [routing EXCEPT !.pc = "name", !.form = "unlocked"]
       [] Kind = "unreadable" -> Upsert("pending_review", NoPath) /\ Settle     \* 422
       [] Kind = "plain" -> Upsert("failed", NoPath) /\ Settle
  /\ NoFault /\ Same /\ UNCHANGED <<nas, mounted, cut, astray>>

(* A 5xx is called retryable; anything else, a time-out included, is not.      *)
UnlockFails ==
  /\ On("unlock") /\ RouterFault
  /\ \E status \in {"failed_retryable", "failed"} : Upsert(status, NoPath)
  /\ Settle
  /\ Same /\ UNCHANGED <<nas, mounted, cut, astray>>

(* The model proposes a name; without a usable one a person is asked.          *)
ProposeName ==
  /\ On("name")
  /\ \/ /\ Upsert("pending_review", NoPath) /\ Settle
     \/ /\ Upsert("renamed", NoPath)
        /\ \E n \in FileNames : routing' = [routing EXCEPT !.pc = "mount", !.name = n]
  /\ NoFault /\ Same /\ UNCHANGED <<nas, mounted, cut, astray>>

(* The probe of the share.  What it finds missing stays pending.               *)
ProbeMount ==
  /\ On("mount")
  /\ IF mounted THEN routing' = [routing EXCEPT !.pc = "route"] /\ UNCHANGED rows
     ELSE Upsert("pending", NoPath) /\ Settle
  /\ NoFault /\ Same /\ UNCHANGED <<nas, mounted, cut, astray>>

\* The file is compared with the bytes of the attachment, not those to write.
SameBytes(file) == file = File(Doc, "raw")
PathForBare == routing.name      \* a mutation: a name that is taken is taken over
PathFor ==
  IF nas[routing.name] = NoFile \/ SameBytes(nas[routing.name]) THEN routing.name ELSE <<routing.name, Doc>>

ReuseFile == SameBytes(nas[routing.name])

Reuse ==
  /\ On("route") /\ mounted /\ ReuseFile
  /\ routing' = [routing EXCEPT !.pc = "record", !.path = PathFor]
  /\ NoFault /\ Same /\ UNCHANGED <<rows, nas, mounted, cut, astray>>

OpenFile ==
  /\ On("route") /\ mounted /\ ~ ReuseFile
  /\ nas' = [nas EXCEPT ![PathFor] = File(Doc, "partial")]
  /\ routing' = [routing EXCEPT !.pc = "write", !.path = PathFor]
  /\ NoFault /\ Same /\ UNCHANGED <<rows, mounted, cut, astray>>

WriteFile ==
  /\ On("write") /\ mounted
  /\ nas' = [nas EXCEPT ![routing.path] = File(Doc, routing.form)]
  /\ routing' = [routing EXCEPT !.pc = "record"]
  /\ NoFault /\ Same /\ UNCHANGED <<rows, mounted, cut, astray>>

(* A full disk, a name too long with its suffix, a share that goes away.       *)
CutOff == cut' = IF On("write") THEN cut \cup {routing.path} ELSE cut
WriteFails ==
  /\ On("route") \/ On("write")
  /\ IF mounted THEN RouterFault ELSE NoFault
  /\ Upsert("failed", NoPath) /\ Settle /\ CutOff
  /\ Same /\ UNCHANGED <<nas, mounted, astray>>

(* The share goes away after the probe, and the empty folder takes the file.   *)
WriteBeside ==
  /\ On("route") /\ ~ mounted
  /\ \E p \in {routing.name, <<routing.name, Doc>>} : routing' = [routing EXCEPT !.pc = "record", !.path = p]
  /\ astray' = astray \cup {Key}
  /\ NoFault /\ Same /\ UNCHANGED <<rows, nas, mounted, cut>>

Record ==
  /\ On("record")
  /\ Upsert("routed", routing.path) /\ Settle
  /\ NoFault /\ Same /\ UNCHANGED <<nas, mounted, cut, astray>>

(* The rest of the mail: alert, result, checkpoint.                            *)
SaveMail ==
  /\ On("attachment") /\ routing.left = <<>>
  /\ handled' = handled \cup {routing.mail}
  /\ routing' = Resting
  /\ NoFault /\ UNCHANGED <<rows, nas, mounted, cut, astray, routerRegime>>

Restart ==
  /\ ~ On("idle") /\ RouterFault
  /\ routing' = Resting /\ CutOff
  /\ Same /\ UNCHANGED <<rows, nas, mounted, astray>>

Unmount == mounted /\ RouterFault /\ mounted' = FALSE /\ Same /\ UNCHANGED <<rows, nas, routing, cut, astray>>
Mount == ~ mounted /\ mounted' = TRUE /\ NoFault /\ Same /\ UNCHANGED <<rows, nas, routing, cut, astray>>

RouterStep ==
  \/ TakeMail \/ TooLarge \/ Skip \/ Begin \/ UnlockVia \/ UnlockFails \/ ProposeName \/ ProbeMount
  \/ Reuse \/ OpenFile \/ WriteFile \/ WriteFails \/ WriteBeside \/ Record \/ SaveMail
RouterNext == RouterStep \/ Restart \/ Unmount \/ Mount

RouterSpec == RouterInit /\ [][RouterNext]_routerVars /\ WF_routerVars(RouterStep)
-----------------------------------------------------------------------------
Statuses == {"none", "pending", "unlocked", "renamed", "pending_review", "routed", "failed", "failed_retryable"}
RTypeOK ==
  /\ rows \in [AttachmentKeys -> [status : Statuses, path : Paths \cup {NoPath}]]
  /\ \A p \in Paths : nas[p] = NoFile \/ nas[p] \in [doc : Docs, form : {"raw", "unlocked", "partial"}]
  /\ handled \subseteq DOMAIN routerRegime.carries
  /\ \A k \in AttachmentKeys : rows[k].path # NoPath => rows[k].status = "routed"

(* RoutedIsOnNas: an attachment recorded as routed lies on the NAS under the   *)
(* recorded path, whole, whatever else is routed under the same name before or *)
(* after it and wherever the agent is stopped - but for a copy being written   *)
(* over it, or cut off at that, and a share that went away after the probe     *)
(* (pdf_router.py:457, write_bytes).                                           *)
RoutedIsOnNas ==
  \A m \in Mails, d \in Docs :
    LET row == rows[<<m, d>>] IN
    row.status = "routed" /\ <<m, d>> \notin astray =>
      /\ nas[row.path].doc = d
      /\ nas[row.path].form # "partial" \/ row.path \in cut \/ (On("write") /\ routing.path = row.path)

(* StoredOnce: "Same sha256 on disk -> idempotent reuse": pages that needed no *)
(* unlocking never lie under a name and, suffixed, beside it, however often    *)
(* their mail is processed again and in however many mails they come.          *)
StoredOnce ==
  \A n \in FileNames, d \in Docs : nas[n] = File(d, "raw") => nas[<<n, d>>] # File(d, "raw")

(* HandledAreRecorded: when a mail is recorded as processed each of its        *)
(* attachments has come to an end: none is forgotten by a restart half-way,    *)
(* and only one whose share was away, or that was cut off just after it was    *)
(* unlocked, is left on the way (orchestrator.py:319).                         *)
HandledAreRecorded == routerRegime.allowed =>
  \A m \in handled : \A i \in DOMAIN routerRegime.carries[m] :
    LET status == rows[<<m, routerRegime.carries[m][i]>>].status IN
    /\ status \in {"routed", "pending_review", "failed", "failed_retryable", "pending", "unlocked"}
    /\ status \in {"pending", "unlocked"} => routerFaults > 0

(* MailsAreHandled: no attachment, whatever becomes of it, keeps its mail from *)
(* being processed.                                                            *)
MailsAreHandled == <>(DOMAIN routerRegime.carries \subseteq handled)

(***************************************************************************)
(* What is recorded as routed is on the share, whole and once, with the    *)
(* exceptions its parts name: a share lost after the probe and a write cut *)
(* off; and a recorded mail has a row for each of its attachments.         *)
(***************************************************************************)
RouterIsSound ==
  /\ RTypeOK
  /\ RoutedIsOnNas
  /\ StoredOnce
  /\ HandledAreRecorded
===============================================================================
