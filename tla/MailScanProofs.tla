--------------------------- MODULE MailScanProofs ---------------------------
(***************************************************************************)
(* Proofs about MailScan and PdfRouter, for every set of mails, documents  *)
(* and names: what is recorded as routed lies on the share; no mail up to  *)
(* the acknowledged row is skipped, none is announced twice without a      *)
(* fault, and the alerts of an hour stay within the limit.                 *)
(***************************************************************************)
EXTENDS MailScan, PdfRouter, FiniteSetTheorems, FunctionTheorems, WellFoundedInduction, TLAPS

(***************************************************************************)
(* The attachments.                                                        *)
(***************************************************************************)
Working == {"unlock", "name", "mount", "route", "write", "record"}
Named == {"mount", "route", "write", "record"}
Carried == routerRegime.carries
Files == {NoFile} \cup [doc : Docs, form : {"raw", "unlocked", "partial"}]
RouterRow == [status : Statuses, path : Paths \cup {NoPath}]
Routing == [pc : {"idle", "attachment"} \cup Working, mail : Mails \cup {NoPath},
            left : Seq(Docs \cup {Oversized}), form : {"raw", "unlocked"},
            name : FileNames \cup {NoPath}, path : Paths \cup {NoPath}]

RouterTyped ==
  /\ rows \in [AttachmentKeys -> RouterRow] /\ nas \in [Paths -> Files]
  /\ mounted \in BOOLEAN /\ routing \in Routing
  /\ handled \subseteq DOMAIN Carried /\ cut \subseteq Paths /\ astray \subseteq AttachmentKeys
  /\ routerFaults \in Nat /\ routerRegime \in RouterRegimes
  /\ \A k \in AttachmentKeys : rows[k].path # NoPath => rows[k].status = "routed"
  /\ \A k \in AttachmentKeys : rows[k].status = "routed" => rows[k].path \in Paths
  /\ \A m \in Mails : rows[<<m, Oversized>>].status # "routed"
  /\ ~ On("idle") => routing.mail \in DOMAIN Carried \ handled
  /\ routing.pc \in Working =>
       routing.left # <<>> /\ Doc \in Docs /\ rows[Key].status # "routed"
  /\ routing.pc \in Named => routing.name \in FileNames

(***************************************************************************)
(* A suffixed file holds the document of its suffix, and lies beside one   *)
(* of the bare name; the file being written is the router's own.           *)
(***************************************************************************)
FilesKept ==
  /\ \A n \in FileNames, d \in Docs :
       nas[<<n, d>>] # NoFile => nas[<<n, d>>].doc = d /\ nas[n] # NoFile
  /\ On("write") =>
       /\ routing.path \in {routing.name, <<routing.name, Doc>>}
       /\ nas[routing.path] = File(Doc, "partial")
       /\ routing.path = routing.name => \A d \in Docs : nas[<<routing.name, d>>] = NoFile
       /\ routing.path # routing.name => nas[routing.name] # File(Doc, "raw")
  /\ On("record") =>
       /\ routing.path \in Paths
       /\ Key \in astray \/ (nas[routing.path].doc = Doc /\ nas[routing.path].form # "partial")

Ended(k) ==
  /\ rows[k].status \in {"routed", "pending_review", "failed", "failed_retryable", "pending",
                         "unlocked"}
  /\ rows[k].status \in {"pending", "unlocked"} => routerFaults > 0

Ahead(d) == \E j \in 1 .. Len(routing.left) : routing.left[j] = d

(***************************************************************************)
(* Of the mail at hand, every attachment has come to an end or is ahead.   *)
(***************************************************************************)
NothingForgotten ==
  /\ ~ mounted => routerFaults > 0
  /\ \A k \in AttachmentKeys :
       rows[k].status = "unlocked" => routerFaults > 0 \/ (On("name") /\ k = Key)
  /\ routerRegime.allowed /\ ~ On("idle") =>
       \A i \in DOMAIN Carried[routing.mail] :
         Ahead(Carried[routing.mail][i]) \/ Ended(<<routing.mail, Carried[routing.mail][i]>>)

RInv == RouterTyped /\ FilesKept /\ NothingForgotten
        /\ RoutedIsOnNas /\ StoredOnce /\ HandledAreRecorded

USE DEF On, Doc, Key, Same, NoFault

LEMMA HeadAndTail ==
  ASSUME NEW S, NEW s \in Seq(S), s # <<>>
  PROVE  /\ Len(s) \in Nat \ {0} /\ Head(s) = s[1] /\ s[1] \in S
         /\ Tail(s) \in Seq(S) /\ Len(Tail(s)) = Len(s) - 1
         /\ \A k \in 1 .. Len(Tail(s)) : Tail(s)[k] = s[k + 1]
  OBVIOUS

LEMMA PathFacts ==
  /\ \A n \in FileNames : n \in Paths /\ n # NoPath
  /\ \A n \in FileNames, d \in Docs : <<n, d>> \in Paths /\ <<n, d>> # NoPath
  /\ \A n, m \in FileNames, d \in Docs : n # <<m, d>>
  /\ NoPath \notin Paths /\ NoPath \notin Docs /\ NoPath \notin Mails
  BY RouterAssumption, NamesAssumption DEF Paths

LEMMA FileFacts ==
  ASSUME NEW d \in Docs, NEW form \in {"raw", "unlocked", "partial"}
  PROVE  /\ File(d, form) \in Files /\ File(d, form).doc = d /\ File(d, form).form = form
         /\ File(d, form) # NoFile /\ NoFile \in Files /\ NoFile.doc = NoPath
  BY PathFacts DEF File, NoFile, Files

LEMMA FileForms ==
  ASSUME NEW f \in Files, NEW d \in Docs, NEW form
  PROVE  f = File(d, form) <=> f # NoFile /\ f.doc = d /\ f.form = form
  BY PathFacts DEF File, NoFile, Files

LEMMA RouterInitInductive == RouterInit => RInv
  <1> SUFFICES ASSUME RouterInit
               PROVE  RInv
    OBVIOUS
  <1> USE DEF RouterInit
  <1>1. routing \in Routing /\ On("idle")
    BY DEF Resting, Routing
  <1>2. /\ rows \in [AttachmentKeys -> RouterRow]
        /\ \A k \in AttachmentKeys : rows[k].path = NoPath /\ rows[k].status = "none"
    BY DEF NoRow, RouterRow, Statuses
  <1>3. nas \in [Paths -> Files] /\ \A p \in Paths : nas[p] = NoFile
    BY DEF Files
  <1>4. \A m \in Mails, d \in Docs : <<m, d>> \in AttachmentKeys
    BY DEF AttachmentKeys
  <1>5. RouterTyped
    BY <1>1, <1>2, <1>3 DEF RouterTyped, Working, Named, AttachmentKeys
  <1>6. FilesKept
    BY <1>1, <1>3, PathFacts DEF FilesKept
  <1>7. NothingForgotten
    BY <1>1, <1>2 DEF NothingForgotten
  <1>8. RoutedIsOnNas
    BY <1>2, <1>4 DEF RoutedIsOnNas
  <1>9. StoredOnce
    BY <1>3, FileFacts, PathFacts DEF StoredOnce
  <1>10. HandledAreRecorded
    BY DEF HandledAreRecorded
  <1> QED
    BY <1>5, <1>6, <1>7, <1>8, <1>9, <1>10 DEF RInv
-----------------------------------------------------------------------------
(***************************************************************************)
(* What the steps write.                                                   *)
(***************************************************************************)
LEMMA AtHand ==
  ASSUME RouterTyped, ~ On("idle")
  PROVE  /\ routing.mail \in Mails /\ routing.mail \in DOMAIN Carried /\ routing.mail \notin handled
         /\ routing.left \in Seq(Docs \cup {Oversized})
         /\ routing.left # <<>> => /\ Doc = routing.left[1] /\ Doc \in Docs \cup {Oversized}
                                   /\ Key \in AttachmentKeys /\ Len(routing.left) \in Nat \ {0}
  <1>1. /\ routing.mail \in DOMAIN Carried \ handled /\ routerRegime \in RouterRegimes
        /\ routing.left \in Seq(Docs \cup {Oversized})
    BY DEF RouterTyped, Routing
  <1>2. DOMAIN Carried \subseteq Mails
    BY <1>1, RouterAssumption DEF Carried
  <1> QED
    BY <1>1, <1>2, HeadAndTail DEF AttachmentKeys

LEMMA Upserted ==
  ASSUME RouterTyped, Key \in AttachmentKeys, NEW status \in Statuses,
         NEW path \in Paths \cup {NoPath}, Upsert(status, path)
  PROVE  /\ rows' \in [AttachmentKeys -> RouterRow]
         /\ rows'[Key].status = status
         /\ rows'[Key].path = IF path = NoPath THEN rows[Key].path ELSE path
         /\ \A k \in AttachmentKeys : k # Key => rows'[k] = rows[k]
  <1> DEFINE kept == IF path = NoPath THEN rows[Key].path ELSE path
             row == Row(status, kept)
  <1>1. rows \in [AttachmentKeys -> RouterRow]
    BY DEF RouterTyped
  <1>2. kept \in Paths \cup {NoPath}
    BY <1>1 DEF RouterRow
  <1>3. rows' = [rows EXCEPT ![Key] = row]
    BY <1>1 DEF Upsert
  <1> HIDE DEF kept
  <1>4. row \in RouterRow /\ row.status = status /\ row.path = kept
    BY <1>2 DEF RouterRow, Row
  <1> HIDE DEF row
  <1> QED
    BY <1>1, <1>3, <1>4 DEF kept

LEMMA SettleFields ==
  ASSUME RouterTyped, ~ On("idle"), routing.left # <<>>, Settle
  PROVE  /\ routing' \in Routing /\ routing'.pc = "attachment" /\ routing'.mail = routing.mail
         /\ routing' # routing
         /\ \A d : Ahead(d) => \/ d = Doc
                               \/ \E j \in 1 .. Len(routing'.left) : routing'.left[j] = d
  <1> DEFINE rest == Tail(routing.left)
  <1>1. /\ routing.left \in Seq(Docs \cup {Oversized}) /\ Doc = routing.left[1]
        /\ Len(routing.left) \in Nat \ {0} /\ routing \in Routing
    BY AtHand DEF RouterTyped
  <1>2. /\ rest \in Seq(Docs \cup {Oversized}) /\ Len(rest) = Len(routing.left) - 1
        /\ \A k \in 1 .. Len(rest) : rest[k] = routing.left[k + 1]
    BY <1>1, HeadAndTail
  <1>3. routing' = [routing EXCEPT !.pc = "attachment", !.left = rest, !.form = "raw",
                                   !.name = NoPath, !.path = NoPath]
    BY DEF Settle
  <1> HIDE DEF rest
  <1>4. /\ routing' \in Routing /\ routing'.pc = "attachment" /\ routing'.mail = routing.mail
        /\ routing'.left = rest
    BY <1>1, <1>2, <1>3 DEF Routing
  <1>5. ASSUME NEW d, Ahead(d), d # routing.left[1]
        PROVE  \E j \in 1 .. Len(rest) : rest[j] = d
    <2>1. PICK j \in 1 .. Len(routing.left) : routing.left[j] = d
      BY <1>5 DEF Ahead
    <2>2. j # 1 /\ j - 1 \in 1 .. Len(rest) /\ (j - 1) + 1 = j
      BY <1>1, <1>2, <1>5, <2>1
    <2> QED
      BY <1>2, <2>1, <2>2
  <1>6. rest # routing.left
    BY <1>1, <1>2
  <1> QED
    BY <1>1, <1>4, <1>5, <1>6

\* A step that goes on with the attachment at hand.
Advance == /\ routing'.pc \in Working /\ routing'.mail = routing.mail /\ routing'.left = routing.left
           /\ ~ On("idle") /\ routing.left # <<>> /\ Doc \in Docs
           /\ (routing'.pc \in Named => routing'.name \in FileNames)

LEMMA PathForIsPath ==
  ASSUME RouterTyped, routing.pc \in Named
  PROVE  /\ PathFor \in Paths /\ PathFor \in {routing.name, <<routing.name, Doc>>}
         /\ routing.name \in FileNames /\ Doc \in Docs /\ <<routing.name, Doc>> \in Paths
  BY PathFacts DEF RouterTyped, Named, Working, PathFor

LEMMA RoutingStep ==
  ASSUME RouterTyped, [RouterNext]_routerVars
  PROVE  /\ routing' \in Routing /\ routerRegime' = routerRegime
         /\ \/ UNCHANGED <<routing, rows, nas, handled>>
            \/ TakeMail \/ SaveMail \/ Restart
            \/ Settle /\ ~ On("idle") /\ routing.left # <<>> /\ UNCHANGED <<nas, handled>>
            \/ Advance /\ UNCHANGED handled
  <1>1. CASE TakeMail
    <2>1. PICK m \in DOMAIN Carried \ handled :
            routing' = [Resting EXCEPT !.pc = "attachment", !.mail = m,
                          !.left = IF routerRegime.allowed THEN Carried[m] ELSE <<>>]
      BY <1>1 DEF TakeMail, Carried
    <2>2. m \in Mails /\ Carried[m] \in Seq(Docs \cup {Oversized})
      BY RouterAssumption DEF RouterTyped, Carried
    <2> DEFINE all == IF routerRegime.allowed THEN Carried[m] ELSE <<>>
    <2>3. all \in Seq(Docs \cup {Oversized})
      BY <2>2
    <2>4. routing' = [Resting EXCEPT !.pc = "attachment", !.mail = m, !.left = all]
      BY <2>1
    <2> HIDE DEF all
    <2> QED
      BY <1>1, <2>2, <2>3, <2>4 DEF Routing, Resting, TakeMail
  <1>2. CASE SaveMail \/ Restart
    <2>1. Resting \in Routing
      BY DEF Resting, Routing
    <2> QED
      BY <1>2, <2>1 DEF SaveMail, Restart
  <1>3. CASE Unmount \/ Mount \/ UNCHANGED routerVars
    BY <1>3 DEF Unmount, Mount, routerVars, RouterTyped
  <1>4. CASE TooLarge \/ Skip \/ UnlockFails \/ WriteFails \/ Record
    <2>1. Settle /\ ~ On("idle") /\ routing.left # <<>>
      BY <1>4 DEF TooLarge, Skip, UnlockFails, WriteFails, Record, RouterTyped, Working
    <2> QED
      BY <1>4, <2>1, SettleFields DEF TooLarge, Skip, UnlockFails, WriteFails, Record
  <1>5. ASSUME routing' = [routing EXCEPT !.pc = routing'.pc, !.form = routing'.form,
                                          !.name = routing'.name, !.path = routing'.path],
               ~ On("idle"), routing.left # <<>>, Doc \in Docs,
               routing'.pc \in Working, routing'.form \in {"raw", "unlocked"},
               routing'.name \in FileNames \cup {NoPath}, routing'.path \in Paths \cup {NoPath},
               routing'.pc \in Named => routing'.name \in FileNames
        PROVE  routing' \in Routing /\ Advance
    <2>1. routing \in Routing
      BY DEF RouterTyped
    <2>2. routing' \in Routing /\ routing'.mail = routing.mail /\ routing'.left = routing.left
      BY <1>5, <2>1 DEF Routing
    <2> QED
      BY <1>5, <2>2 DEF Advance
  <1>6. routing \in Routing
    BY DEF RouterTyped
  <1>7. CASE Begin \/ (ProbeMount /\ mounted)
    <2>1. ~ On("idle") /\ routing.left # <<>> /\ Doc \in Docs
      BY <1>7, AtHand DEF Begin, ProbeMount, RouterTyped, Working
    <2>2. /\ routing'.pc \in {"unlock", "name", "route"}
          /\ routing' = [routing EXCEPT !.pc = routing'.pc]
          /\ routing'.pc \in Named => routing.name \in FileNames
      BY <1>6, <1>7 DEF Begin, ProbeMount, RouterTyped, Named, Routing
    <2>3. /\ routing' = [routing EXCEPT !.pc = routing'.pc, !.form = routing'.form,
                                          !.name = routing'.name, !.path = routing'.path]
          /\ routing'.form = routing.form /\ routing'.name = routing.name
          /\ routing'.path = routing.path
      BY <1>6, <2>2 DEF Routing
    <2>4. Advance /\ routing' \in Routing
      BY <1>5, <1>6, <2>1, <2>2, <2>3 DEF Routing, Working
    <2> QED
      BY <1>7, <2>4 DEF Begin, ProbeMount
  <1>8. CASE UnlockVia
    <2>1. ~ On("idle") /\ routing.left # <<>> /\ Doc \in Docs
      BY <1>8 DEF UnlockVia, RouterTyped, Working
    <2>2. Kind \in Kinds
      BY <2>1, RouterAssumption DEF Kind, RouterTyped
    <2>3. CASE Kind = "encrypted"
      <3>1. routing' = [routing EXCEPT !.pc = "name", !.form = "unlocked"]
        BY <1>8, <2>3 DEF UnlockVia
      <3>2. /\ routing' = [routing EXCEPT !.pc = routing'.pc, !.form = routing'.form,
                                            !.name = routing'.name, !.path = routing'.path]
            /\ routing'.form = "unlocked" /\ routing'.name = routing.name
            /\ routing'.path = routing.path /\ routing'.pc = "name"
        BY <1>6, <3>1 DEF Routing
      <3>3. Advance /\ routing' \in Routing
        BY <1>5, <1>6, <2>1, <3>2 DEF Routing, Working, Named
      <3> QED
        BY <1>8, <3>3 DEF UnlockVia
    <2>4. CASE Kind # "encrypted"
      <3>1. Settle
        BY <1>8, <2>2, <2>4 DEF UnlockVia, Kinds
      <3> QED
        BY <1>8, <2>1, <3>1, SettleFields DEF UnlockVia
    <2> QED
      BY <2>3, <2>4
  <1>9. CASE ProposeName
    <2>1. ~ On("idle") /\ routing.left # <<>> /\ Doc \in Docs
      BY <1>9 DEF ProposeName, RouterTyped, Working
    <2>2. CASE Settle
      BY <1>9, <2>1, <2>2, SettleFields DEF ProposeName
    <2>3. CASE \E n \in FileNames : routing' = [routing EXCEPT !.pc = "mount", !.name = n]
      <3>1. PICK n \in FileNames : routing' = [routing EXCEPT !.pc = "mount", !.name = n]
        BY <2>3
      <3>2. /\ routing' = [routing EXCEPT !.pc = routing'.pc, !.form = routing'.form,
                                            !.name = routing'.name, !.path = routing'.path]
            /\ routing'.form = routing.form /\ routing'.name = n
            /\ routing'.path = routing.path /\ routing'.pc = "mount"
        BY <1>6, <3>1 DEF Routing
      <3>3. Advance /\ routing' \in Routing
        BY <1>5, <1>6, <2>1, <3>2 DEF Routing, Working
      <3> QED
        BY <1>9, <3>3 DEF ProposeName
    <2> QED
      BY <1>9, <2>2, <2>3 DEF ProposeName
  <1>10. CASE ProbeMount /\ ~ mounted
    <2>1. ~ On("idle") /\ routing.left # <<>> /\ Settle
      BY <1>10 DEF ProbeMount, RouterTyped, Working
    <2> QED
      BY <1>10, <2>1, SettleFields DEF ProbeMount
  <1>11. CASE Reuse \/ OpenFile \/ WriteFile \/ WriteBeside
    <2>1. ~ On("idle") /\ routing.left # <<>> /\ Doc \in Docs /\ routing.pc \in Named
      BY <1>11 DEF Reuse, OpenFile, WriteFile, WriteBeside, RouterTyped, Working, Named
    <2>2. /\ PathFor \in Paths /\ routing.name \in FileNames
          /\ routing.name \in Paths /\ <<routing.name, Doc>> \in Paths
      BY <2>1, PathForIsPath, PathFacts
    <2>3. PICK path \in Paths \cup {NoPath}, pc \in {"write", "record"} :
            routing' = [routing EXCEPT !.pc = pc, !.path = path]
      <3>1. CASE Reuse \/ OpenFile
        BY <2>2, <3>1 DEF Reuse, OpenFile
      <3>2. CASE WriteFile
        <4>1. routing' = [routing EXCEPT !.pc = "record", !.path = routing.path]
          BY <1>6, <3>2 DEF WriteFile, Routing
        <4> QED
          BY <1>6, <4>1 DEF Routing
      <3>3. CASE WriteBeside
        BY <2>2, <3>3 DEF WriteBeside
      <3> QED
        BY <1>11, <3>1, <3>2, <3>3
    <2>4. /\ routing' = [routing EXCEPT !.pc = routing'.pc, !.form = routing'.form,
                                          !.name = routing'.name, !.path = routing'.path]
          /\ routing'.form = routing.form /\ routing'.name = routing.name
          /\ routing'.path = path /\ routing'.pc = pc
      BY <1>6, <2>3 DEF Routing
    <2>5. Advance /\ routing' \in Routing
      BY <1>5, <1>6, <2>1, <2>2, <2>4 DEF Routing, Working
    <2> QED
      BY <1>11, <2>5 DEF Reuse, OpenFile, WriteFile, WriteBeside
  <1>12. \/ TakeMail \/ SaveMail \/ Restart \/ Unmount \/ Mount \/ UNCHANGED routerVars
         \/ TooLarge \/ Skip \/ UnlockFails \/ WriteFails \/ Record \/ Begin \/ UnlockVia
         \/ ProposeName \/ ProbeMount \/ Reuse \/ OpenFile \/ WriteFile \/ WriteBeside
    BY DEF RouterNext, RouterStep
  <1> QED
    BY <1>1, <1>2, <1>3, <1>4, <1>7, <1>8, <1>9, <1>10, <1>11, <1>12

\* What a step does to the row of the attachment at hand, other than record it as routed.
Rewrites ==
  /\ ~ On("idle") /\ routing.left # <<>> /\ Key \in AttachmentKeys /\ rows[Key].status # "routed"
  /\ \E status \in Statuses \ {"none", "routed"} :
       /\ Upsert(status, NoPath)
       /\ status = "unlocked" => Advance /\ routing'.pc = "name"
       /\ status \in {"pending", "renamed", "unlocked"} => Advance \/ (status = "pending" /\ ~ mounted)

\* The steps that touch no row.
Quiet == \/ TakeMail \/ SaveMail \/ Restart \/ Unmount \/ Mount \/ UNCHANGED routerVars
         \/ Skip \/ Reuse \/ OpenFile \/ WriteFile \/ WriteBeside \/ (ProbeMount /\ mounted)

LEMMA RowsStep ==
  ASSUME RouterTyped, [RouterNext]_routerVars
  PROVE  \/ UNCHANGED rows /\ Quiet /\ (Advance => routing.pc \in Working)
         \/ Rewrites /\ UNCHANGED <<nas, handled>>
         \/ Record
  <1>1. CASE TakeMail \/ SaveMail \/ Restart \/ Unmount \/ Mount \/ UNCHANGED routerVars
    <2>1. UNCHANGED rows
      BY <1>1 DEF TakeMail, SaveMail, Restart, Unmount, Mount, routerVars
    <2>2. ASSUME Advance
          PROVE  routing.pc \in Working
      <3>1. ~ TakeMail /\ ~ SaveMail /\ ~ Restart
        <4>1. Resting.pc \notin Working
          BY DEF Resting, Working
        <4>2. TakeMail => On("idle")
          BY DEF TakeMail
        <4>3. SaveMail \/ Restart => routing' = Resting
          BY DEF SaveMail, Restart
        <4> QED
          BY <2>2, <4>1, <4>2, <4>3 DEF Advance
      <3>2. CASE Unmount \/ Mount \/ UNCHANGED routerVars
        BY <2>2, <3>2 DEF Advance, Unmount, Mount, routerVars
      <3> QED
        BY <1>1, <3>1, <3>2
    <2> QED
      BY <1>1, <2>1, <2>2 DEF Quiet
  <1>2. CASE Reuse \/ OpenFile \/ WriteFile \/ WriteBeside \/ (ProbeMount /\ mounted)
    <2>1. UNCHANGED rows /\ routing.pc \in Working
      BY <1>2 DEF Reuse, OpenFile, WriteFile, WriteBeside, ProbeMount, Working
    <2> QED
      BY <1>2, <2>1 DEF Quiet
  <1>3. CASE Skip
    <2>1. routing \in Routing
      BY DEF RouterTyped
    <2>2. routing'.pc = "attachment"
      BY <1>3, <2>1 DEF Skip, Settle, Routing
    <2>3. UNCHANGED rows /\ ~ Advance
      BY <1>3, <2>2 DEF Skip, Advance, Working
    <2> QED
      BY <1>3, <2>3 DEF Quiet
  <1>4. ASSUME ~ On("idle"), routing.left # <<>>
        PROVE  Key \in AttachmentKeys /\ Doc \in Docs \cup {Oversized}
               /\ routing.mail \in Mails /\ routing \in Routing
    BY <1>4, AtHand DEF RouterTyped
  <1>5. CASE TooLarge
    <2>1. ~ On("idle") /\ routing.left # <<>> /\ Key \in AttachmentKeys
      BY <1>4, <1>5 DEF TooLarge
    <2>2. rows[Key].status # "routed"
      BY <1>4, <1>5 DEF TooLarge, RouterTyped
    <2> QED
      BY <1>5, <2>1, <2>2 DEF TooLarge, Rewrites, Statuses
  <1>6. CASE Begin
    <2>1. ~ On("idle") /\ routing.left # <<>> /\ Key \in AttachmentKeys /\ Doc \in Docs
      BY <1>4, <1>6 DEF Begin
    <2>2. routing'.pc \in {"unlock", "name"} /\ routing'.mail = routing.mail /\ routing'.left = routing.left
      BY <1>4, <1>6, <2>1 DEF Begin, Routing
    <2>3. Advance
      BY <2>1, <2>2 DEF Advance, Working, Named
    <2> QED
      BY <1>6, <2>1, <2>3 DEF Begin, AlreadyRouted, Rewrites, Statuses
  <1>7. ASSUME routing.pc \in Working
        PROVE  /\ ~ On("idle") /\ routing.left # <<>> /\ Key \in AttachmentKeys
               /\ Doc \in Docs /\ rows[Key].status # "routed" /\ routing \in Routing
    BY <1>4, <1>7 DEF RouterTyped, Working
  <1>8. CASE UnlockVia
    <2>1. routing.pc \in Working
      BY <1>8 DEF UnlockVia, Working
    <2>2. Kind \in Kinds
      BY <1>7, <2>1, RouterAssumption DEF Kind, RouterTyped
    <2>3. CASE Kind = "encrypted"
      <3>1. Upsert("unlocked", NoPath) /\ routing' = [routing EXCEPT !.pc = "name", !.form = "unlocked"]
        BY <1>8, <2>3 DEF UnlockVia
      <3>2. routing'.pc = "name" /\ routing'.mail = routing.mail /\ routing'.left = routing.left
        BY <1>7, <2>1, <3>1 DEF Routing
      <3>3. Advance
        BY <1>7, <2>1, <3>2 DEF Advance, Working, Named
      <3> QED
        BY <1>7, <1>8, <2>1, <3>1, <3>2, <3>3 DEF UnlockVia, Rewrites, Statuses
    <2>4. CASE Kind # "encrypted"
      <3>1. Upsert("pending_review", NoPath) \/ Upsert("failed", NoPath)
        BY <1>8, <2>2, <2>4 DEF UnlockVia, Kinds
      <3> QED
        BY <1>7, <1>8, <2>1, <3>1 DEF UnlockVia, Rewrites, Statuses
    <2> QED
      BY <2>3, <2>4
  <1>9. CASE UnlockFails \/ WriteFails
    <2>1. routing.pc \in Working
      BY <1>9 DEF UnlockFails, WriteFails, Working
    <2>2. \E status \in {"failed_retryable", "failed"} : Upsert(status, NoPath)
      BY <1>9 DEF UnlockFails, WriteFails
    <2> QED
      BY <1>7, <1>9, <2>1, <2>2 DEF UnlockFails, WriteFails, Rewrites, Statuses
  <1>10. CASE ProposeName
    <2>1. routing.pc \in Working
      BY <1>10 DEF ProposeName, Working
    <2>4. UNCHANGED <<nas, handled>>
      BY <1>10 DEF ProposeName
    <2>2. CASE Upsert("pending_review", NoPath)
      BY <1>7, <2>1, <2>2, <2>4 DEF Rewrites, Statuses
    <2>3. CASE Upsert("renamed", NoPath) /\ \E n \in FileNames : routing' = [routing EXCEPT !.pc = "mount", !.name = n]
      <3>1. /\ routing'.pc = "mount" /\ routing'.mail = routing.mail /\ routing'.left = routing.left
            /\ routing'.name \in FileNames
        <4>1. PICK n \in FileNames : routing' = [routing EXCEPT !.pc = "mount", !.name = n]
          BY <2>3
        <4> QED
          BY <1>7, <2>1, <4>1 DEF Routing
      <3>2. Advance
        BY <1>7, <2>1, <3>1 DEF Advance, Working
      <3> QED
        BY <1>7, <2>1, <2>3, <2>4, <3>2 DEF Rewrites, Statuses
    <2> QED
      BY <1>10, <2>2, <2>3 DEF ProposeName
  <1>11. CASE ProbeMount /\ ~ mounted
    <2>1. routing.pc \in Working
      BY <1>11 DEF ProbeMount, Working
    <2> QED
      BY <1>7, <1>11, <2>1 DEF ProbeMount, Rewrites, Statuses
  <1>12. \/ TakeMail \/ SaveMail \/ Restart \/ Unmount \/ Mount \/ UNCHANGED routerVars
         \/ TooLarge \/ Skip \/ UnlockFails \/ WriteFails \/ Record \/ Begin \/ UnlockVia
         \/ ProposeName \/ ProbeMount \/ Reuse \/ OpenFile \/ WriteFile \/ WriteBeside
    BY DEF RouterNext, RouterStep
  <1> QED
    BY <1>1, <1>2, <1>3, <1>5, <1>6, <1>8, <1>9, <1>10, <1>11, <1>12

\* What each of the other variables is written by.
LEMMA OthersStep ==
  ASSUME [RouterNext]_routerVars
  PROVE  /\ UNCHANGED mounted \/ Unmount \/ Mount
         /\ UNCHANGED nas \/ OpenFile \/ WriteFile
         /\ UNCHANGED cut \/ (CutOff /\ (WriteFails \/ Restart))
         /\ UNCHANGED astray \/ WriteBeside
         /\ UNCHANGED handled \/ SaveMail
         /\ UNCHANGED routerFaults \/ RouterFault
         /\ UNCHANGED routerRegime
  <1>1. CASE TakeMail \/ SaveMail \/ Restart \/ Unmount \/ Mount \/ UNCHANGED routerVars
    BY <1>1 DEF TakeMail, SaveMail, Restart, Unmount, Mount, routerVars
  <1>2. CASE TooLarge \/ Skip \/ UnlockFails \/ Record \/ Begin \/ UnlockVia
    BY <1>2 DEF TooLarge, Skip, UnlockFails, Record, Begin, UnlockVia
  <1>3. CASE WriteFails
    BY <1>3 DEF WriteFails
  <1>4. CASE ProposeName \/ ProbeMount \/ Reuse \/ OpenFile \/ WriteFile \/ WriteBeside
    BY <1>4 DEF ProposeName, ProbeMount, Reuse, OpenFile, WriteFile, WriteBeside
  <1>5. \/ TakeMail \/ SaveMail \/ Restart \/ Unmount \/ Mount \/ UNCHANGED routerVars
        \/ TooLarge \/ Skip \/ UnlockFails \/ WriteFails \/ Record \/ Begin \/ UnlockVia
        \/ ProposeName \/ ProbeMount \/ Reuse \/ OpenFile \/ WriteFile \/ WriteBeside
    BY DEF RouterNext, RouterStep
  <1> QED
    BY <1>1, <1>2, <1>3, <1>4, <1>5

LEMMA Counted ==
  ASSUME RouterTyped, [RouterNext]_routerVars
  PROVE  /\ routerFaults' \in Nat
         /\ routerFaults > 0 => routerFaults' > 0
         /\ RouterFault => routerFaults' > 0
  <1>1. routerFaults \in Nat
    BY DEF RouterTyped
  <1> QED
    BY <1>1, OthersStep DEF RouterFault

\* The rows after a step: another row keeps, the row at hand is written as a whole.
LEMMA RowsAfter ==
  ASSUME RouterTyped, FilesKept, [RouterNext]_routerVars
  PROVE  /\ rows' \in [AttachmentKeys -> RouterRow]
         /\ \/ UNCHANGED rows
            \/ /\ ~ On("idle") /\ routing.left # <<>> /\ Key \in AttachmentKeys
               /\ rows[Key].status # "routed" /\ rows'[Key].status # "none"
               /\ rows'[Key].status \in Statuses
               /\ \A k \in AttachmentKeys : k # Key => rows'[k] = rows[k]
         /\ ~ Record /\ ~ UNCHANGED rows =>
              rows'[Key].path = rows[Key].path /\ rows'[Key].status # "routed"
         /\ Record => /\ rows'[Key].path = routing.path /\ rows'[Key].status = "routed"
                      /\ routing.path \in Paths /\ Doc \in Docs
  <1>1. rows \in [AttachmentKeys -> RouterRow]
    BY DEF RouterTyped
  <1>2. CASE UNCHANGED rows /\ ~ Record
    BY <1>1, <1>2
  <1>3. CASE Rewrites /\ ~ Record
    <2>1. PICK status \in Statuses \ {"none", "routed"} : Upsert(status, NoPath)
      BY <1>3 DEF Rewrites
    <2>2. /\ ~ On("idle") /\ routing.left # <<>> /\ Key \in AttachmentKeys
          /\ rows[Key].status # "routed"
      BY <1>3 DEF Rewrites
    <2>3. /\ rows' \in [AttachmentKeys -> RouterRow] /\ rows'[Key].status = status
          /\ rows'[Key].path = rows[Key].path
          /\ \A k \in AttachmentKeys : k # Key => rows'[k] = rows[k]
      BY <2>1, <2>2, Upserted
    <2> QED
      BY <1>3, <2>1, <2>2, <2>3
  <1>4. CASE Record
    <2>1. On("record") /\ Upsert("routed", routing.path)
      BY <1>4 DEF Record
    <2>2. /\ ~ On("idle") /\ routing.left # <<>> /\ Doc \in Docs
          /\ rows[Key].status # "routed"
      BY <2>1 DEF RouterTyped, Working
    <2>3. Key \in AttachmentKeys
      BY <2>2, AtHand
    <2>4. routing.path \in Paths /\ routing.path # NoPath
      BY <2>1, PathFacts DEF FilesKept
    <2>5. "routed" \in Statuses /\ "routed" # "none"
      BY DEF Statuses
    <2>6. /\ rows' \in [AttachmentKeys -> RouterRow] /\ rows'[Key].status = "routed"
          /\ rows'[Key].path = routing.path
          /\ \A k \in AttachmentKeys : k # Key => rows'[k] = rows[k]
      BY <2>1, <2>3, <2>4, <2>5, Upserted
    <2> QED
      BY <1>4, <2>2, <2>3, <2>4, <2>5, <2>6
  <1> QED
    BY <1>2, <1>3, <1>4, RowsStep
-----------------------------------------------------------------------------
LEMMA FilesAfter ==
  ASSUME RouterTyped, FilesKept, [RouterNext]_routerVars
  PROVE  \/ UNCHANGED nas
         \/ /\ OpenFile /\ PathFor \in Paths /\ nas' = [nas EXCEPT ![PathFor] = File(Doc, "partial")]
            /\ Doc \in Docs /\ nas' \in [Paths -> Files]
         \/ /\ WriteFile /\ On("write") /\ routing.path \in Paths /\ routing.form \in {"raw", "unlocked"}
            /\ nas' = [nas EXCEPT ![routing.path] = File(Doc, routing.form)]
            /\ Doc \in Docs /\ nas' \in [Paths -> Files]
  <1>1. nas \in [Paths -> Files] /\ routing \in Routing
    BY DEF RouterTyped
  <1>2. CASE OpenFile
    <2>1. On("route") /\ nas' = [nas EXCEPT ![PathFor] = File(Doc, "partial")]
      BY <1>2 DEF OpenFile
    <2>2. PathFor \in Paths /\ Doc \in Docs
      BY <2>1, PathForIsPath DEF Named
    <2>3. File(Doc, "partial") \in Files
      BY <2>2, FileFacts
    <2> QED
      BY <1>1, <1>2, <2>1, <2>2, <2>3
  <1>3. CASE WriteFile
    <2>1. On("write") /\ nas' = [nas EXCEPT ![routing.path] = File(Doc, routing.form)]
      BY <1>3 DEF WriteFile
    <2>2. routing.path \in {routing.name, <<routing.name, Doc>>}
          /\ Doc \in Docs /\ routing.name \in FileNames
      BY <2>1 DEF FilesKept, RouterTyped, Working, Named
    <2>3. routing.path \in Paths /\ routing.form \in {"raw", "unlocked"}
      BY <1>1, <2>2, PathFacts DEF Routing
    <2>4. File(Doc, routing.form) \in Files
      BY <2>2, <2>3, FileFacts
    <2> QED
      BY <1>1, <1>3, <2>1, <2>2, <2>3, <2>4
  <1> QED
    BY <1>2, <1>3, OthersStep

LEMMA TypedStep ==
  ASSUME RouterTyped, FilesKept, [RouterNext]_routerVars
  PROVE  RouterTyped'
  <1>1. rows' \in [AttachmentKeys -> RouterRow]
    BY RowsAfter
  <1>2. nas' \in [Paths -> Files]
    BY FilesAfter DEF RouterTyped
  <1>3. mounted' \in BOOLEAN
    BY OthersStep DEF RouterTyped, Unmount, Mount
  <1>4. routing' \in Routing /\ routerRegime' = routerRegime
    BY RoutingStep
  <1>5. handled' \subseteq DOMAIN Carried
    <2>1. CASE UNCHANGED handled
      BY <2>1 DEF RouterTyped
    <2>2. CASE SaveMail
      <3>1. ~ On("idle") /\ handled' = handled \cup {routing.mail}
        BY <2>2 DEF SaveMail
      <3> QED
        BY <3>1, AtHand DEF RouterTyped
    <2> QED
      BY <2>1, <2>2, OthersStep
  <1>6. cut' \subseteq Paths
    <2>1. cut \subseteq Paths /\ (On("write") => routing.name \in FileNames /\ Doc \in Docs)
      BY DEF RouterTyped, Working, Named
    <2>2. On("write") => routing.path \in Paths
      BY <2>1, PathFacts DEF FilesKept
    <2> QED
      BY <2>1, <2>2, OthersStep DEF CutOff
  <1>7. astray' \subseteq AttachmentKeys
    <2>1. CASE UNCHANGED astray
      BY <2>1 DEF RouterTyped
    <2>2. CASE WriteBeside
      <3>1. On("route") /\ astray' = astray \cup {Key}
        BY <2>2 DEF WriteBeside
      <3>2. Key \in AttachmentKeys
        BY <3>1, AtHand DEF RouterTyped, Working
      <3> QED
        BY <3>1, <3>2 DEF RouterTyped
    <2> QED
      BY <2>1, <2>2, OthersStep
  <1>8. routerFaults' \in Nat /\ routerRegime' \in RouterRegimes
    BY <1>4, Counted DEF RouterTyped
  <1>9. ASSUME NEW k \in AttachmentKeys, rows'[k].path # NoPath
        PROVE  rows'[k].status = "routed"
    <2>1. CASE rows'[k] = rows[k]
      BY <1>9, <2>1 DEF RouterTyped
    <2>2. CASE rows'[k] # rows[k]
      BY <1>9, <2>2, RowsAfter DEF RouterTyped
    <2> QED
      BY <2>1, <2>2
  <1>14. ASSUME NEW k \in AttachmentKeys, rows'[k].status = "routed"
         PROVE  rows'[k].path \in Paths
    <2>1. CASE rows'[k] = rows[k]
      BY <1>14, <2>1 DEF RouterTyped
    <2>2. CASE rows'[k] # rows[k]
      BY <1>14, <2>2, RowsAfter
    <2> QED
      BY <2>1, <2>2
  <1>10. ASSUME NEW m \in Mails
         PROVE  rows'[<<m, Oversized>>].status # "routed"
    <2>1. <<m, Oversized>> \in AttachmentKeys /\ rows[<<m, Oversized>>].status # "routed"
      BY DEF RouterTyped, AttachmentKeys
    <2>2. CASE rows'[<<m, Oversized>>] = rows[<<m, Oversized>>]
      BY <2>1, <2>2
    <2>3. CASE rows'[<<m, Oversized>>] # rows[<<m, Oversized>>]
      <3>1. ~ UNCHANGED rows /\ <<m, Oversized>> = Key
        BY <2>1, <2>3, RowsAfter
      <3>2. ~ Record
        BY <3>1, RowsAfter, RouterAssumption
      <3> QED
        BY <3>1, <3>2, RowsAfter
    <2> QED
      BY <2>2, <2>3
  <1>11. ASSUME routing'.pc # "idle"
         PROVE  routing'.mail \in DOMAIN Carried \ handled'
    <2>1. CASE UNCHANGED <<routing, rows, nas, handled>>
      BY <1>11, <2>1 DEF RouterTyped
    <2>2. CASE TakeMail
      <3>1. PICK m \in DOMAIN Carried \ handled :
              routing' = [Resting EXCEPT !.pc = "attachment", !.mail = m,
                            !.left = IF routerRegime.allowed THEN Carried[m] ELSE <<>>]
        BY <2>2 DEF TakeMail, Carried
      <3>2. routing'.mail = m
        BY <3>1 DEF Resting
      <3> QED
        BY <2>2, <3>1, <3>2 DEF TakeMail
    <2>3. ~ SaveMail /\ ~ Restart
      BY <1>11 DEF SaveMail, Restart, Resting
    <2>4. CASE Settle /\ ~ On("idle") /\ routing.left # <<>> /\ UNCHANGED <<nas, handled>>
      BY <2>4, SettleFields, AtHand
    <2>5. CASE Advance /\ UNCHANGED handled
      BY <2>5, AtHand DEF Advance
    <2> QED
      BY <2>1, <2>2, <2>3, <2>4, <2>5, RoutingStep
  <1>12. ASSUME routing'.pc \in Working
         PROVE  /\ routing'.left # <<>> /\ Head(routing'.left) \in Docs
                /\ rows'[<<routing'.mail, Head(routing'.left)>>].status # "routed"
                /\ routing'.pc \in Named => routing'.name \in FileNames
    <2>1. CASE UNCHANGED <<routing, rows, nas, handled>>
      BY <1>12, <2>1 DEF RouterTyped
    <2>2. ~ TakeMail /\ ~ SaveMail /\ ~ Restart
      <3>1. TakeMail => routing'.pc = "attachment"
        BY DEF TakeMail, Resting
      <3> QED
        BY <1>12, <3>1 DEF SaveMail, Restart, Resting, Working
    <2>3. ~ (Settle /\ ~ On("idle") /\ routing.left # <<>>)
      BY <1>12, SettleFields DEF Working
    <2>4. CASE Advance
      <3>1. rows'[Key].status # "routed"
        <4>1. CASE UNCHANGED rows /\ routing.pc \in Working
          BY <4>1 DEF RouterTyped
        <4>2. CASE Rewrites
          <5>1. ~ Record
            BY <1>12, <2>3, <2>4 DEF Record, Advance
          <5> QED
            BY <4>2, <5>1, RowsAfter DEF Rewrites
        <4>3. ~ Record
          BY <1>12, <2>3, <2>4 DEF Record, Advance
        <4> QED
          BY <2>4, <4>1, <4>2, <4>3, RowsStep
      <3> QED
        BY <2>4, <3>1 DEF Advance
    <2> QED
      BY <2>1, <2>2, <2>3, <2>4, RoutingStep
  <1>13. Named \subseteq Working
    BY DEF Named, Working
  <1> QED
    BY <1>1, <1>2, <1>3, <1>4, <1>5, <1>6, <1>7, <1>8, <1>9, <1>10, <1>11, <1>12, <1>13, <1>14
    DEF RouterTyped, Carried
-----------------------------------------------------------------------------
LEMMA Settles ==
  ASSUME RouterTyped, [RouterNext]_routerVars, ~ On("idle"), routing.left # <<>>, Settle
  PROVE  Skip \/ Rewrites \/ Record
  <1>1. routing'.pc = "attachment" /\ routing' # routing /\ routing \in Routing
    BY SettleFields DEF RouterTyped
  <1>2. ~ (TakeMail \/ SaveMail \/ Restart)
    <2>1. Resting.pc = "idle"
      BY DEF Resting
    <2> QED
      BY <1>1, <2>1 DEF TakeMail, SaveMail, Restart
  <1>3. ~ (Unmount \/ Mount \/ UNCHANGED routerVars)
    BY <1>1 DEF Unmount, Mount, routerVars
  <1>4. ~ (Reuse \/ OpenFile \/ WriteFile \/ (ProbeMount /\ mounted))
    BY <1>1 DEF Reuse, OpenFile, WriteFile, ProbeMount, Routing
  <1>5. ~ WriteBeside
    BY <1>1 DEF WriteBeside, Routing
  <1> QED
    BY <1>2, <1>3, <1>4, <1>5, RowsStep DEF Quiet

LEMMA SettledEnds ==
  ASSUME RouterTyped, FilesKept, NothingForgotten, [RouterNext]_routerVars,
         ~ On("idle"), routing.left # <<>>, Settle
  PROVE  /\ rows'[Key].status \in {"routed", "pending_review", "failed", "failed_retryable", "pending",
                                   "unlocked"}
         /\ rows'[Key].status \in {"pending", "unlocked"} => routerFaults' > 0
  <1>1. Key \in AttachmentKeys
    BY AtHand
  <1>2. CASE Skip
    <2>1. rows' = rows /\ rows[Key].status \in {"routed", "unlocked"} /\ ~ On("name")
      BY <1>2 DEF Skip, AlreadyRouted
    <2>2. rows[Key].status = "unlocked" => routerFaults > 0
      BY <1>1, <2>1 DEF NothingForgotten
    <2> QED
      BY <2>1, <2>2, Counted
  <1>3. CASE Rewrites
    <2>1. ~ Advance
      BY SettleFields DEF Advance, Working
    <2>2. PICK status \in Statuses \ {"none", "routed"} :
            /\ Upsert(status, NoPath)
            /\ status \in {"pending", "renamed", "unlocked"} => status = "pending" /\ ~ mounted
      BY <1>3, <2>1 DEF Rewrites
    <2>3. rows'[Key].status = status
      BY <1>1, <2>2, Upserted
    <2>4. ~ mounted => routerFaults' > 0
      BY Counted DEF NothingForgotten
    <2> QED
      BY <2>2, <2>3, <2>4 DEF Statuses
  <1>4. CASE Record
    BY <1>4, RowsAfter
  <1> QED
    BY <1>2, <1>3, <1>4, Settles

LEMMA RememberedStep ==
  ASSUME RouterTyped, FilesKept, NothingForgotten, [RouterNext]_routerVars
  PROVE  NothingForgotten'
  <1>1. ASSUME ~ mounted'
        PROVE  routerFaults' > 0
    <2>1. CASE ~ mounted
      BY <2>1, Counted DEF NothingForgotten
    <2>2. CASE Unmount
      BY <2>2, Counted DEF Unmount
    <2>3. CASE mounted /\ ~ Unmount
      BY <1>1, <2>3, OthersStep DEF Mount
    <2> QED
      BY <2>1, <2>2, <2>3
  <1>2. ASSUME NEW k \in AttachmentKeys, rows'[k].status = "unlocked", ~ (routerFaults' > 0)
        PROVE  routing'.pc = "name" /\ k = <<routing'.mail, Head(routing'.left)>>
    <2>1. CASE rows'[k] = rows[k] /\ ~ Rewrites
      <3>1. On("name") /\ k = Key
        BY <1>2, <2>1, Counted DEF NothingForgotten
      <3>2. UNCHANGED rows
        <4>1. ~ Record
          BY <3>1 DEF Record
        <4> QED
          BY <2>1, <4>1, RowsStep
      <3>3. Unmount \/ Mount \/ UNCHANGED routerVars
        <4>1. ~ Restart
          BY <1>2, Counted DEF Restart
        <4>2. Quiet
          BY <2>1, <3>1, RowsStep DEF Record
        <4> QED
          BY <3>1, <4>1, <4>2
          DEF Quiet, TakeMail, SaveMail, Skip, Reuse, OpenFile, WriteFile, WriteBeside, ProbeMount
      <3>4. UNCHANGED routing
        BY <3>3 DEF Unmount, Mount, routerVars
      <3> QED
        BY <3>1, <3>4
    <2>2. CASE Rewrites
      <3>1. PICK status \in Statuses \ {"none", "routed"} :
              /\ Upsert(status, NoPath)
              /\ status = "unlocked" => Advance /\ routing'.pc = "name"
        BY <2>2 DEF Rewrites
      <3>2. /\ Key \in AttachmentKeys /\ ~ On("idle")
        BY <2>2 DEF Rewrites
      <3>3. /\ rows'[Key].status = status
            /\ \A other \in AttachmentKeys : other # Key => rows'[other] = rows[other]
        BY <3>1, <3>2, Upserted
      <3>4. k # Key => On("name") /\ FALSE
        BY <1>2, <3>3, Counted DEF NothingForgotten
      <3>5. Advance /\ routing'.pc = "name"
        BY <1>2, <3>1, <3>3, <3>4
      <3> QED
        BY <3>4, <3>5 DEF Advance
    <2>3. CASE rows'[k] # rows[k] /\ ~ Rewrites
      <3>1. Record
        BY <2>3, RowsStep
      <3> QED
        BY <1>2, <2>3, <3>1, RowsAfter
    <2> QED
      BY <2>1, <2>2, <2>3
  <1>3. ASSUME routerRegime.allowed, routing'.pc # "idle", NEW i \in DOMAIN Carried[routing'.mail]
        PROVE  \/ \E j \in 1 .. Len(routing'.left) : routing'.left[j] = Carried[routing'.mail][i]
               \/ LET k == <<routing'.mail, Carried[routing'.mail][i]>> IN
                  /\ rows'[k].status \in {"routed", "pending_review", "failed", "failed_retryable",
                                          "pending", "unlocked"}
                  /\ rows'[k].status \in {"pending", "unlocked"} => routerFaults' > 0
    <2> DEFINE Done(k) == /\ rows'[k].status \in {"routed", "pending_review", "failed", "failed_retryable",
                                                  "pending", "unlocked"}
                          /\ rows'[k].status \in {"pending", "unlocked"} => routerFaults' > 0
               Left(d) == \E j \in 1 .. Len(routing'.left) : routing'.left[j] = d
    <2> SUFFICES Left(Carried[routing'.mail][i]) \/ Done(<<routing'.mail, Carried[routing'.mail][i]>>)
      OBVIOUS
    <2>1. \A k : Ended(k) /\ rows'[k] = rows[k] => Done(k)
      BY Counted DEF Ended
    <2>2. ~ SaveMail /\ ~ Restart
      BY <1>3 DEF SaveMail, Restart, Resting
    <2>3. CASE UNCHANGED <<routing, rows, nas, handled>>
      BY <1>3, <2>1, <2>3 DEF NothingForgotten, Ahead
    <2>4. CASE TakeMail
      <3>1. PICK m \in DOMAIN Carried \ handled :
              routing' = [Resting EXCEPT !.pc = "attachment", !.mail = m,
                            !.left = IF routerRegime.allowed THEN Carried[m] ELSE <<>>]
        BY <2>4 DEF TakeMail, Carried
      <3>2. routing'.mail = m /\ routing'.left = Carried[m]
        BY <1>3, <3>1 DEF Resting
      <3>3. Carried[m] \in Seq(Docs \cup {Oversized})
        BY RouterAssumption DEF RouterTyped, Carried
      <3> QED
        BY <1>3, <3>2, <3>3
    <2>5. ASSUME ~ On("idle"), routing.left # <<>>, routing'.mail = routing.mail
          PROVE  LET d == Carried[routing.mail][i] IN
                 Ahead(d) \/ Done(<<routing.mail, d>>) \/ d = Doc
      <3> DEFINE d == Carried[routing.mail][i]
                 k == <<routing.mail, d>>
      <3>1. Ahead(d) \/ Ended(k)
        BY <1>3, <2>5 DEF NothingForgotten
      <3>2. d = Doc \/ k # Key
        OBVIOUS
      <3>3. k \in AttachmentKeys
        <4>1. routing.mail \in DOMAIN Carried /\ routing.mail \in Mails
          BY <2>5, AtHand
        <4>2. Carried[routing.mail] \in Seq(Docs \cup {Oversized})
          BY <4>1, RouterAssumption DEF RouterTyped, Carried
        <4> QED
          BY <1>3, <2>5, <4>1, <4>2 DEF AttachmentKeys
      <3>4. k # Key => rows'[k] = rows[k]
        BY <3>3, RowsAfter
      <3> QED
        BY <2>1, <3>1, <3>2, <3>4
    <2>6. CASE Settle /\ ~ On("idle") /\ routing.left # <<>> /\ UNCHANGED <<nas, handled>>
      BY <2>5, <2>6, SettleFields, SettledEnds
    <2>7. CASE Advance /\ UNCHANGED handled
      <3>1. /\ ~ On("idle") /\ routing.left # <<>> /\ routing'.mail = routing.mail
            /\ routing'.left = routing.left
        BY <2>7 DEF Advance
      <3>2. Ahead(Doc) /\ \A d : Ahead(d) => Left(d)
        BY <3>1, AtHand DEF Ahead
      <3> QED
        BY <2>5, <3>1, <3>2
    <2> QED
      BY <2>2, <2>3, <2>4, <2>6, <2>7, RoutingStep
  <1>4. routerRegime' = routerRegime
    BY OthersStep
  <1> QED
    BY <1>1, <1>2, <1>3, <1>4 DEF NothingForgotten, Carried, Ahead, Ended
-----------------------------------------------------------------------------
LEMMA Entering ==
  ASSUME RouterTyped, [RouterNext]_routerVars
  PROVE  /\ routing'.pc = "write" => OpenFile \/ UNCHANGED <<routing, nas, astray>>
         /\ routing'.pc = "record" =>
              \/ Reuse \/ WriteFile \/ WriteBeside
              \/ UNCHANGED <<routing, nas, astray>>
  <1> SUFFICES ASSUME routing'.pc \in {"write", "record"}
               PROVE  \/ OpenFile /\ routing'.pc = "write"
                      \/ Reuse \/ (WriteFile /\ routing'.pc = "record") \/ WriteBeside
                      \/ UNCHANGED <<routing, nas, astray>>
    BY DEF Reuse, WriteBeside, RouterTyped, Routing
  <1>1. routing \in Routing
    BY DEF RouterTyped
  <1>2. ~ TakeMail /\ ~ SaveMail /\ ~ Restart
    <2>1. TakeMail => routing'.pc = "attachment"
      BY DEF TakeMail, Resting
    <2> QED
      BY <2>1 DEF SaveMail, Restart, Resting
  <1>3. ~ Settle
    BY <1>1 DEF Settle, Routing
  <1>4. ~ (TooLarge \/ Skip \/ UnlockFails \/ WriteFails \/ Record \/ (ProbeMount /\ ~ mounted))
    BY <1>3 DEF TooLarge, Skip, UnlockFails, WriteFails, Record, ProbeMount
  <1>5. ~ (Begin \/ (ProbeMount /\ mounted))
    BY <1>1 DEF Begin, ProbeMount, Routing
  <1>6. ~ UnlockVia
    <2>1. ASSUME UnlockVia
          PROVE  routing.left # <<>> /\ Doc \in Docs
      BY <2>1 DEF UnlockVia, RouterTyped, Working
    <2>2. UnlockVia => Kind \in Kinds
      BY <2>1, RouterAssumption DEF Kind, RouterTyped
    <2>3. UnlockVia => routing' = [routing EXCEPT !.pc = "name", !.form = "unlocked"]
      BY <1>3, <2>2 DEF UnlockVia, Kinds
    <2> QED
      BY <1>1, <2>3 DEF Routing
  <1>7. ~ ProposeName
    <2>1. ProposeName => \E n \in FileNames : routing' = [routing EXCEPT !.pc = "mount", !.name = n]
      BY <1>3 DEF ProposeName
    <2> QED
      BY <1>1, <2>1 DEF Routing
  <1>8. (OpenFile => routing'.pc = "write") /\ (WriteFile => routing'.pc = "record")
    BY <1>1 DEF OpenFile, WriteFile, Routing
  <1>9. Unmount \/ Mount \/ UNCHANGED routerVars => UNCHANGED <<routing, nas, astray>>
    BY DEF Unmount, Mount, routerVars
  <1>10. \/ TakeMail \/ SaveMail \/ Restart \/ Unmount \/ Mount \/ UNCHANGED routerVars
         \/ TooLarge \/ Skip \/ UnlockFails \/ WriteFails \/ Record \/ Begin \/ UnlockVia
         \/ ProposeName \/ ProbeMount \/ Reuse \/ OpenFile \/ WriteFile \/ WriteBeside
    BY DEF RouterNext, RouterStep
  <1> QED
    BY <1>2, <1>4, <1>5, <1>6, <1>7, <1>8, <1>9, <1>10

\* Where the write at hand goes, and what lies there before and after.
LEMMA Opening ==
  ASSUME RouterTyped, FilesKept, OpenFile
  PROVE  /\ routing.name \in FileNames /\ Doc \in Docs /\ nas \in [Paths -> Files]
         /\ PathFor \in Paths /\ PathFor \in {routing.name, <<routing.name, Doc>>}
         /\ routing.name \in Paths /\ <<routing.name, Doc>> \in Paths
         /\ nas[routing.name] # File(Doc, "raw")
         /\ PathFor = routing.name => nas[routing.name] = NoFile
         /\ PathFor # routing.name => nas[routing.name] # NoFile
         /\ nas' = [nas EXCEPT ![PathFor] = File(Doc, "partial")]
         /\ routing'.path = PathFor /\ routing'.pc = "write" /\ routing'.name = routing.name
         /\ routing'.left = routing.left /\ routing'.mail = routing.mail
  <1>1. On("route") /\ ~ ReuseFile /\ nas' = [nas EXCEPT ![PathFor] = File(Doc, "partial")]
        /\ routing' = [routing EXCEPT !.pc = "write", !.path = PathFor]
    BY DEF OpenFile
  <1>2. /\ routing.name \in FileNames /\ Doc \in Docs /\ nas \in [Paths -> Files]
        /\ PathFor \in Paths /\ PathFor \in {routing.name, <<routing.name, Doc>>}
        /\ routing.name \in Paths /\ <<routing.name, Doc>> \in Paths
    BY <1>1, PathForIsPath, PathFacts DEF Named, RouterTyped
  <1>3. /\ nas[routing.name] # File(Doc, "raw")
        /\ PathFor = IF nas[routing.name] = NoFile THEN routing.name ELSE <<routing.name, Doc>>
    BY <1>1 DEF ReuseFile, SameBytes, PathFor
  <1>4. routing.name # <<routing.name, Doc>>
    BY <1>2, PathFacts
  <1>5. routing \in Routing
    BY DEF RouterTyped
  <1>6. /\ routing'.path = PathFor /\ routing'.pc = "write" /\ routing'.name = routing.name
        /\ routing'.left = routing.left /\ routing'.mail = routing.mail
    BY <1>1, <1>5 DEF Routing
  <1> QED
    BY <1>1, <1>2, <1>3, <1>4, <1>6

LEMMA Writing ==
  ASSUME RouterTyped, FilesKept, WriteFile
  PROVE  /\ routing.name \in FileNames /\ Doc \in Docs /\ nas \in [Paths -> Files]
         /\ routing.path \in Paths /\ routing.path \in {routing.name, <<routing.name, Doc>>}
         /\ routing.name \in Paths /\ <<routing.name, Doc>> \in Paths
         /\ routing.form \in {"raw", "unlocked"} /\ On("write") /\ nas[routing.path] = File(Doc, "partial")
         /\ routing.path = routing.name => \A d \in Docs : nas[<<routing.name, d>>] = NoFile
         /\ routing.path # routing.name => nas[routing.name] # File(Doc, "raw")
         /\ nas' = [nas EXCEPT ![routing.path] = File(Doc, routing.form)]
         /\ routing'.path = routing.path /\ routing'.pc = "record" /\ routing'.name = routing.name
         /\ routing'.left = routing.left /\ routing'.mail = routing.mail
  <1>1. /\ On("write") /\ nas' = [nas EXCEPT ![routing.path] = File(Doc, routing.form)]
        /\ routing' = [routing EXCEPT !.pc = "record"]
    BY DEF WriteFile
  <1>2. routing \in Routing
    BY DEF RouterTyped
  <1>3. /\ routing'.path = routing.path /\ routing'.pc = "record" /\ routing'.name = routing.name
        /\ routing'.left = routing.left /\ routing'.mail = routing.mail
        /\ routing.form \in {"raw", "unlocked"}
    BY <1>1, <1>2 DEF Routing
  <1>4. routing.name \in FileNames /\ Doc \in Docs /\ nas \in [Paths -> Files]
    BY <1>1 DEF RouterTyped, Working, Named
  <1>5. routing.name \in Paths /\ <<routing.name, Doc>> \in Paths
    BY <1>4, PathFacts
  <1> QED
    BY <1>1, <1>3, <1>4, <1>5 DEF FilesKept

LEMMA FilesStep ==
  ASSUME RouterTyped, FilesKept, [RouterNext]_routerVars
  PROVE  FilesKept'
  <1>1. ASSUME NEW n \in FileNames, NEW d \in Docs, nas'[<<n, d>>] # NoFile
        PROVE  nas'[<<n, d>>].doc = d /\ nas'[n] # NoFile
    <2>1. n \in Paths /\ <<n, d>> \in Paths /\ n # <<n, d>>
          /\ (nas[<<n, d>>] # NoFile => nas[<<n, d>>].doc = d /\ nas[n] # NoFile)
      BY PathFacts DEF FilesKept
    <2>2. CASE UNCHANGED nas
      BY <1>1, <2>1, <2>2
    <2>3. CASE OpenFile
      <3>1. CASE <<n, d>> = PathFor
        <4>1. n = routing.name /\ d = Doc /\ PathFor # routing.name
          BY <2>1, <2>3, <3>1, Opening, PathFacts
        <4>2. nas'[<<n, d>>] = File(Doc, "partial") /\ nas'[n] = nas[n] /\ nas[n] # NoFile
          BY <2>1, <2>3, <3>1, <4>1, Opening
        <4> QED
          BY <4>1, <4>2, <2>3, Opening, FileFacts
      <3>2. CASE <<n, d>> # PathFor
        <4>1. nas'[<<n, d>>] = nas[<<n, d>>] /\ nas'[n] \in {nas[n], File(Doc, "partial")}
          BY <2>1, <2>3, <3>2, Opening
        <4> QED
          BY <1>1, <2>1, <2>3, <4>1, Opening, FileFacts
      <3> QED
        BY <3>1, <3>2
    <2>4. CASE WriteFile
      <3>1. File(Doc, routing.form) # NoFile /\ File(Doc, routing.form).doc = Doc
            /\ File(Doc, "partial") # NoFile
        BY <2>4, Writing, FileFacts
      <3>2. CASE <<n, d>> = routing.path
        <4>1. n = routing.name /\ d = Doc
          BY <2>1, <2>4, <3>2, Writing, PathFacts
        <4>2. nas'[<<n, d>>] = File(Doc, routing.form) /\ nas'[n] = nas[n]
          BY <2>1, <2>4, <3>2, Writing
        <4>3. nas[n] # NoFile
          BY <2>1, <2>4, <3>1, <3>2, Writing
        <4> QED
          BY <3>1, <4>1, <4>2, <4>3
      <3>3. CASE <<n, d>> # routing.path
        <4>1. nas'[<<n, d>>] = nas[<<n, d>>] /\ nas'[n] \in {nas[n], File(Doc, routing.form)}
          BY <2>1, <2>4, <3>3, Writing
        <4> QED
          BY <1>1, <2>1, <3>1, <4>1
      <3> QED
        BY <3>2, <3>3
    <2> QED
      BY <2>2, <2>3, <2>4, FilesAfter
  <1>2. ASSUME routing'.pc = "write"
        PROVE  /\ routing'.path \in {routing'.name, <<routing'.name, Head(routing'.left)>>}
               /\ nas'[routing'.path] = File(Head(routing'.left), "partial")
               /\ routing'.path = routing'.name => \A d \in Docs : nas'[<<routing'.name, d>>] = NoFile
               /\ routing'.path # routing'.name => nas'[routing'.name] # File(Head(routing'.left), "raw")
    <2>1. CASE UNCHANGED <<routing, nas, astray>>
      BY <1>2, <2>1 DEF FilesKept
    <2>2. CASE OpenFile
      <3>1. nas'[PathFor] = File(Doc, "partial") /\ (PathFor # routing.name => nas'[routing.name] = nas[routing.name])
        BY <2>2, Opening
      <3>2. ASSUME PathFor = routing.name, NEW d \in Docs
            PROVE  nas'[<<routing.name, d>>] = NoFile
        <4>1. <<routing.name, d>> \in Paths /\ routing.name # <<routing.name, d>>
          BY <2>2, Opening, PathFacts
        <4>2. nas[<<routing.name, d>>] = NoFile
          BY <2>2, <3>2, Opening DEF FilesKept
        <4> QED
          BY <2>2, <3>2, <4>1, <4>2, Opening
      <3> QED
        BY <2>2, <3>1, <3>2, Opening
    <2> QED
      BY <1>2, <2>1, <2>2, Entering
  <1>3. ASSUME routing'.pc = "record"
        PROVE  /\ routing'.path \in Paths
               /\ \/ <<routing'.mail, Head(routing'.left)>> \in astray'
                  \/ nas'[routing'.path].doc = Head(routing'.left) /\ nas'[routing'.path].form # "partial"
    <2>1. CASE UNCHANGED <<routing, nas, astray>>
      BY <1>3, <2>1 DEF FilesKept
    <2>2. routing \in Routing
      BY DEF RouterTyped
    <2>3. CASE Reuse
      <3>1. On("route") /\ nas' = nas /\ nas[routing.name] = File(Doc, "raw") /\ PathFor = routing.name
            /\ routing' = [routing EXCEPT !.pc = "record", !.path = PathFor]
        BY <2>3 DEF Reuse, ReuseFile, SameBytes, PathFor
      <3>2. /\ routing'.path = routing.name /\ routing'.left = routing.left
        BY <2>2, <3>1 DEF Routing
      <3>3. Doc \in Docs /\ routing.name \in FileNames
        BY <3>1, PathForIsPath DEF Named
      <3>4. File(Doc, "raw").doc = Doc /\ File(Doc, "raw").form = "raw"
        BY <3>3, FileFacts
      <3> QED
        BY <3>1, <3>2, <3>3, <3>4, PathFacts
    <2>4. CASE WriteFile
      <3>1. nas'[routing.path] = File(Doc, routing.form)
        BY <2>4, Writing
      <3>2. File(Doc, routing.form).doc = Doc /\ File(Doc, routing.form).form # "partial"
        BY <2>4, Writing, FileFacts
      <3> QED
        BY <2>4, <3>1, <3>2, Writing
    <2>5. CASE WriteBeside
      <3>1. PICK p \in {routing.name, <<routing.name, Doc>>} :
              routing' = [routing EXCEPT !.pc = "record", !.path = p]
        BY <2>5 DEF WriteBeside
      <3>2. routing'.path = p /\ routing'.left = routing.left /\ routing'.mail = routing.mail
        BY <2>2, <3>1 DEF Routing
      <3>3. On("route") /\ Key \in astray'
        BY <2>5 DEF WriteBeside
      <3>4. p \in Paths
        BY <3>3, PathForIsPath, PathFacts DEF Named
      <3> QED
        BY <3>2, <3>3, <3>4
    <2> QED
      BY <1>3, <2>1, <2>3, <2>4, <2>5, Entering
  <1> QED
    BY <1>1, <1>2, <1>3 DEF FilesKept
-----------------------------------------------------------------------------
LEMMA LeavingWrite ==
  ASSUME RouterTyped, [RouterNext]_routerVars, On("write")
  PROVE  WriteFile \/ (routing.path \in cut') \/ UNCHANGED routing
  <1>1. ~ (TakeMail \/ SaveMail \/ TooLarge \/ Skip \/ UnlockFails \/ Record \/ Begin \/ UnlockVia)
    BY DEF TakeMail, SaveMail, TooLarge, Skip, UnlockFails, Record, Begin, UnlockVia
  <1>2. ~ (ProposeName \/ ProbeMount \/ Reuse \/ OpenFile \/ WriteBeside)
    BY DEF ProposeName, ProbeMount, Reuse, OpenFile, WriteBeside
  <1>3. Unmount \/ Mount \/ UNCHANGED routerVars => UNCHANGED routing
    BY DEF Unmount, Mount, routerVars
  <1>4. WriteFails \/ Restart => CutOff
    BY DEF WriteFails, Restart
  <1> QED
    BY <1>1, <1>2, <1>3, <1>4 DEF RouterNext, RouterStep, CutOff

LEMMA RoutedStep ==
  ASSUME RouterTyped, FilesKept, RoutedIsOnNas, [RouterNext]_routerVars
  PROVE  RoutedIsOnNas'
  <1> SUFFICES ASSUME NEW m \in Mails, NEW d \in Docs, rows'[<<m, d>>].status = "routed",
                      <<m, d>> \notin astray'
               PROVE  /\ nas'[rows'[<<m, d>>].path].doc = d
                      /\ \/ nas'[rows'[<<m, d>>].path].form # "partial"
                         \/ rows'[<<m, d>>].path \in cut'
                         \/ routing'.pc = "write" /\ routing'.path = rows'[<<m, d>>].path
    BY DEF RoutedIsOnNas
  <1>1. <<m, d>> \in AttachmentKeys /\ <<m, d>> \notin astray /\ cut \subseteq cut'
    BY OthersStep DEF AttachmentKeys, CutOff, WriteBeside
  <1>2. CASE rows'[<<m, d>>] # rows[<<m, d>>]
    <2>1. <<m, d>> = Key /\ Record
      BY <1>1, <1>2, RowsAfter
    <2>2. rows'[<<m, d>>].path = routing.path /\ Doc = d
      BY <2>1, RowsAfter
    <2>3. On("record") /\ nas' = nas
      BY <2>1 DEF Record
    <2> QED
      BY <1>1, <2>1, <2>2, <2>3 DEF FilesKept
  <1>3. CASE rows'[<<m, d>>] = rows[<<m, d>>]
    <2> DEFINE path == rows[<<m, d>>].path
    <2>1. path \in Paths /\ nas \in [Paths -> Files]
      BY <1>1, <1>3 DEF RouterTyped
    <2>2. /\ nas[path].doc = d
          /\ nas[path].form # "partial" \/ path \in cut \/ (On("write") /\ routing.path = path)
      BY <1>1, <1>3 DEF RoutedIsOnNas
    <2>3. nas[path] # NoFile
      BY <2>2, PathFacts DEF NoFile
    <2> HIDE DEF path
    <2>4. CASE UNCHANGED nas
      <3>1. On("write") => routing.path \in cut' \/ UNCHANGED routing \/ WriteFile
        BY LeavingWrite
      <3>2. CASE ~ WriteFile
        BY <1>1, <1>3, <2>2, <2>4, <3>1, <3>2 DEF path
      <3>3. CASE WriteFile
        <4>1. /\ nas'[routing.path] = File(Doc, routing.form)
              /\ File(Doc, routing.form).form # "partial"
          BY <3>3, Writing, FileFacts
        <4> QED
          BY <1>1, <1>3, <2>2, <2>4, <4>1 DEF path
      <3> QED
        BY <3>2, <3>3
    <2>5. CASE OpenFile
      <3>1. CASE path = PathFor
        <4>1. PathFor = <<routing.name, Doc>> /\ nas[<<routing.name, Doc>>].doc = Doc
          BY <2>3, <2>5, <3>1, Opening DEF FilesKept
        <4>2. nas'[path] = File(Doc, "partial") /\ d = Doc /\ File(Doc, "partial").doc = Doc
          BY <2>1, <2>2, <2>5, <3>1, <4>1, Opening, FileFacts
        <4> QED
          BY <1>3, <2>5, <3>1, <4>2, Opening DEF path
      <3>2. CASE path # PathFor
        <4>1. nas'[path] = nas[path] /\ ~ On("write")
          BY <2>1, <2>5, <3>2, Opening DEF OpenFile
        <4> QED
          BY <1>1, <1>3, <2>2, <4>1 DEF path
      <3> QED
        BY <3>1, <3>2
    <2>6. CASE WriteFile
      <3>1. CASE path = routing.path
        <4>1. /\ nas[path].doc = Doc /\ nas'[path] = File(Doc, routing.form)
              /\ File(Doc, routing.form).doc = Doc /\ File(Doc, routing.form).form # "partial"
          BY <2>1, <2>6, <3>1, Writing, FileFacts
        <4> QED
          BY <1>3, <2>2, <4>1 DEF path
      <3>2. CASE path # routing.path
        <4>1. nas'[path] = nas[path]
          BY <2>1, <2>6, <3>2, Writing
        <4> QED
          BY <1>1, <1>3, <2>2, <3>2, <4>1 DEF path
      <3> QED
        BY <3>1, <3>2
    <2> QED
      BY <2>4, <2>5, <2>6, FilesAfter
  <1> QED
    BY <1>2, <1>3

LEMMA StoredStep ==
  ASSUME RouterTyped, FilesKept, StoredOnce, [RouterNext]_routerVars
  PROVE  StoredOnce'
  <1> SUFFICES ASSUME NEW n \in FileNames, NEW d \in Docs, nas'[n] = File(d, "raw")
               PROVE  nas'[<<n, d>>] # File(d, "raw")
    BY DEF StoredOnce
  <1>1. /\ n \in Paths /\ <<n, d>> \in Paths /\ n # <<n, d>>
        /\ nas[n] = File(d, "raw") => nas[<<n, d>>] # File(d, "raw")
    BY PathFacts DEF StoredOnce
  <1>2. CASE UNCHANGED nas
    BY <1>1, <1>2
  <1>3. CASE OpenFile
    <2>1. File(Doc, "partial") # File(d, "raw")
      BY DEF File
    <2>2. /\ nas'[n] = IF n = PathFor THEN File(Doc, "partial") ELSE nas[n]
          /\ nas'[<<n, d>>] = IF <<n, d>> = PathFor THEN File(Doc, "partial") ELSE nas[<<n, d>>]
      BY <1>1, <1>3, Opening
    <2> QED
      BY <1>1, <2>1, <2>2
  <1>4. CASE WriteFile
    <2>1. /\ nas'[n] = IF n = routing.path THEN File(Doc, routing.form) ELSE nas[n]
          /\ nas'[<<n, d>>] = IF <<n, d>> = routing.path THEN File(Doc, routing.form) ELSE nas[<<n, d>>]
      BY <1>1, <1>4, Writing
    <2>2. CASE n = routing.path
      <3>1. n = routing.name
        BY <1>4, <2>2, Writing, PathFacts
      <3>2. nas[<<n, d>>] = NoFile /\ nas'[<<n, d>>] = nas[<<n, d>>]
        BY <1>1, <1>4, <2>1, <2>2, <3>1, Writing
      <3> QED
        BY <3>2, FileFacts
    <2>3. CASE <<n, d>> = routing.path
      <3>1. n = routing.name /\ d = Doc /\ routing.path # routing.name
        BY <1>1, <1>4, <2>3, Writing, PathFacts
      <3>2. nas[n] # File(d, "raw") /\ nas'[n] = nas[n]
        BY <1>1, <1>4, <2>1, <2>3, <3>1, Writing
      <3> QED
        BY <3>2
    <2>4. CASE n # routing.path /\ <<n, d>> # routing.path
      BY <1>1, <2>1, <2>4
    <2> QED
      BY <2>2, <2>3, <2>4
  <1> QED
    BY <1>2, <1>3, <1>4, FilesAfter

LEMMA HandledStep ==
  ASSUME RouterTyped, FilesKept, NothingForgotten, HandledAreRecorded, [RouterNext]_routerVars
  PROVE  HandledAreRecorded'
  <1> DEFINE Done(k) == /\ rows'[k].status \in {"routed", "pending_review", "failed", "failed_retryable",
                                                "pending", "unlocked"}
                        /\ rows'[k].status \in {"pending", "unlocked"} => routerFaults' > 0
  <1>1. routerRegime' = routerRegime
    BY OthersStep
  <1>2. \A k : Ended(k) /\ rows'[k] = rows[k] => Done(k)
    BY Counted DEF Ended
  <1>3. ASSUME routerRegime.allowed, NEW m \in handled', NEW i \in DOMAIN Carried[m]
        PROVE  Done(<<m, Carried[m][i]>>)
    <2>1. CASE m \in handled
      <3>1. Ended(<<m, Carried[m][i]>>)
        BY <1>3, <2>1 DEF HandledAreRecorded, Ended, Carried
      <3>2. m \in Mails /\ Carried[m] \in Seq(Docs \cup {Oversized})
        BY <2>1, RouterAssumption DEF RouterTyped, Carried
      <3>3. <<m, Carried[m][i]>> \in AttachmentKeys
        BY <1>3, <3>2 DEF AttachmentKeys
      <3>4. ~ On("idle") => routing.mail # m
        BY <2>1, AtHand
      <3>5. rows'[<<m, Carried[m][i]>>] = rows[<<m, Carried[m][i]>>]
        BY <3>3, <3>4, RowsAfter
      <3> QED
        BY <1>2, <3>1, <3>5
    <2>2. CASE m \notin handled
      <3>1. SaveMail
        BY <1>3, <2>2, OthersStep
      <3>2. m = routing.mail /\ rows' = rows /\ routing.left = <<>> /\ ~ On("idle")
        BY <1>3, <2>2, <3>1 DEF SaveMail
      <3>3. Len(routing.left) = 0
        BY <3>2
      <3>4. \A dd : ~ Ahead(dd)
        BY <3>3 DEF Ahead
      <3>5. Ended(<<m, Carried[m][i]>>)
        BY <1>3, <3>2, <3>4 DEF NothingForgotten
      <3> QED
        BY <1>2, <3>2, <3>5
    <2> QED
      BY <2>1, <2>2
  <1> QED
    BY <1>1, <1>3 DEF HandledAreRecorded, Carried

LEMMA RouterNextInductive == RInv /\ [RouterNext]_routerVars => RInv'
  BY TypedStep, FilesStep, RememberedStep, RoutedStep, StoredStep, HandledStep DEF RInv

(***************************************************************************)
(* Wherever the agent is stopped: a file recorded as routed lies on the    *)
(* share under its name, but for those whose share went away after the     *)
(* probe, and whole, but for one being written over or cut off at that     *)
(* (pdf_router.py:457); pages that needed no unlocking lie there once; and *)
(* of a recorded mail that may be routed every attachment has a row, at    *)
(* its end unless there was a fault (orchestrator.py:319).                 *)
(***************************************************************************)
THEOREM RouterSound == RouterSpec => []RouterIsSound
  <1>1. RInv => RouterIsSound
    <2>1. RInv => RTypeOK
      BY DEF RInv, RouterTyped, RTypeOK, RouterRow, Files, Carried
    <2> QED
      BY <2>1 DEF RInv, RouterIsSound
  <1> QED
    BY <1>1, RouterInitInductive, RouterNextInductive, PTL DEF RouterSpec

(***************************************************************************)
(* The scan through the bridge: what its state is made of.                 *)
(***************************************************************************)
Outcomes == {"sent", "logged", "stopped"}
MailRecords == [mid : MessageIds, class : Classes, old : BOOLEAN, deleted : BOOLEAN]
AtItem == {"alert", "sending", "save"}
ScanStates == [pc : {"idle", "fetch", "item", "ack"} \cup AtItem, batch : SUBSET (Accounts \X Nat),
               acked : Nat, total : Nat, before : Nat, alerted : BOOLEAN, class : Classes, tries : Nat]

ScanTyped ==
  /\ regime \in Regimes /\ faults \in Nat /\ online \in BOOLEAN
  /\ ack \in Nat /\ lateAcks \subseteq Nat
  /\ sending \in MessageIds \cup {None} /\ hour \in Seq(Outcomes)
  /\ phone \in [MessageIds -> Nat] /\ blind \in [MessageIds -> Nat]
  /\ box \in [Accounts -> Seq(MailRecords)]
  /\ scan \in ScanStates

(***************************************************************************)
(* What is fetched and recorded is in the mailbox, and the mail at hand is *)
(* not recorded before its alert is settled.                               *)
(***************************************************************************)
RecordsSound ==
  /\ \A a \in Accounts : box[a] # <<>> => a \in ToSet(regime.accounts)
  /\ \A r \in results :
       r.bid[1] \in Accounts /\ r.bid[2] \in DOMAIN box[r.bid[1]] /\ r.mid = MailOf(r.bid).mid
  /\ scan.batch \subseteq AllRows
  /\ (At("idle") \/ At("fetch")) \/ At("ack") => scan.batch = {}
  /\ scan.pc \in AtItem => scan.batch # {} /\ ~ MessageProcessed(MailOf(Current).mid)

(***************************************************************************)
(* One alert is out and not yet logged at most, and it is the last.        *)
(***************************************************************************)
HourSound ==
  /\ \A i \in DOMAIN hour : hour[i] = "sent" <=> (sending # None /\ i = Len(hour))
  /\ sending # None => hour # <<>>
  /\ AlertBudget

(***************************************************************************)
(* An alert that reached the phone is one whose answer or record was lost, *)
(* or the one of a recorded mail or of the mail at hand.                   *)
(***************************************************************************)
Told(mid) ==
  \/ MessageProcessed(mid)
  \/ At("sending") /\ sending = mid
  \/ scan.alerted /\ MailOf(Current).mid = mid
AlertsSound ==
  /\ At("sending") => sending = MailOf(Current).mid
  /\ scan.alerted => At("save")
  /\ \A mid \in MessageIds : phone[mid] <= blind[mid] + IF Told(mid) THEN 1 ELSE 0

(***************************************************************************)
(* Of Mail's database, every row up to one that is or may be acknowledged  *)
(* was processed, and so was every row before a fetched one, unless it was *)
(* fetched with it.                                                        *)
(***************************************************************************)
MailDb == regime.accounts[1]
Passed(i) == \/ box[MailDb][i].old \/ box[MailDb][i].deleted
             \/ MessageProcessed(box[MailDb][i].mid)
UpTo(n) == n <= Len(box[MailDb]) /\ \A i \in 1 .. n : Passed(i)
AcksSound == regime.source = "mailapp" =>
  /\ UpTo(ack) /\ UpTo(scan.acked)
  /\ \A n \in lateAcks : UpTo(n)
  /\ \A bid \in scan.batch : \A i \in 1 .. bid[2] : Passed(i) \/ <<MailDb, i>> \in scan.batch

ScanInv == ScanTyped /\ RecordsSound /\ HourSound /\ AlertsSound /\ AcksSound

USE DEF At

LEMMA LeastNumber ==
  ASSUME NEW S \in SUBSET Nat, S # {}
  PROVE  \E m \in S : \A n \in S : m <= n
  <1> DEFINE sets == {0 .. i : i \in S}
  <1>1. \A i \in S : 0 .. i \in SUBSET Nat /\ IsFiniteSet(0 .. i)
    BY FS_Interval
  <1>2. sets \subseteq FiniteSubsetsOf(Nat) /\ sets # {}
    BY <1>1 DEF FiniteSubsetsOf
  <1>3. PICK x \in sets : \A y \in sets : ~ (<<y, x>> \in StrictSubsetOrdering(Nat))
    <2>1. IsWellFoundedOn(StrictSubsetOrdering(Nat), FiniteSubsetsOf(Nat))
      BY FS_StrictSubsetOrderingWellFounded
    <2> HIDE DEF sets
    <2> QED
      BY <1>2, <2>1, WFMin
  <1>4. PICK m \in S : x = 0 .. m
    BY <1>3
  <1>5. ASSUME NEW n \in S, n < m
        PROVE  FALSE
    <2>1. 0 .. n \subseteq 0 .. m /\ m \in 0 .. m /\ m \notin 0 .. n
      BY <1>5
    <2>2. <<0 .. n, 0 .. m>> \in StrictSubsetOrdering(Nat)
      BY <1>1, <2>1 DEF StrictSubsetOrdering
    <2> QED
      BY <1>3, <1>4, <2>2
  <1> QED
    BY <1>5

LEMMA Placed ==
  ASSUME ScanTyped
  PROVE  /\ regime.accounts \in Seq(Accounts) /\ regime.source \in Sources
         /\ regime.classes \subseteq Classes /\ regime.olds \subseteq BOOLEAN
         /\ regime.source = "mailapp" => Len(regime.accounts) = 1
         /\ \A a \in ToSet(regime.accounts) :
              a \in Accounts /\ Place(a) \in Nat /\ Place(a) \in DOMAIN regime.accounts
              /\ regime.accounts[Place(a)] = a
  <1>1. /\ regime.accounts \in Seq(Accounts) /\ regime.source \in Sources
        /\ regime.classes \subseteq Classes /\ regime.olds \subseteq BOOLEAN
        /\ regime.source = "mailapp" => Len(regime.accounts) = 1
    BY ScanAssumption DEF ScanTyped
  <1>2. ASSUME NEW a \in ToSet(regime.accounts)
        PROVE  a \in Accounts /\ Place(a) \in Nat /\ Place(a) \in DOMAIN regime.accounts
               /\ regime.accounts[Place(a)] = a
    <2>1. PICK i \in DOMAIN regime.accounts : regime.accounts[i] = a
      BY DEF ToSet
    <2>2. Place(a) \in DOMAIN regime.accounts /\ regime.accounts[Place(a)] = a
      BY <2>1 DEF Place
    <2> QED
      BY <1>1, <2>2
  <1> QED
    BY <1>1, <1>2

LEMMA RowFacts ==
  ASSUME ScanTyped, NEW b \in AllRows
  PROVE  /\ b[1] \in ToSet(regime.accounts) /\ b[1] \in Accounts /\ b[2] \in Nat \ {0}
         /\ b = <<b[1], b[2]>> /\ b[2] \in DOMAIN box[b[1]] /\ MailOf(b) \in MailRecords
         /\ b \in Accounts \X Nat
  <1>1. PICK a \in ToSet(regime.accounts) : b \in Rows(a)
    BY DEF AllRows
  <1>2. PICK i \in DOMAIN box[a] : b = <<a, i>>
    BY <1>1 DEF Rows
  <1>3. a \in Accounts /\ box[a] \in Seq(MailRecords)
    BY Placed DEF ScanTyped
  <1>4. i \in Nat \ {0} /\ box[a][i] \in MailRecords
    BY <1>2, <1>3
  <1> QED
    BY <1>2, <1>3, <1>4 DEF MailOf

\* Of the mails fetched there is always a first one.
LEMMA FirstMail ==
  ASSUME ScanTyped, RecordsSound, scan.batch # {}
  PROVE  Current \in scan.batch /\ \A c \in scan.batch \ {Current} : Before(Current, c)
  <1> DEFINE places == {Place(b[1]) : b \in scan.batch}
  <1>1. \A b \in scan.batch : b \in AllRows
    BY DEF RecordsSound
  <1>2. \A b \in scan.batch : /\ Place(b[1]) \in Nat /\ b[2] \in Nat /\ b = <<b[1], b[2]>>
                              /\ regime.accounts[Place(b[1])] = b[1]
    BY <1>1, RowFacts, Placed
  <1>3. PICK p \in places : \A n \in places : p <= n
    <2>1. places \in SUBSET Nat /\ places # {}
      BY <1>2
    <2> HIDE DEF places
    <2> QED
      BY <2>1, LeastNumber
  <1> DEFINE numbers == {b[2] : b \in {c \in scan.batch : Place(c[1]) = p}}
  <1>4. PICK q \in numbers : \A n \in numbers : q <= n
    <2>1. numbers \in SUBSET Nat /\ numbers # {}
      BY <1>2, <1>3
    <2> HIDE DEF numbers
    <2> QED
      BY <2>1, LeastNumber
  <1>5. PICK b \in scan.batch : Place(b[1]) = p /\ b[2] = q
    BY <1>4
  <1>6. ASSUME NEW c \in scan.batch \ {b}
        PROVE  Before(b, c)
    <2>1. p <= Place(c[1]) /\ p \in Nat /\ Place(c[1]) \in Nat
      BY <1>2, <1>3
    <2>2. CASE Place(c[1]) = p
      <3>1. c[1] = b[1] /\ q <= c[2] /\ c[2] # q
        BY <1>2, <1>4, <1>5, <2>2
      <3>2. q \in Nat /\ c[2] \in Nat
        BY <1>2, <1>5
      <3> QED
        BY <1>5, <3>1, <3>2 DEF Before
    <2>3. CASE Place(c[1]) # p
      BY <1>5, <2>1, <2>3 DEF Before
    <2> QED
      BY <2>2, <2>3
  <1> QED
    BY <1>6 DEF Current, First

\* What is fetched is in the mailbox.
LEMMA FetchedRows ==
  FromMail \subseteq AllRows /\ \A failed : FromImap(failed) \subseteq AllRows
  <1>1. FromMail \subseteq AllRows
    BY DEF FromMail, Earliest
  <1>2. ASSUME NEW failed
        PROVE  FromImap(failed) \subseteq AllRows
    <2> DEFINE new(a) == Earliest({bid \in Rows(a) : Recent(bid)}, PerAccount)
               all == UNION {new(a) : a \in ToSet(regime.accounts) \ failed}
    <2>1. \A a : new(a) \subseteq Rows(a)
      BY DEF Earliest
    <2>2. all \subseteq AllRows
      BY <2>1 DEF AllRows
    <2>3. FromImap(failed) \subseteq all
      BY DEF FromImap, Earliest
    <2> QED
      BY <2>2, <2>3
  <1> QED
    BY <1>1, <1>2

\* What is known of the mail at hand.
LEMMA MailAtHand ==
  ASSUME ScanTyped, RecordsSound, AlertsSound
  PROVE  /\ scan.batch # {} => /\ Current \in scan.batch /\ Current \in AllRows /\ Current[2] \in Nat
                               /\ MailOf(Current) \in MailRecords /\ MailOf(Current).mid \in MessageIds
         /\ scan.pc \in AtItem \/ scan.alerted => scan.batch # {}
         /\ At("sending") => sending \in MessageIds
  <1>1. scan.batch # {} => /\ Current \in scan.batch /\ Current \in AllRows /\ Current[2] \in Nat
                           /\ MailOf(Current) \in MailRecords
    BY FirstMail, RowFacts DEF RecordsSound
  <1>2. \A m \in MailRecords : m.mid \in MessageIds
    BY DEF MailRecords
  <1>3. scan.pc \in AtItem \/ scan.alerted => scan.batch # {}
    BY DEF RecordsSound, AlertsSound, AtItem
  <1> QED
    BY <1>1, <1>2, <1>3 DEF AlertsSound, AtItem

LEMMA IdleScan == Idle \in ScanStates
  BY DEF Idle, ScanStates, Classes

LEMMA HourKept ==
  ASSUME NEW h \in Seq(Outcomes), h # <<>>
  PROVE  /\ Tail(h) \in Seq(Outcomes)
         /\ \A o \in Outcomes : [h EXCEPT ![Len(h)] = o] \in Seq(Outcomes)
  OBVIOUS

LEMMA BoxStep ==
  ASSUME ScanTyped, Arrive \/ Delete
  PROVE  box' \in [Accounts -> Seq(MailRecords)]
  <1>1. CASE Arrive
    <2>1. PICK a \in ToSet(regime.accounts), mid \in MessageIds, class \in regime.classes, old \in regime.olds :
            box' = [box EXCEPT ![a] = Append(@, Mail(mid, class, old, FALSE))]
      BY <1>1 DEF Arrive
    <2> DEFINE new == Mail(mid, class, old, FALSE)
    <2>2. new \in MailRecords
      BY Placed DEF Mail, MailRecords
    <2>3. a \in Accounts /\ box[a] \in Seq(MailRecords)
      BY Placed DEF ScanTyped
    <2> HIDE DEF new
    <2>4. Append(box[a], new) \in Seq(MailRecords)
      BY <2>2, <2>3
    <2>5. box \in [Accounts -> Seq(MailRecords)]
      BY DEF ScanTyped
    <2>6. box' = [box EXCEPT ![a] = Append(box[a], new)]
      BY <2>1 DEF new
    <2> QED
      BY <2>3, <2>4, <2>5, <2>6
  <1>2. CASE Delete
    <2>0. PICK a \in Accounts : \E i \in DOMAIN box[a] : box' = [box EXCEPT ![a][i].deleted = TRUE]
      BY <1>2 DEF Delete
    <2>1. PICK i \in DOMAIN box[a] : box' = [box EXCEPT ![a][i].deleted = TRUE]
      BY <2>0
    <2>2. box[a] \in Seq(MailRecords) /\ box[a][i] \in MailRecords
      BY DEF ScanTyped
    <2>3. [box[a][i] EXCEPT !.deleted = TRUE] \in MailRecords
      BY <2>2 DEF MailRecords
    <2>4. [box[a] EXCEPT ![i] = [box[a][i] EXCEPT !.deleted = TRUE]] \in Seq(MailRecords)
      BY <2>2, <2>3
    <2>5. box' = [box EXCEPT ![a] = [box[a] EXCEPT ![i] = [box[a][i] EXCEPT !.deleted = TRUE]]]
      BY <2>1
    <2> QED
      BY <2>4, <2>5 DEF ScanTyped
  <1> QED
    BY <1>1, <1>2

\* The steps of the scan keep the kinds of its fields.
LEMMA ScanStateStep ==
  ASSUME ScanTyped, RecordsSound, AlertsSound, [Next]_vars
  PROVE  scan' \in ScanStates
  <1>1. scan \in ScanStates /\ Idle \in ScanStates
    BY IdleScan DEF ScanTyped
  <1>2. ASSUME NEW p \in {"idle", "fetch", "item", "ack"} \cup AtItem
        PROVE  [scan EXCEPT !.pc = p] \in ScanStates /\ [Idle EXCEPT !.pc = p] \in ScanStates
    <2>1. \A s \in ScanStates : [s EXCEPT !.pc = p] \in ScanStates
      BY <1>2 DEF ScanStates
    <2> QED
      BY <1>1, <2>1
  <1>3. Again(scan) \in ScanStates
    <2>1. \A s \in ScanStates, n \in Nat :
            [s EXCEPT !.pc = "alert", !.tries = n] \in ScanStates /\ [s EXCEPT !.pc = "save"] \in ScanStates
      BY DEF ScanStates, AtItem
    <2>2. scan.tries + 1 \in Nat
      BY <1>1 DEF ScanStates
    <2> QED
      BY <1>1, <2>1, <2>2 DEF Again
  <1>4. scan.batch # {} => NextItem(scan) \in ScanStates /\ [NextItem(scan) EXCEPT !.total = @ + 1] \in ScanStates
    <2> SUFFICES ASSUME scan.batch # {}
                 PROVE  NextItem(scan) \in ScanStates /\ [NextItem(scan) EXCEPT !.total = @ + 1] \in ScanStates
      OBVIOUS
    <2>1. Current[2] \in Nat
      BY MailAtHand
    <2>2. \A s \in ScanStates, r \in Nat, bids \in SUBSET (Accounts \X Nat) :
            [s EXCEPT !.pc = "item", !.batch = bids, !.acked = r, !.alerted = FALSE, !.tries = 0] \in ScanStates
      BY DEF ScanStates
    <2>3. NextItem(scan) \in ScanStates
      <3>1. scan.batch \ {Current} \in SUBSET (Accounts \X Nat)
        BY <1>1 DEF ScanStates
      <3> QED
        BY <1>1, <2>1, <2>2, <3>1 DEF NextItem
    <2>4. \A s \in ScanStates : [s EXCEPT !.total = @ + 1] \in ScanStates
      BY DEF ScanStates
    <2> QED
      BY <2>3, <2>4
  <1>5. NextBatch \in ScanStates
    BY <1>1, <1>2 DEF NextBatch
  <1>6. ASSUME NEW batch \in SUBSET AllRows, Fetched(batch)
        PROVE  scan' \in ScanStates
    <2>1. batch \in SUBSET (Accounts \X Nat)
      BY RowFacts
    <2> QED
      BY <1>1, <1>6, <2>1 DEF Fetched, ScanStates
  <1>7. CASE StartScan
    BY <1>2, <1>7 DEF StartScan
  <1>8. CASE Fetch
    BY <1>1, <1>6, <1>8, FetchedRows DEF Fetch
  <1>9. CASE FetchFails \/ AckFails \/ AgentStops
    BY <1>1, <1>9 DEF FetchFails, AckFails, AgentStops
  <1>10. CASE Known \/ Copy
    BY <1>4, <1>10 DEF Known, Copy
  <1>11. CASE Save
    BY <1>4, <1>11, MailAtHand DEF Save, AtItem
  <1>12. CASE Classify
    <2>1. PICK failing \in IF Filtered THEN {{}} ELSE SUBSET Fallible, quiet \in BOOLEAN :
            LET class == IF Filtered THEN "other" ELSE IF Answering(failing) = 0 THEN "alerting" ELSE MailOf(Current).class
            IN scan' = [scan EXCEPT !.pc = IF class = "alerting" /\ ~ quiet THEN "alert" ELSE "save", !.class = class]
      BY <1>12 DEF Classify
    <2>2. MailOf(Current).class \in Classes
      BY <1>12, MailAtHand DEF Classify, MailRecords
    <2>3. PICK class \in Classes : scan' = [scan EXCEPT !.pc = IF class = "alerting" /\ ~ quiet THEN "alert" ELSE "save", !.class = class]
      BY <2>1, <2>2 DEF Classes
    <2> QED
      BY <1>1, <2>3 DEF ScanStates, AtItem
  <1>13. CASE ClassifyRaises
    BY <1>1, <1>13 DEF ClassifyRaises, ScanStates
  <1>14. CASE Refuse \/ SendAlert
    BY <1>2, <1>14 DEF Refuse, SendAlert, AtItem
  <1>15. CASE AlertFails \/ BridgeStops
    BY <1>1, <1>3, <1>15 DEF AlertFails, BridgeStops
  <1>16. ASSUME NEW answered \in BOOLEAN, LogAlert(answered)
         PROVE  scan' \in ScanStates
    <2>1. [scan EXCEPT !.alerted = TRUE, !.pc = "save"] \in ScanStates
      BY <1>1 DEF ScanStates, AtItem
    <2> QED
      BY <1>1, <1>3, <1>16, <2>1 DEF LogAlert
  <1>17. CASE Ack
    BY <1>5, <1>17 DEF Ack
  <1>18. CASE LateAck \/ Arrive \/ Delete \/ GoOffline \/ GoOnline \/ Age
    BY <1>1, <1>18 DEF LateAck, Arrive, Delete, GoOffline, GoOnline, Age
  <1>19. ASSUME NEW p \in DOMAIN breaker, CoolDown(p)
         PROVE  scan' \in ScanStates
    BY <1>1, <1>19 DEF CoolDown
  <1>20. CASE UNCHANGED vars
    BY <1>1, <1>20 DEF vars
  <1> QED
    BY <1>7, <1>8, <1>9, <1>10, <1>11, <1>12, <1>13, <1>14, <1>15, <1>16, <1>17, <1>18, <1>19, <1>20
    DEF Next, AgentStep, BridgeStep

LEMMA ScanTypedStep ==
  ASSUME ScanTyped, RecordsSound, HourSound, AlertsSound, [Next]_vars
  PROVE  ScanTyped'
  <1> USE DEF Fine, Fault
  <1>1. scan' \in ScanStates
    BY ScanStateStep
  <1>2. box' \in [Accounts -> Seq(MailRecords)]
    <2>1. Arrive \/ Delete \/ box' = box
      BY DEF Next, AgentStep, BridgeStep, vars, StartScan, Fetch, FetchFails, Known, Copy, Classify,
         ClassifyRaises, Refuse, SendAlert, AlertFails, Save, Ack, AckFails, LateAck, LogAlert,
         GoOffline, GoOnline, Age, BridgeStops, AgentStops, CoolDown
    <2> QED
      BY <2>1, BoxStep DEF ScanTyped
  <1>3. regime' = regime /\ faults' \in {faults, faults + 1}
    BY DEF ScanTyped, Next, AgentStep, BridgeStep, vars, StartScan, Fetch, FetchFails, Known, Copy, Classify,
       ClassifyRaises, Refuse, SendAlert, AlertFails, Save, Ack, AckFails, LateAck, LogAlert,
       GoOffline, GoOnline, Age, BridgeStops, AgentStops, CoolDown, Arrive, Delete
  <1>4. online' \in BOOLEAN
    BY DEF ScanTyped, Next, AgentStep, BridgeStep, vars, StartScan, Fetch, FetchFails, Known, Copy, Classify,
       ClassifyRaises, Refuse, SendAlert, AlertFails, Save, Ack, AckFails, LateAck, LogAlert,
       GoOffline, GoOnline, Age, BridgeStops, AgentStops, CoolDown, Arrive, Delete
  <1>5. ack' \in Nat /\ lateAcks' \subseteq Nat
    <2>1. scan.acked \in Nat
      BY DEF ScanTyped, ScanStates
    <2>2. Ack \/ AckFails \/ LateAck \/ UNCHANGED bridge
      BY DEF bridge, Next, AgentStep, BridgeStep, vars, StartScan, Fetch, FetchFails, Known, Copy, Classify,
         ClassifyRaises, Refuse, SendAlert, AlertFails, Save, LogAlert,
         GoOffline, GoOnline, Age, BridgeStops, AgentStops, CoolDown, Arrive, Delete
    <2> QED
      BY <2>1, <2>2 DEF ScanTyped, bridge, Ack, AckFails, LateAck
  <1>6. /\ sending' \in MessageIds \cup {None} /\ hour' \in Seq(Outcomes)
        /\ phone' \in [MessageIds -> Nat] /\ blind' \in [MessageIds -> Nat]
    <2>1. /\ sending \in MessageIds \cup {None} /\ hour \in Seq(Outcomes)
          /\ phone \in [MessageIds -> Nat] /\ blind \in [MessageIds -> Nat]
      BY DEF ScanTyped
    <2>2. CASE SendAlert
      <3>1. MailOf(Current).mid \in MessageIds
        BY <2>2, MailAtHand DEF SendAlert, AtItem
      <3>2. \A o \in Outcomes : Append(hour, o) \in Seq(Outcomes)
        BY <2>1
      <3>3. hour' \in Seq(Outcomes)
        BY <2>2, <3>2 DEF SendAlert, Outcomes
      <3>4. phone' \in [MessageIds -> Nat]
        <4> DEFINE m == MailOf(Current).mid
        <4>1. phone' = [phone EXCEPT ![m] = @ + 1]
          BY <2>2 DEF SendAlert
        <4>2. m \in MessageIds
          BY <3>1
        <4> HIDE DEF m
        <4> QED
          BY <2>1, <4>1, <4>2
      <3> QED
        BY <2>1, <2>2, <3>1, <3>3, <3>4 DEF SendAlert
    <2>3. ASSUME NEW answered \in BOOLEAN, LogAlert(answered)
          PROVE  /\ sending' \in MessageIds \cup {None} /\ hour' \in Seq(Outcomes)
                 /\ phone' \in [MessageIds -> Nat] /\ blind' \in [MessageIds -> Nat]
      <3>1. hour # <<>> /\ sending \in MessageIds
        BY <2>1, <2>3 DEF LogAlert, HourSound
      <3>2. hour' \in Seq(Outcomes)
        BY <2>1, <2>3, <3>1, HourKept DEF LogAlert, LogRequest, Became, Outcomes
      <3> QED
        BY <2>1, <2>3, <3>1, <3>2 DEF LogAlert
    <2>4. CASE BridgeStops
      <3>1. hour # <<>> /\ sending \in MessageIds
        BY <2>1, <2>4 DEF BridgeStops, HourSound
      <3>2. hour' \in Seq(Outcomes)
        BY <2>1, <2>4, <3>1, HourKept DEF BridgeStops, Became, Outcomes
      <3> QED
        BY <2>1, <2>4, <3>1, <3>2 DEF BridgeStops
    <2>5. CASE AgentStops
      <3>1. scan.alerted => MailOf(Current).mid \in MessageIds
        BY MailAtHand
      <3>2. At("sending") => sending \in MessageIds
        BY MailAtHand
      <3>3. blind' \in [MessageIds -> Nat]
        <4> DEFINE m == MailOf(Current).mid
        <4>1. blind' = IF scan.alerted THEN [blind EXCEPT ![m] = @ + 1]
                       ELSE IF At("sending") THEN [blind EXCEPT ![sending] = @ + 1] ELSE blind
          BY <2>5 DEF AgentStops
        <4>2. scan.alerted => m \in MessageIds
          BY <3>1
        <4> HIDE DEF m
        <4> QED
          BY <2>1, <3>2, <4>1, <4>2
      <3> QED
        BY <2>1, <2>5, <3>3 DEF AgentStops
    <2>6. CASE Age
      BY <2>1, <2>6, HourKept DEF Age
    <2>7. CASE UNCHANGED alerts
      BY <2>1, <2>7 DEF alerts
    <2>8. SendAlert \/ (\E answered \in BOOLEAN : LogAlert(answered)) \/ BridgeStops \/ AgentStops
          \/ Age \/ UNCHANGED alerts
      BY DEF alerts, Next, AgentStep, BridgeStep, vars, StartScan, Fetch, FetchFails, Known, Copy, Classify,
         ClassifyRaises, Refuse, AlertFails, Save, Ack, AckFails, LateAck,
         GoOffline, GoOnline, CoolDown, Arrive, Delete
    <2> QED
      BY <2>2, <2>3, <2>4, <2>5, <2>6, <2>7, <2>8
  <1>7. faults' \in Nat
    BY <1>3 DEF ScanTyped
  <1> QED
    BY <1>1, <1>2, <1>3, <1>4, <1>5, <1>6, <1>7 DEF ScanTyped

\* Recording a mail forgets none that was recorded.
LEMMA SavedRows ==
  ASSUME ScanTyped, RecordsSound, NEW bid \in AllRows, NEW alerted, box' = box, results' = Saved(bid, alerted)
  PROVE  /\ \A r \in results' :
              r.bid[1] \in Accounts /\ r.bid[2] \in DOMAIN box'[r.bid[1]] /\ r.mid = MailOf(r.bid)'.mid
         /\ \A mid : MessageProcessed(mid) => MessageProcessed(mid)'
         /\ \E r \in results' : r.mid = MailOf(bid).mid
  <1> DEFINE new == [bid |-> bid, mid |-> MailOf(bid).mid, alerted |-> alerted]
  <1>1. new \in results' /\ new.mid = MailOf(bid).mid /\ new.bid = bid
    BY DEF Saved
  <1>2. \A r \in results' : r = new \/ r \in results
    BY DEF Saved
  <1>3. \A b : MailOf(b)' = MailOf(b)
    BY DEF MailOf
  <1>4. ASSUME NEW r \in results'
        PROVE  r.bid[1] \in Accounts /\ r.bid[2] \in DOMAIN box'[r.bid[1]] /\ r.mid = MailOf(r.bid)'.mid
    <2>1. CASE r \in results
      BY <1>3, <2>1 DEF RecordsSound, MailOf
    <2>2. CASE r = new
      BY <1>1, <1>3, <2>2, RowFacts DEF MailOf
    <2> QED
      BY <1>2, <2>1, <2>2
  <1>5. ASSUME NEW mid, MessageProcessed(mid)
        PROVE  MessageProcessed(mid)'
    <2>1. PICK r \in results : r.mid = mid
      BY <1>5 DEF MessageProcessed
    <2>2. r \in results' \/ mid = MailOf(bid).mid
      BY <2>1 DEF Saved, RecordsSound
    <2> QED
      BY <1>1, <2>1, <2>2 DEF MessageProcessed
  <1>6. \E r \in results' : r.mid = MailOf(bid).mid
    BY <1>1
  <1> QED
    BY <1>4, <1>5, <1>6

\* The mailbox changes between batches, and only grows.
LEMMA BoxGrows ==
  ASSUME ScanTyped, RecordsSound, Arrive \/ Delete
  PROVE  /\ scan' = scan /\ scan.batch = {} /\ (At("idle") \/ At("fetch"))
         /\ \A a \in Accounts :
              /\ Len(box[a]) \in Nat /\ Len(box'[a]) \in Nat /\ Len(box'[a]) >= Len(box[a])
              /\ DOMAIN box[a] = 1 .. Len(box[a]) /\ DOMAIN box'[a] = 1 .. Len(box'[a])
              /\ \A i \in DOMAIN box[a] :
                   /\ box'[a][i].mid = box[a][i].mid /\ box'[a][i].old = box[a][i].old
                   /\ box[a][i].deleted => box'[a][i].deleted
              /\ box'[a] # <<>> => a \in ToSet(regime.accounts)
  <1>1. /\ scan' = scan /\ scan.batch = {} /\ (At("idle") \/ At("fetch"))
    BY DEF Arrive, Delete, BetweenBatches, RecordsSound
  <1>2. box \in [Accounts -> Seq(MailRecords)] /\ box' \in [Accounts -> Seq(MailRecords)]
    BY BoxStep DEF ScanTyped
  <1>3. ASSUME NEW b \in Accounts
        PROVE  /\ Len(box[b]) \in Nat /\ Len(box'[b]) \in Nat /\ Len(box'[b]) >= Len(box[b])
               /\ DOMAIN box[b] = 1 .. Len(box[b]) /\ DOMAIN box'[b] = 1 .. Len(box'[b])
               /\ \A i \in DOMAIN box[b] :
                    /\ box'[b][i].mid = box[b][i].mid /\ box'[b][i].old = box[b][i].old
                    /\ box[b][i].deleted => box'[b][i].deleted
               /\ box'[b] # <<>> => b \in ToSet(regime.accounts)
    <2>1. box[b] \in Seq(MailRecords) /\ box'[b] \in Seq(MailRecords)
      BY <1>2
    <2>2. box[b] # <<>> => b \in ToSet(regime.accounts)
      BY DEF RecordsSound
    <2>3. CASE box'[b] = box[b]
      BY <2>1, <2>2, <2>3
    <2>4. CASE Arrive /\ box'[b] # box[b]
      <3>0. PICK a \in ToSet(regime.accounts) : \E m : box' = [box EXCEPT ![a] = Append(@, m)]
        BY <2>4 DEF Arrive
      <3>1. PICK m : box' = [box EXCEPT ![a] = Append(@, m)]
        BY <3>0
      <3>2. b = a
        BY <1>2, <2>4, <3>1
      <3>3. box'[b] = Append(box[b], m)
        BY <1>2, <3>1, <3>2
      <3>4. Len(box'[b]) = Len(box[b]) + 1 /\ \A i \in DOMAIN box[b] : box'[b][i] = box[b][i]
        BY <2>1, <3>3
      <3> QED
        BY <2>1, <3>1, <3>2, <3>4
    <2>5. CASE Delete /\ box'[b] # box[b]
      <3>1. PICK a \in Accounts : \E i \in DOMAIN box[a] : box' = [box EXCEPT ![a][i].deleted = TRUE]
        BY <2>5 DEF Delete
      <3>2. PICK j \in DOMAIN box[a] : box' = [box EXCEPT ![a][j].deleted = TRUE]
        BY <3>1
      <3>3. b = a
        BY <1>2, <2>5, <3>2
      <3>4. box'[b] = [box[b] EXCEPT ![j] = [box[b][j] EXCEPT !.deleted = TRUE]]
        BY <1>2, <3>2, <3>3
      <3>5. box[b][j] \in MailRecords
        BY <2>1, <3>2, <3>3
      <3>6. LET m == [box[b][j] EXCEPT !.deleted = TRUE]
            IN  m.mid = box[b][j].mid /\ m.old = box[b][j].old /\ m.deleted
        BY <3>5 DEF MailRecords
      <3>7. Len(box'[b]) = Len(box[b]) /\ DOMAIN box'[b] = DOMAIN box[b]
            /\ \A i \in DOMAIN box[b] : i # j => box'[b][i] = box[b][i]
        BY <2>1, <3>4
      <3>8. box'[b][j] = [box[b][j] EXCEPT !.deleted = TRUE]
        BY <2>1, <3>2, <3>3, <3>4
      <3>9. box[b] # <<>>
        BY <2>1, <3>2, <3>3
      <3>10. ASSUME NEW i \in DOMAIN box[b]
             PROVE  /\ box'[b][i].mid = box[b][i].mid /\ box'[b][i].old = box[b][i].old
                    /\ box[b][i].deleted => box'[b][i].deleted
        <4>1. CASE i = j
          BY <3>6, <3>8, <4>1
        <4>2. CASE i # j
          BY <3>7, <4>2
        <4> QED
          BY <4>1, <4>2
      <3> QED
        BY <2>1, <2>2, <3>7, <3>9, <3>10
    <2>6. Arrive \/ Delete
      OBVIOUS
    <2> QED
      BY <2>3, <2>4, <2>5, <2>6
  <1> QED
    BY <1>1, <1>3

\* A step of the scan keeps the batch, takes the mail at hand from it, drops it or fetches one.
LEMMA ScanShape ==
  ASSUME ScanTyped, RecordsSound, AlertsSound, [Next]_vars
  PROVE  /\ regime' = regime
         /\ \/ scan' = scan /\ results' = results
            \/ /\ scan'.batch = scan.batch /\ scan'.pc \in AtItem /\ scan.batch # {}
               /\ ~ MessageProcessed(MailOf(Current).mid) /\ results' = results /\ box' = box
            \/ scan.batch # {} /\ scan'.batch = scan.batch \ {Current} /\ scan'.pc = "item"
            \/ scan'.batch = {} /\ scan'.pc \in {"idle", "fetch", "ack"}
            \/ scan'.batch \subseteq AllRows /\ scan'.pc = "item"
         /\ \/ Arrive \/ Delete
            \/ box' = box
         /\ \/ results' = results
            \/ scan.batch # {} /\ box' = box /\ \E alerted : results' = Saved(Current, alerted)
  <1> DEFINE Batches == \/ scan' = scan /\ results' = results
                        \/ /\ scan'.batch = scan.batch /\ scan'.pc \in AtItem /\ scan.batch # {}
                           /\ ~ MessageProcessed(MailOf(Current).mid) /\ results' = results /\ box' = box
                        \/ scan.batch # {} /\ scan'.batch = scan.batch \ {Current} /\ scan'.pc = "item"
                        \/ scan'.batch = {} /\ scan'.pc \in {"idle", "fetch", "ack"}
                        \/ scan'.batch \subseteq AllRows /\ scan'.pc = "item"
             Boxes == Arrive \/ Delete \/ box' = box
             Saves == \/ results' = results
                      \/ scan.batch # {} /\ box' = box /\ \E alerted : results' = Saved(Current, alerted)
             Steps == regime' = regime /\ Batches /\ Boxes /\ Saves
  <1> SUFFICES Steps
    OBVIOUS
  <1> USE DEF Fine, Fault
  <1>1. scan \in ScanStates
    BY DEF ScanTyped
  <1>2. \A p : [scan EXCEPT !.pc = p].pc = p /\ [scan EXCEPT !.pc = p].batch = scan.batch
    BY <1>1 DEF ScanStates
  <1>3. Idle.pc = "idle" /\ Idle.batch = {} /\ [Idle EXCEPT !.pc = "fetch"].pc = "fetch"
        /\ [Idle EXCEPT !.pc = "fetch"].batch = {}
    BY DEF Idle
  <1>4. NextItem(scan).pc = "item" /\ NextItem(scan).batch = scan.batch \ {Current}
        /\ [NextItem(scan) EXCEPT !.total = @ + 1].pc = "item"
        /\ [NextItem(scan) EXCEPT !.total = @ + 1].batch = scan.batch \ {Current}
    BY <1>1 DEF NextItem, ScanStates
  <1>5. Again(scan).pc \in AtItem /\ Again(scan).batch = scan.batch
    BY <1>1 DEF Again, ScanStates, AtItem
  <1>6. scan.pc \in AtItem => scan.batch # {} /\ ~ MessageProcessed(MailOf(Current).mid)
    BY DEF RecordsSound
  <1>7. CASE StartScan \/ FetchFails \/ AckFails \/ AgentStops
    BY <1>3, <1>7 DEF StartScan, FetchFails, AckFails, AgentStops
  <1>8. CASE Fetch
    <2>1. ASSUME NEW batch, Fetched(batch), batch \subseteq AllRows
          PROVE  Batches
      BY <1>1, <1>3, <2>1 DEF Fetched, ScanStates
    <2> QED
      BY <1>3, <1>8, <2>1, FetchedRows DEF Fetch
  <1>9. CASE Known
    BY <1>4, <1>9 DEF Known
  <1>10. CASE Copy
    BY <1>4, <1>10 DEF Copy
  <1>11. CASE Save
    BY <1>4, <1>6, <1>11 DEF Save, AtItem
  <1>12. CASE Classify
    <2>1. scan'.batch = scan.batch /\ scan'.pc \in AtItem
      BY <1>1, <1>12 DEF Classify, ScanStates, AtItem
    <2> QED
      BY <1>12, <2>1 DEF Classify, IsCopy
  <1>13. CASE ClassifyRaises
    BY <1>1, <1>13 DEF ClassifyRaises, ScanStates
  <1>14. CASE Refuse \/ SendAlert
    <2>1. PICK p \in AtItem : scan' = [scan EXCEPT !.pc = p]
      BY <1>14 DEF Refuse, SendAlert, AtItem
    <2>2. scan.pc \in AtItem /\ regime' = regime /\ box' = box /\ results' = results
      BY <1>14 DEF Refuse, SendAlert, AtItem
    <2> QED
      BY <1>2, <1>6, <2>1, <2>2
  <1>15. CASE AlertFails
    BY <1>5, <1>6, <1>15 DEF AlertFails, AtItem
  <1>16. CASE BridgeStops
    BY <1>5, <1>6, <1>16 DEF BridgeStops, AtItem
  <1>17. ASSUME NEW answered \in BOOLEAN, LogAlert(answered)
         PROVE  Steps
    <2>1. [scan EXCEPT !.alerted = TRUE, !.pc = "save"].pc = "save"
          /\ [scan EXCEPT !.alerted = TRUE, !.pc = "save"].batch = scan.batch
      BY <1>1 DEF ScanStates
    <2> QED
      BY <1>5, <1>6, <1>17, <2>1 DEF LogAlert, AtItem
  <1>18. CASE Ack
    <2>1. scan.batch = {}
      BY <1>18 DEF Ack, Finished, RecordsSound
    <2>2. NextBatch.batch = {} /\ NextBatch.pc \in {"idle", "fetch"}
      BY <1>2, <1>3, <2>1 DEF NextBatch
    <2> QED
      BY <1>18, <2>2 DEF Ack
  <1>19. CASE LateAck \/ Arrive \/ Delete \/ GoOffline \/ GoOnline \/ Age
    BY <1>19 DEF LateAck, Arrive, Delete, GoOffline, GoOnline, Age
  <1>20. ASSUME NEW p \in DOMAIN breaker, CoolDown(p)
         PROVE  Steps
    BY <1>20 DEF CoolDown
  <1>21. CASE UNCHANGED vars
    BY <1>21 DEF vars
  <1> HIDE DEF Steps
  <1> QED
    BY <1>7, <1>8, <1>9, <1>10, <1>11, <1>12, <1>13, <1>14, <1>15, <1>16, <1>17, <1>18, <1>19, <1>20, <1>21
    DEF Next, AgentStep, BridgeStep

LEMMA RowsKept ==
  ASSUME ScanTyped, RecordsSound, AlertsSound, [Next]_vars
  PROVE  /\ AllRows \subseteq AllRows'
         /\ \A bid \in AllRows : MailOf(bid)'.mid = MailOf(bid).mid
  <1>1. \A b \in AllRows : /\ b[1] \in ToSet(regime.accounts) /\ b[1] \in Accounts
                           /\ b = <<b[1], b[2]>> /\ b[2] \in DOMAIN box[b[1]]
    BY RowFacts
  <1>2. regime' = regime
    BY ScanShape
  <1>3. ASSUME NEW b \in AllRows
        PROVE  b[2] \in DOMAIN box'[b[1]] /\ box'[b[1]][b[2]].mid = box[b[1]][b[2]].mid
    <2>1. CASE box' = box
      BY <1>1, <2>1
    <2>2. CASE Arrive \/ Delete
      <3>1. /\ Len(box[b[1]]) \in Nat /\ Len(box'[b[1]]) \in Nat /\ Len(box'[b[1]]) >= Len(box[b[1]])
            /\ DOMAIN box[b[1]] = 1 .. Len(box[b[1]]) /\ DOMAIN box'[b[1]] = 1 .. Len(box'[b[1]])
            /\ \A i \in DOMAIN box[b[1]] : box'[b[1]][i].mid = box[b[1]][i].mid
        BY <1>1, <2>2, BoxGrows
      <3> QED
        BY <1>1, <3>1
    <2> QED
      BY <2>1, <2>2, ScanShape
  <1> QED
    BY <1>1, <1>2, <1>3 DEF AllRows, Rows, MailOf

LEMMA RecordsStep ==
  ASSUME ScanTyped, RecordsSound, AlertsSound, [Next]_vars
  PROVE  RecordsSound'
  <1>1. regime' = regime
    BY ScanShape
  <1>2. \A a \in Accounts : box'[a] # <<>> => a \in ToSet(regime'.accounts)
    <2>1. CASE box' = box
      BY <1>1, <2>1 DEF RecordsSound
    <2>2. CASE Arrive \/ Delete
      BY <1>1, <2>2, BoxGrows
    <2> QED
      BY <2>1, <2>2, ScanShape
  <1>3. \A r \in results' :
          r.bid[1] \in Accounts /\ r.bid[2] \in DOMAIN box'[r.bid[1]] /\ r.mid = MailOf(r.bid)'.mid
    <2>1. CASE scan.batch # {} /\ box' = box /\ \E alerted : results' = Saved(Current, alerted)
      BY <2>1, MailAtHand, SavedRows
    <2>2. CASE results' = results
      <3> SUFFICES ASSUME NEW r \in results
                   PROVE  r.bid[1] \in Accounts /\ r.bid[2] \in DOMAIN box'[r.bid[1]] /\ r.mid = MailOf(r.bid)'.mid
        BY <2>2
      <3>1. r.bid[1] \in Accounts /\ r.bid[2] \in DOMAIN box[r.bid[1]] /\ r.mid = box[r.bid[1]][r.bid[2]].mid
        BY DEF RecordsSound, MailOf
      <3>2. CASE box' = box
        BY <3>1, <3>2 DEF MailOf
      <3>3. CASE Arrive \/ Delete
        <4> DEFINE a == r.bid[1]
        <4>1. /\ Len(box[a]) \in Nat /\ Len(box'[a]) \in Nat /\ Len(box'[a]) >= Len(box[a])
              /\ DOMAIN box[a] = 1 .. Len(box[a]) /\ DOMAIN box'[a] = 1 .. Len(box'[a])
              /\ \A i \in DOMAIN box[a] : box'[a][i].mid = box[a][i].mid
          BY <3>1, <3>3, BoxGrows
        <4> QED
          BY <3>1, <4>1 DEF MailOf
      <3> QED
        BY <3>2, <3>3, ScanShape
    <2> QED
      BY <2>1, <2>2, ScanShape
  <1>4. scan.batch \subseteq AllRows /\ AllRows \subseteq AllRows'
    BY RowsKept DEF RecordsSound
  <1>5. scan'.batch \subseteq AllRows'
    BY <1>4, ScanShape
  <1>6. scan'.pc \in {"idle", "fetch", "ack"} => scan'.batch = {}
    BY ScanShape DEF RecordsSound, AtItem
  <1>7. ASSUME scan'.pc \in AtItem
        PROVE  scan'.batch # {} /\ ~ MessageProcessed(MailOf(Current).mid)'
    <2>1. /\ scan'.batch = scan.batch /\ scan.batch # {} /\ results' = results
          /\ ~ MessageProcessed(MailOf(Current).mid)
      BY <1>7, ScanShape DEF RecordsSound, AtItem
    <2>2. Current' = Current
      BY <1>1, <2>1 DEF Current, First, Before, Place
    <2>3. MailOf(Current)'.mid = MailOf(Current).mid
      <3>1. MailOf(Current)' = box'[Current[1]][Current[2]]
        BY <2>2 DEF MailOf
      <3>2. box'[Current[1]][Current[2]].mid = MailOf(Current).mid
        BY <2>1, MailAtHand, RowsKept DEF MailOf
      <3> QED
        BY <3>1, <3>2
    <2> QED
      BY <2>1, <2>3 DEF MessageProcessed
  <1> QED
    BY <1>2, <1>3, <1>5, <1>6, <1>7 DEF RecordsSound

(***************************************************************************)
(* The alerts of an hour.                                                  *)
(***************************************************************************)
Of(h, outcomes) == {i \in DOMAIN h : h[i] \in outcomes}

LEMMA OfIsFinite ==
  ASSUME NEW h \in Seq(Outcomes), NEW outcomes
  PROVE  IsFiniteSet(Of(h, outcomes)) /\ Cardinality(Of(h, outcomes)) \in Nat
  <1>1. IsFiniteSet(1 .. Len(h)) /\ Of(h, outcomes) \subseteq 1 .. Len(h)
    BY FS_Interval DEF Of
  <1>2. IsFiniteSet(Of(h, outcomes))
    BY <1>1, FS_Subset
  <1> QED
    BY <1>2, FS_CardinalityType

LEMMA NewestJoins ==
  ASSUME NEW h \in Seq(Outcomes), NEW o \in Outcomes
  PROVE  /\ Len(Append(h, o)) = Len(h) + 1 /\ DOMAIN Append(h, o) = 1 .. (Len(h) + 1) /\ Append(h, o) # <<>>
         /\ DOMAIN h = 1 .. Len(h) /\ Len(h) \in Nat /\ Append(h, o)[Len(h) + 1] = o
         /\ \A i \in DOMAIN h : Append(h, o)[i] = h[i]
  OBVIOUS

LEMMA OldestLeaves ==
  ASSUME NEW h \in Seq(Outcomes), h # <<>>, NEW outcomes
  PROVE  Cardinality(Of(Tail(h), outcomes)) <= Cardinality(Of(h, outcomes))
  <1> DEFINE f == [i \in Of(Tail(h), outcomes) |-> i + 1]
  <1>1. \A i \in Of(Tail(h), outcomes) : i \in Nat /\ i + 1 \in Of(h, outcomes)
    BY DEF Of
  <1>2. f \in Injection(Of(Tail(h), outcomes), Of(h, outcomes))
    BY <1>1 DEF Injection, IsInjective
  <1> QED
    BY <1>2, FS_Injection, OfIsFinite

LEMMA HourStep ==
  ASSUME ScanTyped, RecordsSound, HourSound, AlertsSound, [Next]_vars
  PROVE  HourSound'
  <1> DEFINE Out == {"sent", "logged"}
  <1>1. hour \in Seq(Outcomes) /\ sending \in MessageIds \cup {None} /\ MaxAlerts \in Nat /\ None \notin MessageIds
    BY ScanAssumption DEF ScanTyped
  <1>2. /\ Cardinality(Of(hour, Out)) <= MaxAlerts
        /\ AlertBudget' <=> Cardinality(Of(hour', Out)) <= MaxAlerts
    BY DEF HourSound, AlertBudget, InHour, Of
  <1>3. /\ \A i \in DOMAIN hour : hour[i] = "sent" <=> (sending # None /\ i = Len(hour))
        /\ sending # None => hour # <<>>
    BY DEF HourSound
  <1> SUFFICES /\ \A i \in DOMAIN hour' : hour'[i] = "sent" <=> (sending' # None /\ i = Len(hour'))
               /\ sending' # None => hour' # <<>>
               /\ Cardinality(Of(hour', Out)) <= MaxAlerts
    BY <1>2 DEF HourSound
  <1> HIDE DEF Out
  <1>4. Cardinality(Of(hour, Out)) \in Nat
    BY <1>1, OfIsFinite
  <1>5. CASE SendAlert
    <2>1. hour' = Append(hour, "sent") /\ sending = None /\ sending' # None
      BY <1>1, <1>5, MailAtHand DEF SendAlert, AtItem
    <2>2. /\ Len(hour') = Len(hour) + 1 /\ DOMAIN hour' = 1 .. (Len(hour) + 1) /\ hour' # <<>>
          /\ DOMAIN hour = 1 .. Len(hour) /\ Len(hour) \in Nat /\ hour'[Len(hour) + 1] = "sent"
          /\ \A i \in DOMAIN hour : hour'[i] = hour[i]
      <3>1. "sent" \in Outcomes
        BY DEF Outcomes
      <3> QED
        BY <1>1, <2>1, <3>1, NewestJoins
    <2>3. Of(hour, Out) = InHour({"logged"})
      BY <1>3, <2>1 DEF Of, InHour, Out
    <2>4. Of(hour', Out) = Of(hour, Out) \cup {Len(hour) + 1}
      <3>1. \A i \in DOMAIN hour' : i \in DOMAIN hour \/ i = Len(hour) + 1
        BY <2>2
      <3>2. Len(hour) + 1 \in DOMAIN hour' /\ DOMAIN hour \subseteq DOMAIN hour'
        BY <2>2
      <3> QED
        BY <2>2, <3>1, <3>2 DEF Of, Out
    <2>5. Cardinality(Of(hour', Out)) <= Cardinality(Of(hour, Out)) + 1
      <3>1. IsFiniteSet(Of(hour, Out))
        BY <1>1, OfIsFinite
      <3>2. Cardinality(Of(hour, Out) \cup {Len(hour) + 1})
              = IF Len(hour) + 1 \in Of(hour, Out) THEN Cardinality(Of(hour, Out)) ELSE Cardinality(Of(hour, Out)) + 1
        BY <3>1, FS_AddElement
      <3> QED
        BY <1>4, <2>4, <3>2
    <2>6. Cardinality(Of(hour, Out)) < MaxAlerts
      BY <1>5, <2>3 DEF SendAlert, Allowed
    <2>7. hour' \in Seq(Outcomes)
      BY <1>1, <2>1 DEF Outcomes
    <2>8. Cardinality(Of(hour', Out)) \in Nat
      BY <2>7, OfIsFinite
    <2>9. Cardinality(Of(hour', Out)) <= MaxAlerts
      BY <1>1, <1>4, <2>5, <2>6, <2>8
    <2>10. \A i \in DOMAIN hour' : hour'[i] = "sent" <=> i = Len(hour')
      BY <1>3, <2>1, <2>2
    <2> QED
      BY <2>1, <2>2, <2>9, <2>10
  <1>6. ASSUME NEW o \in {"logged", "stopped"}, sending # None, sending' = None, hour' = [hour EXCEPT ![Len(hour)] = o]
        PROVE  /\ \A i \in DOMAIN hour' : hour'[i] # "sent"
               /\ Cardinality(Of(hour', Out)) <= MaxAlerts
    <2>1. /\ Len(hour) \in Nat \ {0} /\ DOMAIN hour = 1 .. Len(hour) /\ DOMAIN hour' = DOMAIN hour
          /\ hour'[Len(hour)] = o /\ \A i \in DOMAIN hour : i # Len(hour) => hour'[i] = hour[i]
      BY <1>1, <1>3, <1>6
    <2>2. \A i \in DOMAIN hour' : hour'[i] # "sent"
      BY <1>3, <1>6, <2>1
    <2>3. hour[Len(hour)] = "sent" /\ Len(hour) \in DOMAIN hour
      BY <1>3, <1>6, <2>1
    <2>4. Of(hour', Out) \subseteq Of(hour, Out)
      BY <2>1, <2>3 DEF Of, Out
    <2>5. Cardinality(Of(hour', Out)) <= Cardinality(Of(hour, Out)) /\ Cardinality(Of(hour', Out)) \in Nat
      BY <1>1, <2>4, FS_Subset, FS_CardinalityType, OfIsFinite
    <2> QED
      BY <1>1, <1>2, <1>4, <2>2, <2>5
  <1>7. ASSUME NEW answered \in BOOLEAN, LogAlert(answered)
        PROVE  /\ \A i \in DOMAIN hour' : hour'[i] = "sent" <=> (sending' # None /\ i = Len(hour'))
               /\ sending' # None => hour' # <<>>
               /\ Cardinality(Of(hour', Out)) <= MaxAlerts
    BY <1>6, <1>7 DEF LogAlert, LogRequest, Became
  <1>8. CASE BridgeStops
    BY <1>6, <1>8 DEF BridgeStops, Became
  <1>9. CASE Age
    <2>1. hour # <<>> /\ hour' = Tail(hour) /\ sending' = sending /\ hour[1] # "sent"
      BY <1>1, <1>9 DEF Age
    <2>2. /\ Len(hour) \in Nat \ {0} /\ Len(hour') = Len(hour) - 1 /\ DOMAIN hour' = 1 .. (Len(hour) - 1)
          /\ DOMAIN hour = 1 .. Len(hour) /\ \A i \in 1 .. (Len(hour) - 1) : hour'[i] = hour[i + 1]
      BY <1>1, <2>1
    <2>3. sending # None => Len(hour) # 1
      BY <1>3, <2>1, <2>2
    <2>4. \A i \in DOMAIN hour' : i + 1 \in DOMAIN hour /\ (i + 1 = Len(hour) <=> i = Len(hour'))
      BY <2>2
    <2>5. \A i \in DOMAIN hour' : hour'[i] = "sent" <=> (sending' # None /\ i = Len(hour'))
      BY <1>3, <2>1, <2>2, <2>4
    <2>6. sending' # None => hour' # <<>>
      BY <2>1, <2>2, <2>3
    <2>7. Cardinality(Of(hour', Out)) <= Cardinality(Of(hour, Out))
      BY <1>1, <2>1, OldestLeaves
    <2>8. Cardinality(Of(hour', Out)) \in Nat
      BY <1>1, <2>1, OfIsFinite, HourKept
    <2> QED
      BY <1>1, <1>2, <1>4, <2>5, <2>6, <2>7, <2>8
  <1>10. CASE UNCHANGED <<sending, hour>>
    BY <1>2, <1>3, <1>10
  <1>11. SendAlert \/ (\E answered \in BOOLEAN : LogAlert(answered)) \/ BridgeStops \/ Age
         \/ UNCHANGED <<sending, hour>>
    BY DEF alerts, Next, AgentStep, BridgeStep, vars, StartScan, Fetch, FetchFails, Known, Copy, Classify,
       ClassifyRaises, Refuse, AlertFails, Save, Ack, AckFails, LateAck, AgentStops,
       GoOffline, GoOnline, CoolDown, Arrive, Delete
  <1> QED
    BY <1>5, <1>7, <1>8, <1>9, <1>10, <1>11

(***************************************************************************)
(* What the phone was told.                                                *)
(***************************************************************************)
LEMMA Remembered ==
  ASSUME ScanTyped, RecordsSound, AlertsSound, [Next]_vars
  PROVE  \A mid : MessageProcessed(mid) => MessageProcessed(mid)'
  <1>1. CASE results' = results
    BY <1>1 DEF MessageProcessed
  <1>2. CASE scan.batch # {} /\ box' = box /\ \E alerted : results' = Saved(Current, alerted)
    BY <1>2, MailAtHand, SavedRows
  <1> QED
    BY <1>1, <1>2, ScanShape

\* A mail that leaves the batch was processed.
LEMMA TakenIsProcessed ==
  ASSUME ScanTyped, RecordsSound, AlertsSound, Known \/ Copy \/ Save
  PROVE  /\ box' = box /\ scan.batch # {} /\ scan'.batch = scan.batch \ {Current} /\ scan'.acked = Current[2]
         /\ scan'.pc = "item" /\ ~ scan'.alerted
         /\ \E r \in results' : r.mid = MailOf(Current).mid
  <1>1. scan \in ScanStates
    BY DEF ScanTyped
  <1>2. /\ NextItem(scan).pc = "item" /\ NextItem(scan).batch = scan.batch \ {Current}
        /\ NextItem(scan).acked = Current[2] /\ ~ NextItem(scan).alerted
    BY <1>1 DEF NextItem, ScanStates
  <1>3. LET s == [NextItem(scan) EXCEPT !.total = @ + 1]
        IN  /\ s.pc = "item" /\ s.batch = scan.batch \ {Current} /\ s.acked = Current[2] /\ ~ s.alerted
    BY <1>1 DEF NextItem, ScanStates
  <1>4. CASE Known
    <2>1. PICK r \in results : r.bid = Current
      BY <1>4 DEF Known, Processed
    <2>2. r.mid = MailOf(Current).mid /\ r \in results' /\ box' = box
      BY <1>4, <2>1 DEF Known, RecordsSound
    <2> QED
      BY <1>2, <1>4, <2>2 DEF Known
  <1>5. CASE Copy \/ Save
    <2>1. scan.batch # {} /\ box' = box /\ \E alerted : results' = Saved(Current, alerted)
      BY <1>5, MailAtHand DEF Copy, Save, AtItem
    <2>2. \E r \in results' : r.mid = MailOf(Current).mid
      BY <2>1, MailAtHand, SavedRows
    <2> QED
      BY <1>2, <1>3, <1>5, <2>1, <2>2 DEF Copy, Save
  <1> QED
    BY <1>4, <1>5

LEMMA SameMail ==
  ASSUME ScanTyped, RecordsSound, AlertsSound, [Next]_vars, scan'.batch = scan.batch, scan.batch # {}
  PROVE  MailOf(Current)'.mid = MailOf(Current).mid
  <1>0. regime' = regime
    BY ScanShape
  <1>1. Current' = Current
    BY <1>0 DEF Current, First, Before, Place
  <1>2. MailOf(Current)' = box'[Current[1]][Current[2]]
    BY <1>1 DEF MailOf
  <1>3. box'[Current[1]][Current[2]].mid = MailOf(Current).mid
    BY MailAtHand, RowsKept DEF MailOf
  <1> QED
    BY <1>2, <1>3

LEMMA AlertsStep ==
  ASSUME ScanTyped, RecordsSound, HourSound, AlertsSound, [Next]_vars
  PROVE  AlertsSound'
  <1> USE DEF Fine, Fault
  <1> DEFINE Heard(mid) == \/ \E r \in results' : r.mid = mid
                           \/ scan'.pc = "sending" /\ sending' = mid
                           \/ scan'.alerted /\ MailOf(Current)'.mid = mid
             Goal == /\ scan'.pc = "sending" => sending' = MailOf(Current)'.mid
                     /\ scan'.alerted => scan'.pc = "save"
                     /\ \A mid \in MessageIds : phone'[mid] <= blind'[mid] + IF Heard(mid) THEN 1 ELSE 0
  <1> SUFFICES Goal
    BY DEF AlertsSound, Told, MessageProcessed
  <1>1. scan \in ScanStates
    BY DEF ScanTyped
  <1>2. /\ phone \in [MessageIds -> Nat] /\ blind \in [MessageIds -> Nat]
    BY DEF ScanTyped
  <1>3. /\ At("sending") => sending = MailOf(Current).mid
        /\ scan.alerted => At("save")
        /\ \A mid \in MessageIds : phone[mid] <= blind[mid] + IF Told(mid) THEN 1 ELSE 0
    BY DEF AlertsSound
  <1>4. \A mid : MessageProcessed(mid) => \E r \in results' : r.mid = mid
    BY Remembered DEF MessageProcessed
  \* Nothing was told, nothing is.
  <1>5. ASSUME phone' = phone, blind' = blind, \A mid \in MessageIds : Told(mid) => Heard(mid),
               scan'.pc # "sending", ~ scan'.alerted
        PROVE  Goal
    <2> HIDE DEF Heard
    <2>1. \A mid \in MessageIds : phone[mid] <= blind[mid] + IF Heard(mid) THEN 1 ELSE 0
      BY <1>2, <1>3, <1>5
    <2> QED
      BY <1>5, <2>1
  <1>6. ASSUME phone' = phone, blind' = blind, scan'.pc # "sending", ~ scan'.alerted,
               ~ At("sending"), ~ scan.alerted
        PROVE  Goal
    <2>1. \A mid : Told(mid) => Heard(mid)
      BY <1>4, <1>6 DEF Told
    <2> QED
      BY <1>5, <1>6, <2>1
  <1>7. ASSUME phone' = phone, blind' = blind, scan' = scan, sending' = sending \/ ~ At("sending")
        PROVE  Goal
    <2>1. At("sending") \/ scan.alerted => MailOf(Current)'.mid = MailOf(Current).mid
      BY <1>7, MailAtHand, SameMail DEF AtItem
    <2>2. \A mid : Told(mid) => Heard(mid)
      BY <1>4, <1>7, <2>1 DEF Told
    <2>3. \A mid \in MessageIds : phone'[mid] <= blind'[mid] + IF Heard(mid) THEN 1 ELSE 0
      <3> HIDE DEF Heard
      <3> QED
        BY <1>2, <1>3, <1>7, <2>2
    <2> QED
      BY <1>3, <1>7, <2>1, <2>3
  <1>8. Idle.pc = "idle" /\ ~ Idle.alerted /\ [Idle EXCEPT !.pc = "fetch"].pc = "fetch"
        /\ ~ [Idle EXCEPT !.pc = "fetch"].alerted
    BY DEF Idle
  <1>9. \A p : [scan EXCEPT !.pc = p].pc = p /\ ([scan EXCEPT !.pc = p].alerted <=> scan.alerted)
               /\ [scan EXCEPT !.pc = p].batch = scan.batch
    BY <1>1 DEF ScanStates
  <1>10. Again(scan).pc \in {"alert", "save"} /\ (Again(scan).alerted <=> scan.alerted)
    BY <1>1 DEF Again, ScanStates
  <1> HIDE DEF Goal
  <1>11. CASE StartScan \/ FetchFails \/ AckFails
    <2>1. phone' = phone /\ blind' = blind
      BY <1>11 DEF StartScan, FetchFails, AckFails, alerts
    <2>2. scan'.pc # "sending" /\ ~ scan'.alerted
      BY <1>8, <1>11 DEF StartScan, FetchFails, AckFails
    <2>3. scan.pc \in {"idle", "fetch", "item", "ack"}
      BY <1>11 DEF StartScan, FetchFails, AckFails, Finished
    <2>4. ~ At("sending") /\ ~ scan.alerted
      BY <1>3, <2>3
    <2> QED
      BY <1>6, <2>1, <2>2, <2>4
  <1>12. CASE Fetch
    <2>1. phone' = phone /\ blind' = blind /\ scan.pc = "fetch"
      BY <1>12 DEF Fetch, alerts
    <2>2. ASSUME NEW batch, Fetched(batch)
          PROVE  scan'.pc # "sending" /\ (scan'.alerted => scan.alerted)
      BY <1>1, <1>8, <2>2 DEF Fetched, ScanStates
    <2>3. scan'.pc # "sending" /\ (scan'.alerted => scan.alerted)
      BY <1>8, <1>12, <2>2 DEF Fetch
    <2> QED
      BY <1>3, <1>6, <2>1, <2>3
  <1>13. CASE Known \/ Copy
    <2>1. phone' = phone /\ blind' = blind /\ scan.pc = "item"
      BY <1>13 DEF Known, Copy, alerts
    <2> QED
      BY <1>3, <1>6, <1>13, <2>1, TakenIsProcessed
  <1>14. CASE Classify
    <2>1. phone' = phone /\ blind' = blind /\ scan.pc = "item"
      BY <1>14 DEF Classify, alerts
    <2>2. scan'.pc # "sending" /\ (scan'.alerted => scan.alerted)
      BY <1>1, <1>14 DEF Classify, ScanStates
    <2> QED
      BY <1>3, <1>6, <2>1, <2>2
  <1>15. CASE ClassifyRaises
    <2>1. phone' = phone /\ blind' = blind /\ scan.pc = "item"
      BY <1>15 DEF ClassifyRaises, alerts
    <2>2. scan'.pc # "sending" /\ (scan'.alerted => scan.alerted)
      BY <1>1, <1>15 DEF ClassifyRaises, ScanStates
    <2> QED
      BY <1>3, <1>6, <2>1, <2>2
  <1>16. CASE Refuse \/ AlertFails
    <2>1. phone' = phone /\ blind' = blind /\ scan.pc = "alert"
      BY <1>16 DEF Refuse, AlertFails, alerts
    <2>2. scan'.pc # "sending" /\ (scan'.alerted => scan.alerted)
      BY <1>9, <1>10, <1>16 DEF Refuse, AlertFails
    <2> QED
      BY <1>3, <1>6, <2>1, <2>2
  <1>17. CASE Ack
    <2>1. phone' = phone /\ blind' = blind /\ scan.pc \in {"item", "ack"}
      BY <1>17 DEF Ack, Finished, alerts
    <2>2. scan'.pc # "sending" /\ (scan'.alerted => scan.alerted)
      BY <1>8, <1>9, <1>17 DEF Ack, NextBatch
    <2> QED
      BY <1>3, <1>6, <2>1, <2>2
  <1>18. CASE Save
    <2>1. phone' = phone /\ blind' = blind /\ scan.pc = "save"
      BY <1>18 DEF Save, alerts
    <2>2. scan'.pc # "sending" /\ ~ scan'.alerted /\ \E r \in results' : r.mid = MailOf(Current).mid
      BY <1>18, TakenIsProcessed
    <2>3. \A mid : Told(mid) => Heard(mid)
      BY <1>4, <2>1, <2>2 DEF Told
    <2> QED
      BY <1>5, <2>1, <2>2, <2>3
  <1>19. CASE LateAck \/ Arrive \/ Delete \/ GoOffline \/ GoOnline \/ Age
    <2>1. phone' = phone /\ blind' = blind /\ scan' = scan /\ sending' = sending
      BY <1>19 DEF LateAck, Arrive, Delete, GoOffline, GoOnline, Age, alerts
    <2> QED
      BY <1>7, <2>1
  <1>20. ASSUME NEW p \in DOMAIN breaker, CoolDown(p)
         PROVE  Goal
    <2>1. phone' = phone /\ blind' = blind /\ scan' = scan /\ sending' = sending
      BY <1>20 DEF CoolDown, alerts
    <2> QED
      BY <1>7, <2>1
  <1>21. CASE UNCHANGED vars
    <2>1. phone' = phone /\ blind' = blind /\ scan' = scan /\ sending' = sending
      BY <1>21 DEF vars, alerts
    <2> QED
      BY <1>7, <2>1
  <1>22. CASE SendAlert
    <2> DEFINE m == MailOf(Current).mid
    <2>1. /\ scan.pc = "alert" /\ sending' = m /\ phone' = [phone EXCEPT ![m] = @ + 1] /\ blind' = blind
          /\ scan'.pc = "sending" /\ scan'.batch = scan.batch /\ results' = results
          /\ scan'.alerted => scan.alerted
      BY <1>9, <1>22 DEF SendAlert
    <2>2. ~ MessageProcessed(m) /\ scan.batch # {} /\ m \in MessageIds
      BY <2>1, MailAtHand DEF RecordsSound, AtItem
    <2>3. MailOf(Current)'.mid = m
      BY <2>1, <2>2, SameMail
    <2>4. ~ Told(m) /\ ~ scan.alerted
      BY <1>3, <2>1, <2>2 DEF Told
    <2>5. \A mid : (Told(mid) => Heard(mid)) /\ Heard(m)
      BY <1>3, <1>4, <2>1 DEF Told
    <2>6. ASSUME NEW mid \in MessageIds
          PROVE  phone'[mid] <= blind'[mid] + IF Heard(mid) THEN 1 ELSE 0
      <3> HIDE DEF Heard, m
      <3>1. phone[mid] <= blind[mid] + IF Told(mid) THEN 1 ELSE 0
        BY <1>3
      <3>2. CASE mid = m
        BY <1>2, <2>1, <2>4, <2>5, <3>1, <3>2
      <3>3. CASE mid # m
        BY <1>2, <2>1, <2>5, <3>1, <3>3
      <3> QED
        BY <3>2, <3>3
    <2> QED
      BY <2>1, <2>3, <2>4, <2>6 DEF Goal
  \* The answer is lost, or the bridge stops: the agent will never know.
  <1>23. ASSUME At("sending"), sending' = None, phone' = phone, blind' = [blind EXCEPT ![sending] = @ + 1],
                scan'.pc # "sending", ~ scan'.alerted
         PROVE  Goal
    <2>1. sending \in MessageIds /\ ~ scan.alerted
      BY <1>3, <1>23, MailAtHand
    <2>2. \A mid : Told(mid) => Heard(mid) \/ mid = sending
      BY <1>4, <2>1 DEF Told
    <2>3. ASSUME NEW mid \in MessageIds
          PROVE  phone'[mid] <= blind'[mid] + IF Heard(mid) THEN 1 ELSE 0
      <3> HIDE DEF Heard
      <3>1. phone[mid] <= blind[mid] + IF Told(mid) THEN 1 ELSE 0
        BY <1>3
      <3>2. CASE mid = sending
        BY <1>2, <1>23, <2>1, <3>1, <3>2
      <3>3. CASE mid # sending
        BY <1>2, <1>23, <2>2, <3>1, <3>3
      <3> QED
        BY <3>2, <3>3
    <2> QED
      BY <1>23, <2>3 DEF Goal
  <1>24. ASSUME NEW answered \in BOOLEAN, LogAlert(answered)
         PROVE  Goal
    <2>1. sending # None /\ sending' = None /\ phone' = phone
      BY <1>24 DEF LogAlert
    <2>2. CASE ~ At("sending")
      <3>1. blind' = blind /\ scan' = scan
        BY <1>24, <2>2 DEF LogAlert
      <3> QED
        BY <1>7, <2>1, <2>2, <3>1
    <2>3. CASE At("sending") /\ ~ answered
      <3>1. blind' = [blind EXCEPT ![sending] = @ + 1] /\ scan' = Again(scan)
        BY <1>24, <2>3 DEF LogAlert
      <3> QED
        BY <1>3, <1>10, <1>23, <2>1, <2>3, <3>1
    <2>4. CASE At("sending") /\ answered
      <3>1. blind' = blind /\ scan' = [scan EXCEPT !.alerted = TRUE, !.pc = "save"]
        BY <1>24, <2>4 DEF LogAlert
      <3>2. scan'.alerted /\ scan'.pc = "save" /\ scan'.batch = scan.batch /\ scan.batch # {}
        BY <1>1, <2>4, <3>1, MailAtHand DEF ScanStates, AtItem
      <3>3. MailOf(Current)'.mid = sending
        BY <1>3, <2>4, <3>2, SameMail
      <3>4. \A mid : Told(mid) => Heard(mid)
        BY <1>3, <1>4, <2>4, <3>2, <3>3 DEF Told
      <3>5. \A mid \in MessageIds : phone'[mid] <= blind'[mid] + IF Heard(mid) THEN 1 ELSE 0
        <4> HIDE DEF Heard
        <4> QED
          BY <1>2, <1>3, <2>1, <3>1, <3>4
      <3> QED
        BY <3>2, <3>5 DEF Goal
    <2> QED
      BY <2>2, <2>3, <2>4
  <1>25. CASE BridgeStops
    <2>1. sending # None /\ sending' = None /\ phone' = phone
      BY <1>25 DEF BridgeStops
    <2>2. CASE At("sending")
      <3>1. blind' = [blind EXCEPT ![sending] = @ + 1] /\ scan' = Again(scan)
        BY <1>25, <2>2 DEF BridgeStops
      <3> QED
        BY <1>3, <1>10, <1>23, <2>1, <2>2, <3>1
    <2>3. CASE ~ At("sending")
      <3>1. blind' = blind /\ scan' = scan
        BY <1>25, <2>3 DEF BridgeStops
      <3> QED
        BY <1>7, <2>1, <2>3, <3>1
    <2> QED
      BY <2>2, <2>3
  <1>26. CASE AgentStops
    <2> DEFINE m == MailOf(Current).mid
    <2>1. phone' = phone /\ scan'.pc = "idle" /\ ~ scan'.alerted
      BY <1>8, <1>26 DEF AgentStops
    <2>2. blind' = IF scan.alerted THEN [blind EXCEPT ![m] = @ + 1]
                   ELSE IF At("sending") THEN [blind EXCEPT ![sending] = @ + 1] ELSE blind
      BY <1>26 DEF AgentStops
    <2>3. \A mid : Told(mid) => \/ Heard(mid)
                                \/ scan.alerted /\ mid = m
                                \/ ~ scan.alerted /\ At("sending") /\ mid = sending
      <3>1. ASSUME NEW mid, Told(mid), ~ MessageProcessed(mid)
            PROVE  \/ scan.alerted /\ mid = m
                   \/ ~ scan.alerted /\ At("sending") /\ mid = sending
        BY <1>3, <3>1 DEF Told
      <3>2. \A mid : MessageProcessed(mid) => Heard(mid)
        BY <1>4
      <3> HIDE DEF Heard, m
      <3> QED
        BY <3>1, <3>2
    <2>4. (scan.alerted => m \in MessageIds) /\ (At("sending") => sending \in MessageIds)
      BY MailAtHand
    <2>5. ASSUME NEW mid \in MessageIds
          PROVE  phone'[mid] <= blind'[mid] + IF Heard(mid) THEN 1 ELSE 0
      <3> HIDE DEF Heard, m
      <3>1. phone[mid] <= blind[mid] + IF Told(mid) THEN 1 ELSE 0
        BY <1>3
      <3>2. CASE scan.alerted
        BY <1>2, <2>1, <2>2, <2>3, <2>4, <3>1, <3>2
      <3>3. CASE ~ scan.alerted /\ At("sending")
        BY <1>2, <2>1, <2>2, <2>3, <2>4, <3>1, <3>3
      <3>4. CASE ~ scan.alerted /\ ~ At("sending")
        BY <1>2, <2>1, <2>2, <2>3, <3>1, <3>4
      <3> QED
        BY <3>2, <3>3, <3>4
    <2> QED
      BY <2>1, <2>5 DEF Goal
  <1> QED
    BY <1>11, <1>12, <1>13, <1>14, <1>15, <1>16, <1>17, <1>18, <1>19, <1>20, <1>21, <1>22, <1>24, <1>25, <1>26
    DEF Next, AgentStep, BridgeStep

(***************************************************************************)
(* What is acknowledged of Mail's database.                                *)
(***************************************************************************)
LEMMA OneMailbox ==
  ASSUME ScanTyped, regime.source = "mailapp"
  PROVE  /\ MailDb \in Accounts /\ ToSet(regime.accounts) = {MailDb} /\ Place(MailDb) \in Nat
         /\ Len(box[MailDb]) \in Nat /\ DOMAIN box[MailDb] = 1 .. Len(box[MailDb])
         /\ \A i \in 1 .. Len(box[MailDb]) : box[MailDb][i] \in MailRecords /\ <<MailDb, i>> \in AllRows
         /\ \A b \in AllRows : b = <<MailDb, b[2]>> /\ b[2] \in 1 .. Len(box[MailDb])
  <1>1. regime.accounts \in Seq(Accounts) /\ Len(regime.accounts) = 1
    BY Placed
  <1>2. DOMAIN regime.accounts = {1} /\ MailDb \in Accounts
    BY <1>1 DEF MailDb
  <1>3. ToSet(regime.accounts) = {MailDb}
    BY <1>2 DEF ToSet, MailDb
  <1>4. box[MailDb] \in Seq(MailRecords)
    BY <1>2 DEF ScanTyped
  <1>5. Len(box[MailDb]) \in Nat /\ DOMAIN box[MailDb] = 1 .. Len(box[MailDb])
        /\ \A i \in 1 .. Len(box[MailDb]) : box[MailDb][i] \in MailRecords
    BY <1>4
  <1>6. \A i \in 1 .. Len(box[MailDb]) : <<MailDb, i>> \in AllRows
    BY <1>3, <1>5 DEF AllRows, Rows
  <1>7. \A b \in AllRows : b = <<MailDb, b[2]>> /\ b[2] \in 1 .. Len(box[MailDb])
    BY <1>3, <1>5, RowFacts
  <1> QED
    BY <1>2, <1>3, <1>5, <1>6, <1>7, Placed

LEMMA OrderOfRows ==
  ASSUME ScanTyped, regime.source = "mailapp"
  PROVE  \A b, c \in AllRows : Before(b, c) <=> b[2] < c[2]
  <1> SUFFICES ASSUME NEW b \in AllRows, NEW c \in AllRows
               PROVE  Before(b, c) <=> b[2] < c[2]
    OBVIOUS
  <1>1. b[1] = MailDb /\ c[1] = MailDb /\ Place(MailDb) \in Nat
    BY OneMailbox
  <1> HIDE DEF MailDb
  <1> QED
    BY <1>1 DEF Before

\* The rows fetched are the first of those wanted.
LEMMA NoneLeftOut ==
  ASSUME ScanTyped, regime.source = "mailapp", NEW bid \in FromMail, NEW i \in 1 .. bid[2],
         Wanted(<<MailDb, i>>)
  PROVE  <<MailDb, i>> \in FromMail
  <1> DEFINE wanted == {b \in AllRows : Wanted(b)}
             Sooner(b) == {c \in wanted : Before(c, b)}
             row == <<MailDb, i>>
  <1>1. bid \in wanted /\ Cardinality(Sooner(bid)) < MaxBatch
    BY DEF FromMail, Earliest
  <1>2. bid[2] \in 1 .. Len(box[MailDb]) /\ Len(box[MailDb]) \in Nat
    BY <1>1, OneMailbox
  <1>3. i \in 1 .. Len(box[MailDb])
    BY <1>2
  <1>4. row \in wanted
    BY <1>3, OneMailbox
  <1>5. Sooner(row) \subseteq Sooner(bid)
    <2> SUFFICES ASSUME NEW c \in wanted, Before(c, row)
                 PROVE  Before(c, bid)
      OBVIOUS
    <2>1. c[2] < i /\ c[2] \in 1 .. Len(box[MailDb])
      BY <1>4, OrderOfRows, OneMailbox
    <2>2. c[2] < bid[2]
      BY <1>2, <2>1
    <2> QED
      BY <1>1, <2>2, OrderOfRows
  <1>6. IsFiniteSet(wanted)
    <2> DEFINE f == [b \in wanted |-> b[2]]
    <2>1. \A b \in wanted : b = <<MailDb, b[2]>> /\ b[2] \in 1 .. Len(box[MailDb])
      BY OneMailbox
    <2>2. f \in Injection(wanted, 1 .. Len(box[MailDb]))
      <3> HIDE DEF wanted
      <3> QED
        BY <2>1 DEF Injection, IsInjective
    <2>3. IsFiniteSet(1 .. Len(box[MailDb]))
      BY <1>2, FS_Interval
    <2> HIDE DEF f, wanted
    <2> QED
      BY <2>2, <2>3, FS_Injection
  <1>7. IsFiniteSet(Sooner(bid)) /\ Cardinality(Sooner(bid)) \in Nat
    <2> HIDE DEF wanted
    <2>1. Sooner(bid) \in SUBSET wanted
      OBVIOUS
    <2>2. IsFiniteSet(Sooner(bid))
      BY <1>6, <2>1, FS_Subset
    <2> QED
      BY <2>2, FS_CardinalityType
  <1>8. Cardinality(Sooner(row)) <= Cardinality(Sooner(bid)) /\ Cardinality(Sooner(row)) \in Nat
    <2> HIDE DEF Sooner
    <2> QED
      BY <1>5, <1>7, FS_Subset, FS_CardinalityType
  <1>9. Cardinality(Sooner(row)) < MaxBatch
    BY <1>1, <1>7, <1>8, ScanAssumption
  <1> QED
    BY <1>4, <1>9 DEF FromMail, Earliest

LEMMA AckShape ==
  ASSUME ScanTyped, RecordsSound, [Next]_vars
  PROVE  /\ \/ scan'.acked \in {scan.acked, 0} /\ scan'.batch \in {scan.batch, {}}
            \/ Known \/ Copy \/ Save
            \/ Fetch
         /\ ack' \in {ack, scan.acked} \cup lateAcks
         /\ lateAcks' \subseteq lateAcks \cup {scan.acked}
  <1> DEFINE Goal == /\ \/ scan'.acked \in {scan.acked, 0} /\ scan'.batch \in {scan.batch, {}}
                        \/ Known \/ Copy \/ Save
                        \/ Fetch
                     /\ ack' \in {ack, scan.acked} \cup lateAcks
                     /\ lateAcks' \subseteq lateAcks \cup {scan.acked}
  <1> SUFFICES Goal
    OBVIOUS
  <1> USE DEF Fine, Fault, bridge
  <1>1. scan \in ScanStates
    BY DEF ScanTyped
  <1>2. \A p : [scan EXCEPT !.pc = p].acked = scan.acked /\ [scan EXCEPT !.pc = p].batch = scan.batch
    BY <1>1 DEF ScanStates
  <1>3. Idle.acked = 0 /\ Idle.batch = {} /\ [Idle EXCEPT !.pc = "fetch"].acked = 0
        /\ [Idle EXCEPT !.pc = "fetch"].batch = {}
    BY DEF Idle
  <1>4. Again(scan).acked = scan.acked /\ Again(scan).batch = scan.batch
    BY <1>1 DEF Again, ScanStates
  <1>5. CASE StartScan \/ FetchFails \/ AgentStops
    BY <1>3, <1>5 DEF StartScan, FetchFails, AgentStops
  <1>6. CASE AckFails
    BY <1>3, <1>6 DEF AckFails
  <1>7. CASE Fetch
    BY <1>7 DEF Fetch
  <1>8. CASE Known \/ Copy \/ Save
    BY <1>8 DEF Known, Copy, Save
  <1>9. CASE Classify
    <2>1. scan'.acked = scan.acked /\ scan'.batch = scan.batch
      BY <1>1, <1>9 DEF Classify, ScanStates
    <2> QED
      BY <1>9, <2>1 DEF Classify
  <1>10. CASE ClassifyRaises
    <2>1. scan'.acked = scan.acked /\ scan'.batch = {}
      BY <1>1, <1>10 DEF ClassifyRaises, ScanStates
    <2> QED
      BY <1>10, <2>1 DEF ClassifyRaises
  <1>11. CASE Refuse \/ SendAlert \/ AlertFails
    BY <1>2, <1>4, <1>11 DEF Refuse, SendAlert, AlertFails
  <1>12. CASE BridgeStops
    BY <1>4, <1>12 DEF BridgeStops
  <1>13. ASSUME NEW answered \in BOOLEAN, LogAlert(answered)
         PROVE  Goal
    <2>1. [scan EXCEPT !.alerted = TRUE, !.pc = "save"].acked = scan.acked
          /\ [scan EXCEPT !.alerted = TRUE, !.pc = "save"].batch = scan.batch
      BY <1>1 DEF ScanStates
    <2> QED
      BY <1>4, <1>13, <2>1 DEF LogAlert
  <1>14. CASE Ack
    <2>1. scan'.acked \in {scan.acked, 0} /\ scan'.batch \in {scan.batch, {}}
      BY <1>2, <1>3, <1>14 DEF Ack, NextBatch
    <2> QED
      BY <1>14, <2>1 DEF Ack
  <1>15. CASE LateAck
    BY <1>15 DEF LateAck
  <1>16. CASE Arrive \/ Delete \/ GoOffline \/ GoOnline \/ Age
    BY <1>16 DEF Arrive, Delete, GoOffline, GoOnline, Age
  <1>17. ASSUME NEW p \in DOMAIN breaker, CoolDown(p)
         PROVE  Goal
    BY <1>17 DEF CoolDown
  <1>18. CASE UNCHANGED vars
    BY <1>18 DEF vars
  <1> HIDE DEF Goal
  <1> QED
    BY <1>5, <1>6, <1>7, <1>8, <1>9, <1>10, <1>11, <1>12, <1>13, <1>14, <1>15, <1>16, <1>17, <1>18
    DEF Next, AgentStep, BridgeStep

LEMMA AcksStep ==
  ASSUME ScanTyped, RecordsSound, AlertsSound, AcksSound, [Next]_vars
  PROVE  AcksSound'
  <1> DEFINE db == MailDb
             Gone(i) == \/ box'[db][i].old \/ box'[db][i].deleted
                        \/ \E r \in results' : r.mid = box'[db][i].mid
             Done(n) == n <= Len(box'[db]) /\ \A i \in 1 .. n : Gone(i)
  <1>1. regime' = regime
    BY ScanShape
  <1> SUFFICES ASSUME regime.source = "mailapp"
               PROVE  /\ Done(ack') /\ Done(scan'.acked)
                      /\ \A n \in lateAcks' : Done(n)
                      /\ \A bid \in scan'.batch : \A i \in 1 .. bid[2] : Gone(i) \/ <<db, i>> \in scan'.batch
    BY <1>1 DEF AcksSound, UpTo, Passed, MessageProcessed, MailDb
  <1>2. /\ UpTo(ack) /\ UpTo(scan.acked) /\ \A n \in lateAcks : UpTo(n)
        /\ \A bid \in scan.batch : \A i \in 1 .. bid[2] : Passed(i) \/ <<db, i>> \in scan.batch
    BY DEF AcksSound
  <1>3. ack \in Nat /\ lateAcks \subseteq Nat /\ scan.acked \in Nat
    BY DEF ScanTyped, ScanStates
  <1>4. /\ db \in Accounts /\ Len(box[db]) \in Nat /\ DOMAIN box[db] = 1 .. Len(box[db])
        /\ \A b \in AllRows : b = <<db, b[2]>> /\ b[2] \in 1 .. Len(box[db])
    BY OneMailbox
  <1>5. /\ Len(box'[db]) \in Nat /\ Len(box'[db]) >= Len(box[db])
        /\ \A i \in 1 .. Len(box[db]) :
             /\ box'[db][i].mid = box[db][i].mid /\ box'[db][i].old = box[db][i].old
             /\ box[db][i].deleted => box'[db][i].deleted
    <2>1. CASE box' = box
      BY <1>4, <2>1
    <2>2. CASE Arrive \/ Delete
      BY <1>4, <2>2, BoxGrows
    <2> QED
      BY <2>1, <2>2, ScanShape
  <1>6. ASSUME NEW i \in 1 .. Len(box[db]), Passed(i)
        PROVE  Gone(i)
    <2>1. MessageProcessed(box[db][i].mid) => \E r \in results' : r.mid = box'[db][i].mid
      BY <1>5, Remembered DEF MessageProcessed
    <2> QED
      BY <1>5, <1>6, <2>1 DEF Passed
  <1>7. ASSUME NEW n \in Nat, UpTo(n)
        PROVE  Done(n)
    <2>1. n <= Len(box[db]) /\ \A i \in 1 .. n : Passed(i)
      BY <1>7 DEF UpTo
    <2>2. \A i \in 1 .. n : i \in 1 .. Len(box[db])
      BY <1>4, <2>1
    <2>3. n <= Len(box'[db])
      BY <1>4, <1>5, <2>1
    <2> HIDE DEF Gone
    <2> QED
      BY <1>6, <2>1, <2>2, <2>3
  <1> HIDE DEF db, Gone
  <1>8. Done(0)
    <2>1. 0 <= Len(box'[db])
      BY <1>5
    <2> QED
      BY <2>1
  <1> HIDE DEF Done
  <1>9. ack' \in Nat /\ Done(ack') /\ \A n \in lateAcks' : Done(n)
    BY <1>2, <1>3, <1>7, AckShape
  <1>10. \A bid \in scan.batch : bid = <<db, bid[2]>> /\ bid[2] \in 1 .. Len(box[db]) /\ bid \in AllRows
    BY <1>4 DEF RecordsSound
  <1>11. \A bid \in scan.batch : \A i \in 1 .. bid[2] : Gone(i) \/ <<db, i>> \in scan.batch
    <2> SUFFICES ASSUME NEW bid \in scan.batch, NEW i \in 1 .. bid[2]
                 PROVE  Gone(i) \/ <<db, i>> \in scan.batch
      OBVIOUS
    <2>1. i \in 1 .. Len(box[db])
      BY <1>4, <1>10
    <2> QED
      BY <1>2, <1>6, <2>1
  <1>12. CASE scan'.acked \in {scan.acked, 0} /\ scan'.batch \in {scan.batch, {}}
    BY <1>2, <1>3, <1>7, <1>8, <1>9, <1>11, <1>12
  <1>13. CASE Known \/ Copy \/ Save
    <2>1. /\ box' = box /\ scan.batch # {} /\ scan'.batch = scan.batch \ {Current} /\ scan'.acked = Current[2]
          /\ \E r \in results' : r.mid = MailOf(Current).mid
      BY <1>13, TakenIsProcessed
    <2>2. Current \in scan.batch /\ \A c \in scan.batch \ {Current} : Before(Current, c)
      BY <2>1, FirstMail
    <2>3. Current = <<db, Current[2]>> /\ Current[2] \in 1 .. Len(box[db])
      BY <1>10, <2>2
    <2>4. Gone(Current[2])
      <3>1. MailOf(Current) = box'[db][Current[2]]
        BY <2>1, <2>3 DEF MailOf
      <3> QED
        BY <2>1, <3>1 DEF Gone
    <2>5. ASSUME NEW i \in 1 .. Current[2]
          PROVE  Gone(i)
      <3>1. CASE i = Current[2]
        BY <2>4, <3>1
      <3>2. CASE i # Current[2] /\ <<db, i>> \in scan.batch
        <4> DEFINE row == <<db, i>>
        <4>1. row # Current /\ row[2] = i
          BY <2>3, <3>2
        <4>2. Before(Current, row) /\ Current \in AllRows /\ row \in AllRows
          BY <1>10, <2>2, <3>2, <4>1
        <4>3. Current[2] < i
          <5> HIDE DEF row
          <5> QED
            BY <4>1, <4>2, OrderOfRows
        <4> QED
          BY <1>4, <2>3, <4>3
      <3> QED
        BY <1>11, <2>2, <3>1, <3>2
    <2>6. Done(scan'.acked)
      <3>1. Current[2] <= Len(box'[db])
        BY <1>4, <1>5, <2>3
      <3> QED
        BY <2>1, <2>5, <3>1 DEF Done
    <2>7. ASSUME NEW bid \in scan'.batch, NEW i \in 1 .. bid[2]
          PROVE  Gone(i) \/ <<db, i>> \in scan'.batch
      <3>1. Gone(i) \/ <<db, i>> \in scan.batch
        BY <1>11, <2>1
      <3>2. <<db, i>> = Current => i = Current[2]
        BY <2>3
      <3> QED
        BY <2>1, <2>4, <3>1, <3>2
    <2> QED
      BY <1>9, <2>6, <2>7
  <1>14. CASE Fetch
    <2>1. CASE scan' = Idle
      <3>1. scan'.acked = 0 /\ scan'.batch = {}
        BY <2>1 DEF Idle
      <3> QED
        BY <1>8, <1>9, <3>1
    <2>2. CASE scan' # Idle
      <3>1. Fetched(FromMail) /\ box' = box
        BY <1>14, <2>2 DEF Fetch
      <3>2. scan'.batch = FromMail /\ scan'.acked = 0
        <4>1. scan \in ScanStates
          BY DEF ScanTyped
        <4> QED
          BY <2>2, <3>1, <4>1 DEF Fetched, ScanStates
      <3>3. ASSUME NEW bid \in FromMail, NEW i \in 1 .. bid[2], ~ Gone(i)
            PROVE  <<db, i>> \in FromMail
        <4>1. i \in 1 .. Len(box[db])
          BY <1>4, FetchedRows
        <4>2. ~ Passed(i)
          BY <1>6, <3>3, <4>1
        <4>3. ~ box[db][i].old /\ ~ box[db][i].deleted
          BY <4>2 DEF Passed, db
        <4>4. i > ack
          <5>1. i \in Nat \ {0} /\ \A j \in 1 .. ack : Passed(j)
            BY <1>2, <4>1 DEF UpTo
          <5> QED
            BY <1>3, <4>2, <5>1
        <4>5. Wanted(<<db, i>>)
          BY <4>3, <4>4 DEF Wanted, MailOf
        <4> QED
          BY <4>5, NoneLeftOut DEF db
      <3> QED
        BY <1>8, <1>9, <3>2, <3>3
    <2> QED
      BY <2>1, <2>2
  <1> QED
    BY <1>12, <1>13, <1>14, AckShape

LEMMA ScanInitInductive == Init => ScanInv
  <1> SUFFICES ASSUME Init
               PROVE  ScanInv
    OBVIOUS
  <1>1. ScanTyped
    <2>1. hour \in Seq(Outcomes) /\ box \in [Accounts -> Seq(MailRecords)]
      BY DEF Init
    <2> QED
      BY <2>1, IdleScan DEF Init, ScanTyped
  <1>2. RecordsSound
    BY DEF Init, RecordsSound, Idle, AtItem
  <1>3. HourSound
    <2>1. InHour({"sent", "logged"}) = {} /\ DOMAIN hour = {} /\ sending = None
      BY DEF Init, InHour
    <2> QED
      <3>1. Cardinality(InHour({"sent", "logged"})) = 0 /\ MaxAlerts \in Nat
        BY <2>1, FS_EmptySet, ScanAssumption
      <3> QED
        BY <2>1, <3>1 DEF HourSound, AlertBudget
  <1>4. AlertsSound
    BY DEF Init, AlertsSound, Idle
  <1>5. AcksSound
    <2> SUFFICES ASSUME regime.source = "mailapp"
                 PROVE  UpTo(0)
      BY DEF Init, AcksSound, Idle
    <2> QED
      BY <1>1, OneMailbox DEF UpTo
  <1> QED
    BY <1>1, <1>2, <1>3, <1>4, <1>5 DEF ScanInv

LEMMA ScanNextInductive == ScanInv /\ [Next]_vars => ScanInv'
  BY ScanTypedStep, RecordsStep, HourStep, AlertsStep, AcksStep DEF ScanInv

(***************************************************************************)
(* In every state of the scan: no mail up to the row acknowledged is       *)
(* skipped, whichever of the acknowledgements given up is served last      *)
(* (orchestrator.py:216); a mail, its copies included, raises one alert,   *)
(* and one more only for each alert whose answer or record was lost        *)
(* (orchestrator.py:147); the alerts of an hour stay within the limit      *)
(* (rate_limit.py:33).                                                     *)
(***************************************************************************)
THEOREM ScanSound == Spec => []ScanIsSound
  <1>1. ScanInv => ScanIsSound
    <2> SUFFICES ASSUME ScanInv
                 PROVE  ScanIsSound
      OBVIOUS
    <2> USE DEF ScanInv
    <2>1. MTypeOK
      <3>1. hour \in Seq({"sent", "logged", "stopped"})
        BY DEF ScanTyped, Outcomes
      <3>2. \A bid \in scan.batch : bid[2] \in DOMAIN box[bid[1]]
        BY RowFacts DEF RecordsSound
      <3>3. \A a \in Accounts : box[a] \in Seq([mid : MessageIds, class : Classes, old : BOOLEAN, deleted : BOOLEAN])
        BY DEF ScanTyped, MailRecords
      <3>4. \A r \in results :
              r.bid[1] \in Accounts /\ r.bid[2] \in DOMAIN box[r.bid[1]] /\ r.mid = MailOf(r.bid).mid
        BY DEF RecordsSound
      <3> QED
        BY <3>1, <3>2, <3>3, <3>4 DEF MTypeOK, ScanTyped
    <2>2. AckedAreProcessed
      <3> SUFFICES ASSUME regime.source = "mailapp", NEW a \in Accounts, NEW i \in DOMAIN box[a],
                          i <= ack, ~ box[a][i].old, ~ box[a][i].deleted
                   PROVE  MessageProcessed(box[a][i].mid)
        BY DEF AckedAreProcessed
      <3>1. box[a] \in Seq(MailRecords)
        BY DEF ScanTyped
      <3>2. box[a] # <<>> /\ i \in Nat \ {0}
        BY <3>1
      <3>3. a = MailDb
        BY <3>2, OneMailbox DEF RecordsSound
      <3>4. i \in 1 .. ack /\ UpTo(ack)
        BY <3>2 DEF AcksSound, ScanTyped
      <3> QED
        BY <3>3, <3>4 DEF UpTo, Passed
    <2>3. AlertedOnce
      <3>1. \A mid \in MessageIds : phone[mid] \in Nat /\ blind[mid] \in Nat
        BY DEF ScanTyped
      <3>2. \A mid \in MessageIds : phone[mid] <= blind[mid] + IF Told(mid) THEN 1 ELSE 0
        BY DEF AlertsSound
      <3> QED
        BY <3>1, <3>2 DEF AlertedOnce
    <2> QED
      BY <2>1, <2>2, <2>3 DEF ScanIsSound, HourSound
  <1> QED
    BY <1>1, ScanInitInductive, ScanNextInductive, PTL DEF Spec
=============================================================================
