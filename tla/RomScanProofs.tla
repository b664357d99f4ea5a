---------------------------- MODULE RomScanProofs ----------------------------
(***************************************************************************)
(* Proofs about RomScan, for any directories and consoles, any number of   *)
(* rotations and any number of scans.                                      *)
(***************************************************************************)
EXTENDS RomScan, SequenceTheorems, TLAPS

\* Scans are submitted in order, each by the activity that was on the screen.
Submitted ==
    \A s \in Scans :
        IF s <= romScanTask THEN status[s] # "new" /\ owner[s] \in 1 .. live
                            ELSE status[s] = "new" /\ owner[s] = 0

\* How the state of a Future and the place in its task's body go together; a
\* cancelled one may be anywhere.
Bodies ==
    \A s \in Scans :
        /\ status[s] \in {"new", "queued"} => step[s] = 0 /\ rest[s] = {}
        /\ status[s] = "running" => InBody(s)
        /\ status[s] = "done" => step[s] = Over
        /\ \A f \in rest[s] : ConsoleOf[f] = wanted[s]

\* A message is the last act of its task, and the only one.
Mail ==
    /\ \A i \in 1 .. Len(mailbox) :
         /\ step[mailbox[i].scan] = Over
         /\ status[mailbox[i].scan] \notin {"queued", "running"}
    /\ \A i, j \in 1 .. Len(mailbox) : mailbox[i].scan = mailbox[j].scan => i = j

\* Only the last scan of an activity may be outstanding: the button is disabled
\* until it is over.
LastOwes ==
    \A s, r \in Scans : Owes(s) /\ r > s => owner[r] # owner[s]

\* The dialog is opened by the message that enables the button, and it is modal.
DialogInv == shown # <<>> => enabled /\ shown = foundRoms[live]

IInv ==
    /\ TypeOK
    /\ Submitted /\ Bodies /\ Mail /\ LastOwes
    /\ DisabledWhileScanning /\ DialogInv /\ FoundIsWanted

-----------------------------------------------------------------------------
LEMMA DirFacts ==
  /\ Len(Dirs) \in Nat /\ Len(Dirs) >= 1 /\ Over = Len(Dirs) + 1
  /\ \A i \in 1 .. Len(Dirs) : Dirs[i] \subseteq Files
  BY DirsAssumption DEF Over

\* A message that is posted is in the mailbox, behind the others.
LEMMA Posting ==
  ASSUME mailbox \in Seq(Messages), NEW m \in Messages, mailbox' = Append(mailbox, m)
  PROVE  /\ mailbox' \in Seq(Messages) /\ Len(mailbox') = Len(mailbox) + 1
         /\ Len(mailbox) \in Nat
         /\ \A i \in 1 .. Len(mailbox) : mailbox'[i] = mailbox[i]
         /\ mailbox'[Len(mailbox) + 1] = m
         /\ \A s : Posted(s)' <=> Posted(s) \/ s = m.scan
<1>1. /\ mailbox' \in Seq(Messages) /\ Len(mailbox') = Len(mailbox) + 1
      /\ Len(mailbox) \in Nat
      /\ \A i \in 1 .. Len(mailbox) : mailbox'[i] = mailbox[i]
      /\ mailbox'[Len(mailbox) + 1] = m
  BY AppendProperties
<1> QED
  BY <1>1 DEF Posted

\* The initial state satisfies the invariant: nothing was asked for.
LEMMA InitIInv == Init => IInv
<1> SUFFICES ASSUME Init PROVE IInv
  OBVIOUS
<1>1. TypeOK
  <2>1. <<>> \in Seq(Files) /\ <<>> \in Seq(Messages) /\ 1 \in Activities
    BY MaxAssumption DEF Activities
  <2>2. 0 \in 0 .. Len(Dirs) + 1 /\ 0 \in 0 .. MaxActivities /\ 0 \in 0 .. MaxScans
    BY MaxAssumption, DirFacts
  <2> QED
    BY <2>1, <2>2 DEF Init, TypeOK
<1>2. Submitted /\ Bodies /\ Mail
  BY MaxAssumption DEF Init, Submitted, Bodies, Mail, Scans
<1>3. \A s \in Scans : ~Owes(s)
  BY DirFacts DEF Init, Owes, Posted, InBody
<1>4. LastOwes /\ DisabledWhileScanning /\ DialogInv /\ FoundIsWanted
  BY <1>3 DEF Init, LastOwes, DisabledWhileScanning, DialogInv, FoundIsWanted
<1> QED
  BY <1>1, <1>2, <1>4 DEF IInv

-----------------------------------------------------------------------------
(* The task's body.                                                        *)

\* What a task that has begun is: submitted by an activity, and its last.
LEMMA BodyFacts ==
  ASSUME IInv, NEW s \in Scans, InBody(s)
  PROVE  /\ status[s] \in {"running", "cancelled"} /\ owner[s] \in Activities
         /\ ~Posted(s) /\ Owes(s)
         /\ step[s] \in 1 .. Len(Dirs)
<1>1. status[s] \in {"running", "cancelled"}
  <2>1. step[s] # 0 /\ step[s] # Over
    BY DirFacts DEF InBody
  <2>2. status[s] \in {"new", "queued", "running", "done", "cancelled"}
    BY DEF IInv, TypeOK
  <2> QED
    BY <2>1, <2>2 DEF IInv, Bodies
<1>2. owner[s] \in Activities
  BY <1>1, MaxAssumption DEF IInv, TypeOK, Submitted, Activities
<1>3. ~Posted(s)
  BY DirFacts DEF IInv, Mail, InBody, Posted
<1> QED
  BY <1>1, <1>2, <1>3 DEF Owes, InBody

\* Steps of a task that has posted nothing leave the messages of others alone.
LEMMA MailKept ==
  ASSUME IInv, NEW s \in Scans, ~Posted(s), UNCHANGED mailbox,
         \A r \in Scans \ {s} : step'[r] = step[r] /\ status'[r] = status[r]
  PROVE  Mail'
<1>1. \A i \in 1 .. Len(mailbox) : mailbox[i].scan \in Scans \ {s}
  <2> SUFFICES ASSUME NEW i \in 1 .. Len(mailbox) PROVE mailbox[i].scan \in Scans \ {s}
    OBVIOUS
  <2>1. mailbox[i] \in Messages
    BY ElementOfSeq DEF IInv, TypeOK
  <2>2. mailbox[i].scan # s
    BY DEF Posted
  <2> QED
    BY <2>1, <2>2 DEF Messages
<1> QED
  BY <1>1 DEF IInv, Mail

\* A task's step settles no debt: its message does not come before its end.
LEMMA BeginStep ==
  ASSUME IInv, NEW s \in Scans, Begin(s), UNCHANGED <<live, crashed>>
  PROVE  IInv'
<1>1. TypeOK /\ status[s] = "queued" /\ step[s] = 0
  BY DEF IInv, Bodies, Begin
<1>2. TypeOK'
  BY <1>1, DirFacts DEF TypeOK, Begin, FindRomFiles, activityVars
<1>3. /\ status' = [status EXCEPT ![s] = "running"] /\ step' = [step EXCEPT ![s] = 1]
      /\ rest' = [rest EXCEPT ![s] = {f \in Dirs[1] : ConsoleOf[f] = wanted[s]}]
      /\ UNCHANGED <<live, crashed, romScanTask, owner, wanted, interrupted, mailbox,
                     selectedConsole, enabled, foundRoms, shown>>
  BY DEF Begin, FindRomFiles, activityVars
<1>4. Submitted' /\ Bodies'
  BY <1>1, <1>3, DirFacts DEF IInv, TypeOK, Submitted, Bodies, InBody
<1>5. Mail'
  <2>1. ~Posted(s)
    BY <1>1, DirFacts DEF IInv, Mail, Posted
  <2>2. \A r \in Scans \ {s} : step'[r] = step[r] /\ status'[r] = status[r]
    BY <1>1, <1>3 DEF TypeOK
  <2> QED
    BY <1>3, <2>1, <2>2, MailKept
<1>6. \A r \in Scans : Owes(r)' <=> Owes(r)
  BY <1>1, <1>3, DirFacts DEF TypeOK, Owes, Posted, InBody
<1>7. LastOwes' /\ DisabledWhileScanning'
  BY <1>3, <1>6 DEF IInv, LastOwes, DisabledWhileScanning
<1>8. DialogInv' /\ FoundIsWanted'
  BY <1>3 DEF IInv, DialogInv, FoundIsWanted
<1> QED
  BY <1>2, <1>4, <1>5, <1>7, <1>8 DEF IInv
LEMMA ReportStep ==
  ASSUME IInv, NEW s \in Scans, Report(s), UNCHANGED <<live, crashed>>
  PROVE  IInv'
<1> DEFINE a == owner[s]
<1>1. PICK f \in rest[s] :
        /\ foundRoms' = [foundRoms EXCEPT ![a] = Append(@, f)]
        /\ rest' = [rest EXCEPT ![s] = @ \ {f}]
  BY DEF Report
<1>2. UNCHANGED <<live, crashed, romScanTask, owner, wanted, status, step, interrupted, mailbox,
                  selectedConsole, enabled, shown>>
  BY DEF Report
<1>3. /\ TypeOK /\ a \in Activities /\ InBody(s) /\ Owes(s)
      /\ f \in Files /\ ConsoleOf[f] = wanted[s]
  BY BodyFacts DEF IInv, TypeOK, Bodies, Report
<1>4. foundRoms[a] \in Seq(Files) /\ Append(foundRoms[a], f) \in Seq(Files)
  BY <1>3, AppendProperties DEF TypeOK
<1>5. TypeOK'
  <2>1. foundRoms' \in [Activities -> Seq(Files)]
    BY <1>1, <1>3, <1>4 DEF TypeOK
  <2>2. rest' \in [Scans -> SUBSET Files]
    BY <1>1, <1>3 DEF TypeOK
  <2> QED
    BY <1>2, <1>3, <2>1, <2>2 DEF TypeOK
<1>6. Submitted' /\ Mail' /\ LastOwes' /\ DisabledWhileScanning'
  BY <1>2 DEF IInv, Submitted, Mail, LastOwes, DisabledWhileScanning, Owes, Posted, InBody
<1>7. Bodies'
  BY <1>1, <1>2, <1>3 DEF IInv, TypeOK, Bodies, InBody
<1>8. DialogInv'
  <2>1. a = live => ~enabled
    BY <1>3 DEF IInv, DisabledWhileScanning
  <2>2. a # live => foundRoms'[live] = foundRoms[live]
    BY <1>1, <1>3 DEF TypeOK
  <2> QED
    BY <1>2, <2>1, <2>2 DEF IInv, DialogInv
<1>9. FoundIsWanted'
  <2> SUFFICES ASSUME NEW b \in Activities, NEW i \in 1 .. Len(foundRoms'[b])
               PROVE  \E q \in Scans : /\ owner[q] = b
                                       /\ wanted[q] = ConsoleOf[foundRoms'[b][i]]
                                       /\ \A r \in Scans : r > q => owner[r] # b
    BY <1>2 DEF FoundIsWanted
  <2>1. CASE b # a \/ i \in 1 .. Len(foundRoms[b])
    <3>1. i \in 1 .. Len(foundRoms[b]) /\ foundRoms'[b][i] = foundRoms[b][i]
      BY <1>1, <1>3, <1>4, <2>1, AppendProperties DEF TypeOK
    <3> QED
      BY <3>1 DEF IInv, FoundIsWanted
  <2>2. CASE b = a /\ i \notin 1 .. Len(foundRoms[b])
    <3>1. foundRoms'[b][i] = f
      BY <1>1, <1>3, <1>4, <2>2, AppendProperties, LenProperties DEF TypeOK
    <3>2. \A r \in Scans : r > s => owner[r] # a
      BY <1>3 DEF IInv, LastOwes
    <3> QED
      BY <1>3, <2>2, <3>1, <3>2
  <2> QED
    BY <2>1, <2>2
<1> QED
  BY <1>5, <1>6, <1>7, <1>8, <1>9 DEF IInv

\* The last directory and an exception: the message takes the debt over.
LEMMA EndingStep ==
  ASSUME IInv, NEW s \in Scans, InBody(s), NEW m \in Messages, m.scan = s,
         step' = [step EXCEPT ![s] = Over], rest' = [rest EXCEPT ![s] = {}],
         status' = [status EXCEPT ![s] = IF @ = "running" THEN "done" ELSE @],
         mailbox' = Append(mailbox, m),
         UNCHANGED <<live, crashed, romScanTask, owner, wanted, interrupted,
                     selectedConsole, enabled, foundRoms, shown>>
  PROVE  IInv'
<1>1. /\ TypeOK /\ status[s] \in {"running", "cancelled"} /\ ~Posted(s) /\ Owes(s)
  BY BodyFacts DEF IInv
<1>2. /\ mailbox' \in Seq(Messages) /\ Len(mailbox') = Len(mailbox) + 1
      /\ Len(mailbox) \in Nat
      /\ \A i \in 1 .. Len(mailbox) : mailbox'[i] = mailbox[i]
      /\ mailbox'[Len(mailbox) + 1] = m
      /\ \A r : Posted(r)' <=> Posted(r) \/ r = s
  BY <1>1, Posting DEF TypeOK
<1>3. /\ step'[s] = Over /\ status'[s] \in {"done", "cancelled"} /\ rest'[s] = {}
      /\ \A r \in Scans \ {s} :
            step'[r] = step[r] /\ status'[r] = status[r] /\ rest'[r] = rest[r]
  BY <1>1 DEF TypeOK
<1>4. TypeOK'
  BY <1>1, <1>2, DirFacts DEF TypeOK
<1>5. Submitted' /\ Bodies'
  BY <1>1, <1>3 DEF IInv, Submitted, Bodies, InBody
<1>6. Mail'
  <2>1. \A i \in 1 .. Len(mailbox) : mailbox[i].scan \in Scans \ {s}
    <3> SUFFICES ASSUME NEW i \in 1 .. Len(mailbox) PROVE mailbox[i].scan \in Scans \ {s}
      OBVIOUS
    <3>1. mailbox[i] \in Messages
      BY <1>1, ElementOfSeq DEF TypeOK
    <3> QED
      BY <1>1, <3>1 DEF Messages, Posted
  <2>2. \A i \in 1 .. Len(mailbox') : i \in 1 .. Len(mailbox) \/ i = Len(mailbox) + 1
    BY <1>2
  <2>3. \A i \in 1 .. Len(mailbox) : mailbox'[i] = mailbox[i] /\ i # Len(mailbox) + 1
    BY <1>2
  <2> QED
    BY <1>2, <1>3, <2>1, <2>2, <2>3 DEF IInv, Mail
<1>7. \A r \in Scans : Owes(r)' <=> Owes(r)
  BY <1>1, <1>2, <1>3 DEF Owes, InBody
<1>8. LastOwes' /\ DisabledWhileScanning'
  BY <1>7 DEF IInv, LastOwes, DisabledWhileScanning
<1>9. DialogInv' /\ FoundIsWanted'
  BY DEF IInv, DialogInv, FoundIsWanted
<1> QED
  BY <1>4, <1>5, <1>6, <1>8, <1>9 DEF IInv

LEMMA NextDirStep ==
  ASSUME IInv, NEW s \in Scans, NextDir(s), UNCHANGED <<live, crashed>>
  PROVE  IInv'
<1>1. /\ TypeOK /\ status[s] \in {"running", "cancelled"} /\ ~Posted(s)
      /\ InBody(s) /\ step[s] \in 1 .. Len(Dirs)
  BY BodyFacts DEF IInv, NextDir
<1>2. UNCHANGED <<live, crashed, romScanTask, owner, wanted, interrupted,
                  selectedConsole, enabled, foundRoms, shown>>
  BY DEF NextDir, activityVars
<1>3. CASE step[s] = Len(Dirs)
  <2>1. step' = [step EXCEPT ![s] = Over] /\ rest' = [rest EXCEPT ![s] = {}]
    BY <1>1, <1>3 DEF NextDir, Over, TypeOK
  <2>2. [scan |-> s, ok |-> TRUE] \in Messages
    BY DEF Messages
  <2> QED
    BY <1>1, <1>2, <1>3, <2>1, <2>2, EndingStep DEF NextDir
<1>4. CASE step[s] # Len(Dirs)
  <2>1. /\ UNCHANGED <<status, mailbox>>
        /\ step' = [step EXCEPT ![s] = @ + 1]
        /\ rest' = [rest EXCEPT ![s] = IF interrupted[s] THEN {} ELSE
                       {f \in Dirs[step[s] + 1] : ConsoleOf[f] = wanted[s]}]
    BY <1>4 DEF NextDir, FindRomFiles
  <2>2. step[s] + 1 \in 1 .. Len(Dirs)
    BY <1>1, <1>4, DirFacts
  <2>3. /\ step'[s] \in 1 .. Len(Dirs)
        /\ rest'[s] \subseteq Files /\ \A f \in rest'[s] : ConsoleOf[f] = wanted[s]
        /\ \A r \in Scans \ {s} : step'[r] = step[r] /\ rest'[r] = rest[r]
    BY <1>1, <2>1, <2>2, DirFacts DEF TypeOK
  <2>4. TypeOK'
    <3>1. step' \in [Scans -> 0 .. Len(Dirs) + 1] /\ rest' \in [Scans -> SUBSET Files]
      BY <1>1, <2>1, <2>2, <2>3, DirFacts DEF TypeOK
    <3> QED
      BY <1>1, <1>2, <2>1, <3>1 DEF TypeOK
  <2>5. Submitted' /\ Bodies'
    BY <1>1, <1>2, <2>1, <2>3 DEF IInv, Submitted, Bodies, InBody
  <2>6. Mail'
    BY <1>1, <2>1, <2>3, MailKept
  <2>7. \A r \in Scans : Owes(r)' <=> Owes(r)
    BY <1>1, <2>1, <2>3 DEF Owes, Posted, InBody
  <2>8. LastOwes' /\ DisabledWhileScanning'
    BY <1>2, <2>7 DEF IInv, LastOwes, DisabledWhileScanning
  <2>9. DialogInv' /\ FoundIsWanted'
    BY <1>2 DEF IInv, DialogInv, FoundIsWanted
  <2> QED
    BY <2>4, <2>5, <2>6, <2>8, <2>9 DEF IInv
<1> QED
  BY <1>3, <1>4

LEMMA FailStep ==
  ASSUME IInv, NEW s \in Scans, Fail(s), UNCHANGED <<live, crashed>>
  PROVE  IInv'
<1>1. [scan |-> s, ok |-> FALSE] \in Messages
  BY DEF Messages
<1> QED
  BY <1>1, EndingStep DEF Fail, activityVars
-----------------------------------------------------------------------------
(* The main thread.                                                        *)

LEMMA ScanStep ==
  ASSUME IInv, NEW s \in Scans, ScanForRoms(s)
  PROVE  IInv'
<1>1. TypeOK /\ enabled /\ shown = <<>> /\ s = romScanTask + 1 /\ romScanTask \in Nat
  BY MaxAssumption DEF IInv, TypeOK, ScanForRoms, Responsive
<1>2. /\ \A r \in Scans : status'[r] = IF r = s THEN "queued"
                                       ELSE IF r = romScanTask /\ status[r] \in {"queued", "running"}
                                            THEN "cancelled" ELSE status[r]
      /\ status' \in [Scans -> {"new", "queued", "running", "done", "cancelled"}]
      /\ interrupted' \in [Scans -> BOOLEAN]
  <2>1. CASE romScanTask # 0 /\ status[romScanTask] \in {"queued", "running"}
    <3>1. /\ status' = [[status EXCEPT ![romScanTask] = "cancelled"] EXCEPT ![s] = "queued"]
          /\ interrupted' = [interrupted EXCEPT ![romScanTask] = status[romScanTask] = "running"]
      BY <2>1 DEF ScanForRoms, Cancel
    <3>2. (status[romScanTask] = "running") \in BOOLEAN
      OBVIOUS
    <3> QED
      BY <1>1, <2>1, <3>1, <3>2 DEF TypeOK
  <2>2. CASE ~(romScanTask # 0 /\ status[romScanTask] \in {"queued", "running"})
    <3>1. status' = [status EXCEPT ![s] = "queued"] /\ interrupted' = interrupted
      BY <2>2 DEF ScanForRoms, Cancel
    <3>2. \A r \in Scans : ~(r = romScanTask /\ status[r] \in {"queued", "running"})
      BY <2>2, MaxAssumption DEF Scans
    <3> QED
      BY <1>1, <3>1, <3>2 DEF TypeOK
  <2> QED
    BY <2>1, <2>2
<1>3. /\ enabled' = FALSE /\ romScanTask' = s
      /\ foundRoms' = [foundRoms EXCEPT ![live] = <<>>]
      /\ owner' = [owner EXCEPT ![s] = live]
      /\ wanted' = [wanted EXCEPT ![s] = selectedConsole]
      /\ UNCHANGED <<live, crashed, selectedConsole, shown, step, rest, mailbox>>
  BY DEF ScanForRoms
<1>4. /\ owner'[s] = live /\ wanted'[s] = selectedConsole /\ live \in Activities
      /\ \A r \in Scans \ {s} : owner'[r] = owner[r] /\ wanted'[r] = wanted[r]
  BY <1>1, <1>3 DEF TypeOK
<1>5. status[s] = "new" /\ owner[s] = 0 /\ step[s] = 0 /\ rest[s] = {}
  BY <1>1 DEF IInv, Submitted, Bodies
<1>6. TypeOK'
  <2>1. romScanTask' \in 0 .. MaxScans /\ live \in 0 .. MaxActivities
    BY <1>1, <1>3, MaxAssumption DEF TypeOK, Scans, Activities
  <2>2. /\ foundRoms' \in [Activities -> Seq(Files)] /\ owner' \in [Scans -> 0 .. MaxActivities]
        /\ wanted' \in [Scans -> Consoles \cup {None}]
    BY <1>1, <1>3, <2>1 DEF TypeOK
  <2> QED
    BY <1>1, <1>2, <1>3, <2>1, <2>2 DEF TypeOK
<1>7. Submitted'
  <2>1. \A r \in Scans \ {s} : r <= s <=> r <= romScanTask
    BY <1>1, MaxAssumption DEF Scans
  <2>2. live \in 1 .. live
    BY <1>4, MaxAssumption DEF Activities
  <2> QED
    BY <1>1, <1>2, <1>3, <1>4, <2>1, <2>2 DEF IInv, Submitted
<1>8. Bodies'
  BY <1>2, <1>3, <1>4, <1>5 DEF IInv, Bodies, InBody
<1>9. Mail'
  <2>1. \A i \in 1 .. Len(mailbox) : mailbox[i].scan \in Scans \ {s}
    <3> SUFFICES ASSUME NEW i \in 1 .. Len(mailbox) PROVE mailbox[i].scan \in Scans \ {s}
      OBVIOUS
    <3>1. mailbox[i] \in Messages
      BY <1>1, ElementOfSeq DEF TypeOK
    <3>2. mailbox[i].scan # s
      BY <1>5, DirFacts DEF IInv, Mail
    <3> QED
      BY <3>1, <3>2 DEF Messages
  <2> QED
    BY <1>2, <1>3, <2>1 DEF IInv, Mail
<1>10. \A r \in Scans \ {s} : Owes(r)' => Owes(r) /\ owner[r] # live
  <2>1. \A r \in Scans \ {s} : Owes(r)' => Owes(r)
    BY <1>2, <1>3 DEF Owes, Posted, InBody
  <2> QED
    BY <1>1, <2>1 DEF IInv, DisabledWhileScanning
<1>11. LastOwes'
  <2> SUFFICES ASSUME NEW p \in Scans, NEW r \in Scans, Owes(p)', r > p
               PROVE  owner'[r] # owner'[p]
    BY DEF LastOwes
  <2>1. CASE p = s
    <3>1. r > romScanTask /\ r # s /\ ~(r <= romScanTask)
      BY <1>1, <2>1, MaxAssumption DEF Scans
    <3> QED
      BY <1>4, <2>1, <3>1 DEF IInv, Submitted, Activities
  <2>2. CASE p # s /\ r = s
    BY <1>4, <1>10, <2>2
  <2>3. CASE p # s /\ r # s
    BY <1>4, <1>10, <2>3 DEF IInv, LastOwes
  <2> QED
    BY <2>1, <2>2, <2>3
<1>12. DisabledWhileScanning'
  BY <1>2, <1>3, <1>4 DEF DisabledWhileScanning, Owes
<1>13. DialogInv'
  BY <1>1, <1>3 DEF DialogInv
<1>14. FoundIsWanted'
  <2> SUFFICES ASSUME NEW b \in Activities, NEW i \in 1 .. Len(foundRoms'[b])
               PROVE  \E q \in Scans : /\ owner'[q] = b
                                       /\ wanted'[q] = ConsoleOf[foundRoms'[b][i]]
                                       /\ \A r \in Scans : r > q => owner'[r] # b
    BY DEF FoundIsWanted
  <2>1. b # live /\ foundRoms'[b] = foundRoms[b]
    BY <1>1, <1>3, <1>4 DEF TypeOK
  <2>2. PICK q \in Scans : /\ owner[q] = b /\ wanted[q] = ConsoleOf[foundRoms[b][i]]
                           /\ \A r \in Scans : r > q => owner[r] # b
    BY <2>1 DEF IInv, FoundIsWanted
  <2>3. q # s
    BY <1>5, <2>2 DEF Activities
  <2> QED
    BY <1>4, <2>1, <2>2, <2>3
<1> QED
  BY <1>6, <1>7, <1>8, <1>9, <1>11, <1>12, <1>13, <1>14 DEF IInv

\* No task of an activity that is yet to be created.
LEMMA RecreateStep == IInv /\ Recreate => IInv'
<1> SUFFICES ASSUME IInv, Recreate PROVE IInv'
  OBVIOUS
<1>1. /\ TypeOK /\ live < MaxActivities /\ live' = live + 1 /\ live \in Nat /\ live >= 1
      /\ selectedConsole' = None /\ enabled' = TRUE /\ shown' = <<>>
      /\ UNCHANGED <<crashed, foundRoms, mailbox, romScanTask, owner, wanted, status, step,
                     rest, interrupted>>
  BY MaxAssumption DEF IInv, TypeOK, Recreate, scanVars, Activities
<1>2. TypeOK'
  BY <1>1, MaxAssumption DEF TypeOK, Activities
<1>3. \A s \in Scans : owner[s] \in 0 .. live
  BY <1>1 DEF IInv, Submitted
<1>4. Submitted'
  BY <1>1 DEF IInv, Submitted
<1>5. Bodies' /\ Mail' /\ LastOwes' /\ FoundIsWanted'
  BY <1>1 DEF IInv, Bodies, Mail, LastOwes, FoundIsWanted, Owes, Posted, InBody
<1>6. DisabledWhileScanning' /\ DialogInv'
  BY <1>1, <1>3 DEF DisabledWhileScanning, DialogInv
<1> QED
  BY <1>2, <1>4, <1>5, <1>6 DEF IInv

\* A message settles the debt of its scan, which was the only one of its owner.
LEMMA DeliverStep == IInv /\ Deliver => IInv'
<1> SUFFICES ASSUME IInv, Deliver PROVE IInv'
  OBVIOUS
<1> DEFINE m == Head(mailbox)
           h == m.scan
           a == owner[h]
<1>1. /\ TypeOK /\ mailbox # <<>> /\ mailbox' = Tail(mailbox)
      /\ enabled' = (enabled \/ a = live)
      /\ shown' = IF (m.ok /\ foundRoms[a] # <<>>) /\ a = live THEN foundRoms[a] ELSE shown
      /\ crashed' = ((m.ok /\ foundRoms[a] # <<>>) /\ a # live)
      /\ UNCHANGED <<live, selectedConsole, foundRoms, romScanTask, owner, wanted, status, step,
                     rest, interrupted>>
  BY DEF IInv, Deliver, scanVars
<1>2. /\ m \in Messages /\ h \in Scans /\ m = mailbox[1] /\ Len(mailbox) \in Nat
      /\ mailbox' \in Seq(Messages) /\ Len(mailbox') = Len(mailbox) - 1
      /\ \A i \in 1 .. Len(mailbox') : mailbox'[i] = mailbox[i + 1] /\ i + 1 \in 1 .. Len(mailbox)
      /\ 1 \in 1 .. Len(mailbox)
  <2>1. Len(mailbox) \in Nat /\ Len(mailbox) # 0 /\ m = mailbox[1]
    BY <1>1, EmptySeq DEF TypeOK
  <2>2. m \in Messages
    BY <1>1, HeadTailProperties DEF TypeOK
  <2>3. /\ mailbox' \in Seq(Messages) /\ Len(mailbox') = Len(mailbox) - 1
        /\ \A i \in 1 .. Len(mailbox') : mailbox'[i] = mailbox[i + 1]
    BY <1>1, HeadTailProperties DEF TypeOK
  <2> QED
    BY <2>1, <2>2, <2>3 DEF Messages
<1> HIDE DEF m, h, a
<1>3. /\ a \in 1 .. live /\ live \in Activities /\ a \in Activities
      /\ step[h] = Over /\ status[h] \notin {"queued", "running"}
  <2>1. step[h] = Over /\ status[h] \notin {"queued", "running"}
    BY <1>2 DEF IInv, Mail, h
  <2>2. status[h] # "new"
    BY <1>2, <2>1, DirFacts DEF IInv, Bodies
  <2>3. a \in 1 .. live /\ live \in Activities
    BY <1>1, <1>2, <2>2 DEF IInv, Submitted, TypeOK, a
  <2> QED
    BY <2>1, <2>3, MaxAssumption DEF Activities
<1>4. TypeOK'
  <2>1. shown' \in Seq(Files)
    BY <1>1, <1>3 DEF TypeOK
  <2>2. enabled' \in BOOLEAN /\ crashed' \in BOOLEAN
    BY <1>1
  <2> QED
    BY <1>1, <1>2, <2>1, <2>2 DEF TypeOK
<1>5. Submitted' /\ Bodies' /\ FoundIsWanted'
  BY <1>1 DEF IInv, Submitted, Bodies, InBody, FoundIsWanted
<1>6. Mail'
  <2>1. \A i, j \in 1 .. Len(mailbox') : i + 1 = j + 1 => i = j
    BY <1>2
  <2> QED
    BY <1>1, <1>2, <2>1 DEF IInv, Mail
<1>7. \A r \in Scans : Owes(r)' <=> Owes(r) /\ r # h
  <2>1. ASSUME NEW r \in Scans, r = h PROVE ~Owes(r)'
    <3>1. \A i \in 1 .. Len(mailbox') : i + 1 # 1
      BY <1>2
    <3>2. ~Posted(r)'
      BY <1>2, <2>1, <3>1 DEF IInv, Mail, Posted, h
    <3> QED
      BY <1>1, <1>3, <2>1, <3>2, DirFacts DEF Owes, InBody
  <2>2. ASSUME NEW r \in Scans, r # h PROVE Posted(r)' <=> Posted(r)
    <3>1. Posted(r)' => Posted(r)
      BY <1>2 DEF Posted
    <3>2. ASSUME NEW i \in 1 .. Len(mailbox), mailbox[i].scan = r
          PROVE  \E j \in 1 .. Len(mailbox') : mailbox'[j].scan = r
      <4>1. i # 1
        BY <1>2, <2>2, <3>2 DEF h
      <4>2. i - 1 \in 1 .. Len(mailbox') /\ (i - 1) + 1 = i
        BY <1>2, <4>1
      <4> QED
        BY <1>2, <3>2, <4>2
    <3> QED
      BY <3>1, <3>2 DEF Posted
  <2> QED
    BY <1>1, <2>1, <2>2 DEF Owes, InBody
<1>8. LastOwes'
  BY <1>1, <1>7 DEF IInv, LastOwes
<1>9. Owes(h)
  BY <1>2 DEF Owes, Posted, h
<1>10. DisabledWhileScanning'
  <2>1. CASE a = live
    <3>1. \A r \in Scans : owner[r] = live /\ Owes(r) => r = h
      <4> SUFFICES ASSUME NEW r \in Scans, owner[r] = live, Owes(r), r # h PROVE FALSE
        OBVIOUS
      <4>1. r > h \/ h > r
        BY <1>2, MaxAssumption DEF Scans
      <4> QED
        BY <1>2, <1>9, <2>1, <4>1 DEF IInv, LastOwes, a
    <3> QED
      BY <1>1, <1>7, <2>1, <3>1 DEF DisabledWhileScanning
  <2>2. CASE a # live
    BY <1>1, <1>7, <2>2 DEF IInv, DisabledWhileScanning, a
  <2> QED
    BY <2>1, <2>2
<1>11. DialogInv'
  BY <1>1 DEF IInv, DialogInv
<1> QED
  BY <1>4, <1>5, <1>6, <1>8, <1>10, <1>11 DEF IInv

\* A choice of a console, the end of a dialog and a stuttering step.
LEMMA OtherStep ==
  ASSUME IInv, (\E c \in Consoles : SelectConsole(c)) \/ CloseDialog \/ UNCHANGED vars
  PROVE  IInv'
<1>1. /\ TypeOK /\ selectedConsole' \in Consoles \cup {None}
      /\ shown' = shown \/ shown' = <<>>
      /\ UNCHANGED <<live, crashed, enabled, foundRoms, mailbox, romScanTask, owner, wanted,
                     status, step, rest, interrupted>>
  BY DEF IInv, TypeOK, SelectConsole, CloseDialog, vars, scanVars
<1>2. TypeOK'
  BY <1>1, EmptySeq DEF TypeOK
<1>3. Submitted' /\ Bodies' /\ Mail' /\ LastOwes'
  BY <1>1 DEF IInv, Submitted, Bodies, Mail, LastOwes, Owes, Posted, InBody
<1>4. DisabledWhileScanning' /\ DialogInv' /\ FoundIsWanted'
  BY <1>1 DEF IInv, DisabledWhileScanning, DialogInv, FoundIsWanted, Owes, Posted, InBody
<1> QED
  BY <1>2, <1>3, <1>4 DEF IInv

-----------------------------------------------------------------------------
(* The theorems.                                                           *)

LEMMA AlwaysIInv == Spec => []IInv
<1>1. IInv /\ [Next]_vars => IInv'
  <2> SUFFICES ASSUME IInv, [Next]_vars PROVE IInv'
    OBVIOUS
  <2>1. ASSUME NEW s \in Scans, TaskStep(s) PROVE IInv'
    BY <2>1, BeginStep, ReportStep, NextDirStep, FailStep DEF TaskStep
  <2> QED
    BY <2>1, ScanStep, RecreateStep, DeliverStep, OtherStep DEF Next
<1> QED
  BY <1>1, InitIInv, PTL DEF Spec

\* Every variable keeps its type.
THEOREM TypeCorrect == Spec => []TypeOK
  BY AlwaysIInv, PTL DEF IInv

\* The scan button is disabled exactly while the activity on the screen waits for
\* a scan of its own, whatever tasks of destroyed activities do.
THEOREM ButtonTellsTheTruth == Spec => []DisabledWhileScanning
  BY AlwaysIInv, PTL DEF IInv

\* The list that an open dialog hands to its click listener by reference is the
\* one that it shows: no task adds to it.
THEOREM DialogStaysCurrent == Spec => []DialogIsCurrent
<1>1. IInv => DialogIsCurrent
  BY DEF IInv, DialogInv, DialogIsCurrent
<1> QED
  BY <1>1, AlwaysIInv, PTL

\* What an activity has found is for the console of its last scan.
THEOREM FoundStaysWanted == Spec => []FoundIsWanted
  BY AlwaysIInv, PTL DEF IInv
=============================================================================
