------------------------------- MODULE RomScan -------------------------------
(***************************************************************************)
(* Scanning the storage for ROMs: the scan button, the result dialog and   *)
(* the callbacks of MainActivity.java, and the single-threaded executor of *)
(* FilePickerHelper.java that all activities of the process share.         *)
(*                                                                         *)
(* A rotation destroys the activity and creates another one; a scan and    *)
(* the messages it posts outlive the activity that asked for it.           *)
(***************************************************************************)
EXTENDS Naturals, Sequences, FiniteSets

CONSTANTS
    Consoles,       \* the consoles a user can select
    Dirs,           \* the common ROM directories: a sequence of sets of files
    ConsoleOf,      \* the console whose extensions a file's name ends with
    MaxActivities,  \* bound: activities created in a behavior
    MaxScans        \* bound: scans submitted in a behavior

None == "none"
Activities == 1 .. MaxActivities
Scans == 1 .. MaxScans
Files == UNION {Dirs[i] : i \in DOMAIN Dirs}
Messages == [scan : Scans, ok : BOOLEAN]

ASSUME DirsAssumption == Dirs \in Seq(SUBSET Files) /\ Dirs # <<>>
ASSUME MaxAssumption == MaxActivities \in Nat \ {0} /\ MaxScans \in Nat

VARIABLES
    live,             \* the activity on the screen; those before are destroyed
    crashed,          \* the process died of an exception
    selectedConsole,  \* field of the live activity
    enabled,          \* its scan button
    shown,            \* names in its dialog: empty when none is open
    foundRoms,        \* the list of each activity
    \* scans: FilePickerHelper and its executor
    romScanTask,      \* the last task submitted, or 0
    owner, wanted,    \* the activity that asked, the console it asked for
    status,           \* of the Future: isDone() unless "queued" or "running"
    step,             \* of the task's body: its directory, 0 before, then "over"
    rest,             \* files of that directory still to be reported
    interrupted,      \* interrupt status of the executor's thread in the task
    mailbox           \* runnables posted to the main looper

activityVars == <<selectedConsole, enabled, foundRoms, shown>>
scanVars == <<romScanTask, owner, wanted, status, step, rest, interrupted>>
vars == <<live, crashed, selectedConsole, enabled, foundRoms, shown, romScanTask,
          owner, wanted, status, step, rest, interrupted, mailbox>>

TypeOK ==
    /\ live \in Activities
    /\ crashed \in BOOLEAN
    /\ selectedConsole \in Consoles \cup {None}
    /\ enabled \in BOOLEAN
    /\ foundRoms \in [Activities -> Seq(Files)]
    /\ shown \in Seq(Files)
    /\ romScanTask \in 0 .. MaxScans
    /\ owner \in [Scans -> 0 .. MaxActivities]
    /\ wanted \in [Scans -> Consoles \cup {None}]
    /\ status \in [Scans -> {"new", "queued", "running", "done", "cancelled"}]
    /\ step \in [Scans -> 0 .. Len(Dirs) + 1]
    /\ rest \in [Scans -> SUBSET Files]
    /\ interrupted \in [Scans -> BOOLEAN]
    /\ mailbox \in Seq(Messages)

Init ==
    /\ live = 1
    /\ crashed = FALSE
    /\ selectedConsole = None
    /\ enabled = TRUE
    /\ foundRoms = [a \in Activities |-> <<>>]
    /\ shown = <<>>
    /\ romScanTask = 0
    /\ owner = [s \in Scans |-> 0]
    /\ wanted = [s \in Scans |-> None]
    /\ status = [s \in Scans |-> "new"]
    /\ step = [s \in Scans |-> 0]
    /\ rest = [s \in Scans |-> {}]
    /\ interrupted = [s \in Scans |-> FALSE]
    /\ mailbox = <<>>

-----------------------------------------------------------------------------
(* The user and the system, on the main thread.  The dialog is modal.      *)

Responsive == ~crashed /\ shown = <<>>

SelectConsole(c) ==
    /\ Responsive
    /\ selectedConsole' = c
    /\ UNCHANGED <<live, crashed, enabled, foundRoms, shown, mailbox>>
    /\ UNCHANGED scanVars

\* romScanTask.cancel(true), when it is not done: a task that waits will not
\* run, one that runs is interrupted and goes on.
Cancel ==
    IF romScanTask # 0 /\ status[romScanTask] \in {"queued", "running"}
    THEN [statusAfter |-> [status EXCEPT ![romScanTask] = "cancelled"],
          interruptedAfter |->
              [interrupted EXCEPT ![romScanTask] = status[romScanTask] = "running"]]
    ELSE [statusAfter |-> status, interruptedAfter |-> interrupted]

\* Mutant of ScanForRoms: the list keeps what the last scan found.
ScanKeepsFound(s) ==
    /\ Responsive
    /\ selectedConsole # None
    /\ enabled
    /\ s = romScanTask + 1
    /\ enabled' = FALSE
    /\ status' = [Cancel.statusAfter EXCEPT ![s] = "queued"]
    /\ interrupted' = Cancel.interruptedAfter
    /\ owner' = [owner EXCEPT ![s] = live]
    /\ wanted' = [wanted EXCEPT ![s] = selectedConsole]
    /\ romScanTask' = s
    /\ UNCHANGED <<live, crashed, selectedConsole, foundRoms, shown, step, rest, mailbox>>

\* A tap on the scan button, with a console selected.
ScanForRoms(s) ==
    /\ Responsive
    /\ selectedConsole # None
    /\ enabled
    /\ s = romScanTask + 1
    /\ enabled' = FALSE
    /\ foundRoms' = [foundRoms EXCEPT ![live] = <<>>]
    /\ status' = [Cancel.statusAfter EXCEPT ![s] = "queued"]
    /\ interrupted' = Cancel.interruptedAfter
    /\ owner' = [owner EXCEPT ![s] = live]
    /\ wanted' = [wanted EXCEPT ![s] = selectedConsole]
    /\ romScanTask' = s
    /\ UNCHANGED <<live, crashed, selectedConsole, shown, step, rest, mailbox>>

\* A rotation: nothing of the old activity is saved.
Recreate ==
    /\ ~crashed
    /\ live < MaxActivities
    /\ live' = live + 1
    /\ selectedConsole' = None
    /\ enabled' = TRUE
    /\ shown' = <<>>
    /\ UNCHANGED <<crashed, foundRoms, mailbox>>
    /\ UNCHANGED scanVars

\* Mutant of Deliver: any message enables the button on the screen.
DeliverEnables ==
    /\ ~crashed
    /\ mailbox # <<>>
    /\ mailbox' = Tail(mailbox)
    /\ enabled' = TRUE
    /\ UNCHANGED <<live, crashed, selectedConsole, shown, foundRoms>>
    /\ UNCHANGED scanVars

\* The runnable of onScanComplete or onScanError.  On a destroyed activity its
\* effect on the views is lost, and a dialog with results is an exception.
Deliver ==
    /\ ~crashed
    /\ mailbox # <<>>
    /\ mailbox' = Tail(mailbox)
    /\ LET a == owner[Head(mailbox).scan] IN
         LET results == Head(mailbox).ok /\ foundRoms[a] # <<>> IN
           /\ enabled' = (enabled \/ a = live)
           /\ shown' = IF results /\ a = live THEN foundRoms[a] ELSE shown
           /\ crashed' = (results /\ a # live)
    /\ UNCHANGED <<live, selectedConsole, foundRoms>>
    /\ UNCHANGED scanVars

\* A choice, which starts the emulator on roms.get(which), or none.
CloseDialog ==
    /\ ~crashed
    /\ shown # <<>>
    /\ shown' = <<>>
    /\ UNCHANGED <<live, crashed, selectedConsole, enabled, foundRoms, mailbox>>
    /\ UNCHANGED scanVars

-----------------------------------------------------------------------------
(* The body of a task, on the executor's only thread.                      *)

Over == Len(Dirs) + 1
InBody(s) == step[s] \in 1 .. Len(Dirs)

\* What the search of a directory finds, at any depth, for the console asked for.
FindRomFiles(d, s) == {f \in Dirs[d] : ConsoleOf[f] = wanted[s]}

Begin(s) ==
    /\ status[s] = "queued"
    /\ \A r \in Scans : ~InBody(r) /\ (r < s => status[r] # "queued")
    /\ status' = [status EXCEPT ![s] = "running"]
    /\ step' = [step EXCEPT ![s] = 1]
    /\ rest' = [rest EXCEPT ![s] = FindRomFiles(1, s)]
    /\ UNCHANGED <<romScanTask, owner, wanted, interrupted, mailbox>>
    /\ UNCHANGED activityVars

\* callback.onRomFound, which adds to the list of the activity that asked.
Report(s) ==
    /\ InBody(s)
    /\ ~interrupted[s]
    /\ \E f \in rest[s] :
         /\ foundRoms' = [foundRoms EXCEPT ![owner[s]] = Append(@, f)]
         /\ rest' = [rest EXCEPT ![s] = @ \ {f}]
    /\ UNCHANGED <<romScanTask, owner, wanted, status, step, interrupted, mailbox>>
    /\ UNCHANGED <<selectedConsole, enabled, shown>>

\* Mutant of NextDir: onScanComplete inside the loop over the directories.
CompletePerDir(s) ==
    /\ InBody(s)
    /\ rest[s] = {} \/ interrupted[s]
    /\ step' = [step EXCEPT ![s] = @ + 1]
    /\ rest' = [rest EXCEPT ![s] = IF step[s] = Len(Dirs) THEN {}
                                    ELSE FindRomFiles(step[s] + 1, s)]
    /\ status' = [status EXCEPT ![s] = IF step[s] = Len(Dirs) THEN "done" ELSE @]
    /\ mailbox' = Append(mailbox, [scan |-> s, ok |-> TRUE])
    /\ UNCHANGED <<romScanTask, owner, wanted, interrupted>>
    /\ UNCHANGED activityVars

\* The next directory; an interrupted task skips the ones that are left.
\* After the last it calls onScanComplete, interrupted or not.
NextDir(s) ==
    /\ InBody(s)
    /\ rest[s] = {} \/ interrupted[s]
    /\ step' = [step EXCEPT ![s] = @ + 1]
    /\ rest' = [rest EXCEPT ![s] =
                  IF step[s] = Len(Dirs) \/ interrupted[s] THEN {}
                  ELSE FindRomFiles(step[s] + 1, s)]
    /\ IF step[s] = Len(Dirs)
       THEN /\ status' = [status EXCEPT ![s] = IF @ = "running" THEN "done" ELSE @]
            /\ mailbox' = Append(mailbox, [scan |-> s, ok |-> TRUE])
       ELSE UNCHANGED <<status, mailbox>>
    /\ UNCHANGED <<romScanTask, owner, wanted, interrupted>>
    /\ UNCHANGED activityVars

\* Mutant of Fail: the exception is only printed.
FailSilently(s) ==
    /\ InBody(s)
    /\ step' = [step EXCEPT ![s] = Over]
    /\ rest' = [rest EXCEPT ![s] = {}]
    /\ status' = [status EXCEPT ![s] = IF @ = "running" THEN "done" ELSE @]
    /\ UNCHANGED <<romScanTask, owner, wanted, interrupted, mailbox>>
    /\ UNCHANGED activityVars

\* An exception in the body: onScanError.
Fail(s) ==
    /\ InBody(s)
    /\ step' = [step EXCEPT ![s] = Over]
    /\ rest' = [rest EXCEPT ![s] = {}]
    /\ status' = [status EXCEPT ![s] = IF @ = "running" THEN "done" ELSE @]
    /\ mailbox' = Append(mailbox, [scan |-> s, ok |-> FALSE])
    /\ UNCHANGED <<romScanTask, owner, wanted, interrupted>>
    /\ UNCHANGED activityVars

TaskStep(s) ==
    /\ ~crashed
    /\ Begin(s) \/ Report(s) \/ NextDir(s) \/ Fail(s)
    /\ UNCHANGED <<live, crashed>>

Next ==
    \/ \E c \in Consoles : SelectConsole(c)
    \/ Recreate \/ Deliver \/ CloseDialog
    \/ \E s \in Scans : ScanForRoms(s) \/ TaskStep(s)

Spec == Init /\ [][Next]_vars

\* The executor's thread and the main looper run what they are given.
FairSpec == /\ Spec
            /\ WF_vars(Deliver)
            /\ WF_vars(\E s \in Scans : TaskStep(s))

-----------------------------------------------------------------------------
(* Properties.                                                             *)

\* The scan owes a message to the activity that asked for it.
Posted(s) == \E i \in 1 .. Len(mailbox) : mailbox[i].scan = s
Owes(s) == status[s] \in {"queued", "running"} \/ InBody(s) \/ Posted(s)

\* The scan button of the activity on the screen is disabled exactly while a
\* scan of its own is outstanding: tasks of destroyed activities, in the same
\* queue and the same static field, neither enable it nor cancel its scan.
DisabledWhileScanning ==
    ~enabled <=> \E s \in Scans : owner[s] = live /\ Owes(s)

\* The dialog hands the activity's own list to its click listener, by
\* reference: while it is open the list stays what the dialog shows.
DialogIsCurrent == shown # <<>> => shown = foundRoms[live]

\* Every file in the list of an activity is one that its last scan asked for.
FoundIsWanted ==
    \A a \in Activities : \A i \in 1 .. Len(foundRoms[a]) :
        \E s \in Scans : /\ owner[s] = a
                         /\ wanted[s] = ConsoleOf[foundRoms[a][i]]
                         /\ \A r \in Scans : r > s => owner[r] # a

\* A button that a scan has disabled is enabled again, unless the activity is
\* destroyed or the process dies first.
ButtonComesBack ==
    \A a \in Activities :
        (live = a /\ ~enabled) ~> (enabled \/ live # a \/ crashed)
=============================================================================
