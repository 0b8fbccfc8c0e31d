------------------------------- MODULE Update -------------------------------
(***************************************************************************)
(* `vlb update`: core/update.rs.                                           *)
(*                                                                         *)
(* `perform` stages a verified download beside the installed binary, lets  *)
(* it prove itself, swaps it in, restarts the service and watches it come  *)
(* back; `rollback` restores the previous binary.  A step here is what     *)
(* happens between two awaits of the updater, the only process that        *)
(* writes these files; the service lives and dies on its own beside it,    *)
(* and the updater may be killed, or the machine rebooted, between any two *)
(* steps.  A file that is being written is Torn.                           *)
(*                                                                         *)
(* Left out: the download and its checksum, which touch no file (an update *)
(* begins with a build that was published), versions, progress and notes.  *)
(***************************************************************************)
EXTENDS Naturals, FiniteSets

CONSTANTS
    Builds,          \* releases
    Runs,            \* builds that execute on this host
    Accepts,         \* builds that also accept the configuration in use
    Serves,          \* builds that come up and answer on the control socket
    Hangs,           \* builds that stay up and never answer
    Torn,            \* the content of a file that was not written to its end
    None,            \* no file; no running daemon
    RestartService,  \* update.restart_service
    Patience,        \* how often the updater asks in the 30 s it watches
    Faults           \* what may go wrong around the updater

ASSUME UpdateAssumption ==
    /\ Serves \cup Hangs \subseteq Accepts
    /\ Accepts \subseteq Runs
    /\ Runs \subseteq Builds
    /\ Serves # {}
    /\ Serves \cap Hangs = {}
    /\ Torn \notin Builds
    /\ None \notin Builds \cup {Torn}
    /\ RestartService \in BOOLEAN
    /\ Patience \in Nat \ {0}
    /\ Faults \subseteq {"write", "copy", "rename", "systemctl", "kill"}

(***************************************************************************)
(* The files: the unit's ExecStart, vlb.bak, .vlb.update.new and           *)
(* .vlb.rollback.new.  `deleted` is "vlb (deleted)", the name the kernel   *)
(* gives a process for its own binary once another file has its place.     *)
(***************************************************************************)
Names == {"installed", "backup", "staged", "restored", "deleted"}
Content == Builds \cup {Torn, None}

Steps == {"idle", "open", "fill", "verify", "validate", "preflight", "ask",
          "backup", "copy", "swap", "restart", "watch",
          "putBack", "copyBack", "swapBack", "restartBack"}
Results == {"none", "refused", "failed", "installed", "rolledBack", "stuck",
            "killed"}

VARIABLES
    file,      \* what each name holds
    running,   \* the build the service's process runs
    replaced,  \* the updating session has replaced the binary it runs from
    pc,        \* where the updater awaits
    job        \* its local variables, and what it reported last

vars == <<file, running, replaced, pc, job>>

(***************************************************************************)
(* `previous` and `mishap` are history: what was installed when the update *)
(* began, and whether a fault or an interruption hit it.  The other fields *)
(* are locals of `perform` and the kind of its return.                     *)
(***************************************************************************)
Job == [release : Builds, target : {"installed", "deleted"},
        wasActive : BOOLEAN, polls : 0..Patience, result : Results,
        previous : Content, mishap : BOOLEAN]

Init ==
    \E b \in Serves :
        /\ file = [n \in Names |-> IF n = "installed" THEN b ELSE None]
        /\ running \in {b, None}
        /\ replaced = FALSE
        /\ pc = "idle"
        /\ job = [release |-> b, target |-> "installed", wasActive |-> FALSE,
                  polls |-> 0, result |-> "none", previous |-> b, mishap |-> FALSE]

Put(n, c) == file' = [file EXCEPT ![n] = c]
Move(from, to) == file' = [file EXCEPT ![to] = file[from], ![from] = None]

\* The updater goes on to its next step, or returns.
Go(step) == pc' = step /\ UNCHANGED job
Return(r) == pc' = "idle" /\ job' = [job EXCEPT !.result = r]

\* The same after a fault.
Fault(f) == f \in Faults
GoOn(step) == pc' = step /\ job' = [job EXCEPT !.mishap = TRUE]
GiveUp(r) == pc' = "idle" /\ job' = [job EXCEPT !.result = r, !.mishap = TRUE]

-----------------------------------------------------------------------------
(***************************************************************************)
(* Staging.  `current_exe` names the destination: a command is a new       *)
(* process of the installed binary; a dashboard that has updated before is *)
(* still the process of the file it replaced.                              *)
(***************************************************************************)
Begin(b, again) ==
    /\ pc = "idle"
    /\ IF again THEN replaced ELSE file["installed"] \in Runs
    /\ replaced' = again
    /\ pc' = "open"
    /\ job' = [release |-> b,
               target |-> IF again THEN "deleted" ELSE "installed",
               wasActive |-> FALSE, polls |-> 0, result |-> "none",
               previous |-> file["installed"], mishap |-> FALSE]
    /\ UNCHANGED <<file, running>>

OpenStaged ==
    /\ pc = "open"
    /\ \/ Put("staged", Torn) /\ Go("fill")
       \/ Fault("write") /\ GiveUp("failed") /\ UNCHANGED file
    /\ UNCHANGED <<running, replaced>>

FillStaged ==
    /\ pc = "fill"
    /\ \/ Put("staged", job.release) /\ Go("verify")
       \/ Fault("write") /\ GiveUp("failed") /\ UNCHANGED file
    /\ UNCHANGED <<running, replaced>>

\* mutant: a refusal does not discard the staged build.
CheckKeeping(at, good, next) ==
    /\ pc = at
    /\ \/ file["staged"] \in good /\ Go(next)
       \/ Return("refused")
    /\ UNCHANGED <<file, running, replaced>>

(***************************************************************************)
(* A staged build passes a check only if it is one of the good ones; it    *)
(* may also be refused for a reason of the moment (a timeout, a canary     *)
(* without a quorum).  A refusal discards it.                              *)
(***************************************************************************)
Check(at, good, next) ==
    /\ pc = at
    /\ \/ file["staged"] \in good /\ Go(next) /\ UNCHANGED file
       \/ Put("staged", None) /\ Return("refused")
    /\ UNCHANGED <<running, replaced>>

Verify == Check("verify", Runs, "validate")
\* mutant: the configuration is validated by the installed build.
ValidateInstalled == Check("validate", Runs, "preflight")

Validate == Check("validate", Accepts, "preflight")
\* The probe says nothing of the build: one that cannot probe passes as Unknown.
Preflight == Check("preflight", Builds, "ask")

\* systemctl is-active; an error counts as inactive.
AskActive ==
    /\ pc = "ask"
    /\ pc' = "backup"
    /\ \/ job' = [job EXCEPT !.wasActive = RestartService /\ running # None]
       \/ Fault("systemctl") /\ job' = [job EXCEPT !.mishap = TRUE]
    /\ UNCHANGED <<file, running, replaced>>

-----------------------------------------------------------------------------
(***************************************************************************)
(* The swap.  A backup that cannot be written is warned about, no more.    *)
(***************************************************************************)
\* mutant: the current binary is moved aside instead of copied.
OpenBackupMoving ==
    /\ pc = "backup"
    /\ Move(job.target, "backup")
    /\ Go("swap")
    /\ UNCHANGED <<running, replaced>>

\* mutant: a backup that exists is kept.
OpenBackupOnce ==
    /\ pc = "backup"
    /\ \/ file["backup"] # None /\ Go("swap") /\ UNCHANGED file
       \/ file["backup"] = None /\ Put("backup", Torn) /\ Go("copy")
    /\ UNCHANGED <<running, replaced>>

OpenBackup ==
    /\ pc = "backup"
    /\ \/ file[job.target] = None /\ Go("swap") /\ UNCHANGED file
       \/ file[job.target] # None /\ Put("backup", Torn) /\ Go("copy")
       \/ Fault("copy") /\ GoOn("swap") /\ UNCHANGED file
    /\ UNCHANGED <<running, replaced>>

FillBackup ==
    /\ pc = "copy"
    /\ \/ Put("backup", file[job.target]) /\ Go("swap")
       \/ Fault("copy") /\ GoOn("swap") /\ UNCHANGED file
    /\ UNCHANGED <<running, replaced>>

Swap ==
    /\ pc = "swap"
    /\ \/ /\ Move("staged", job.target)
          /\ replaced' = TRUE
          /\ IF job.wasActive THEN Go("restart") ELSE Return("installed")
       \/ Fault("rename") /\ GiveUp("failed") /\ UNCHANGED <<file, replaced>>
    /\ UNCHANGED running

-----------------------------------------------------------------------------
(***************************************************************************)
(* Restart and watch.  The unit is of Type=exec: a restart succeeds once   *)
(* the installed file has been executed.  The updater asks every 0.5 s     *)
(* whether the service is active and answers, for 30 s, and systemd waits  *)
(* 2 s before it starts a dead service again: one that dies before the     *)
(* last question is seen dead.                                             *)
(***************************************************************************)
RestartNew ==
    /\ pc = "restart"
    /\ \/ file["installed"] \in Runs /\ running' = file["installed"] /\ Go("watch")
       \/ file["installed"] \notin Runs /\ running' = None /\ Go("putBack")
       \/ Fault("systemctl") /\ GoOn("putBack") /\ running' \in {running, None}
    /\ UNCHANGED <<file, replaced>>

\* mutant: a restart that was accepted is all that is asked for.
GoneIgnored ==
    /\ pc = "watch"
    /\ job.polls < Patience
    /\ running = None
    /\ Return("installed")
    /\ UNCHANGED <<file, running, replaced>>

Gone ==
    /\ pc = "watch"
    /\ job.polls < Patience
    /\ \/ running = None /\ Go("putBack")
       \/ Fault("systemctl") /\ GoOn("putBack")
    /\ UNCHANGED <<file, running, replaced>>

\* mutant: a service that is active is taken for one that answers.
AnsweredIfActive ==
    /\ pc = "watch"
    /\ job.polls < Patience
    /\ running # None
    /\ Return("installed")
    /\ UNCHANGED <<file, running, replaced>>

Answered ==
    /\ pc = "watch"
    /\ job.polls < Patience
    /\ running \in Serves
    /\ Return("installed")
    /\ UNCHANGED <<file, running, replaced>>

\* Active, and no answer yet: it may be slow, or never answer, or be about to
\* crash.
Unanswered ==
    /\ pc = "watch"
    /\ job.polls < Patience
    /\ running # None
    /\ job' = [job EXCEPT !.polls = @ + 1]
    /\ UNCHANGED <<file, running, replaced, pc>>

\* The 30 s are over.  Nobody asks again: a note is all that is made of it, and
\* it says that the service is active, whether or not it is.
Deadline ==
    /\ pc = "watch"
    /\ job.polls = Patience
    /\ Return("installed")
    /\ UNCHANGED <<file, running, replaced>>

-----------------------------------------------------------------------------
(***************************************************************************)
(* Rollback.                                                               *)
(***************************************************************************)
PutBack ==
    /\ pc = "putBack"
    /\ \/ file["backup"] = None /\ Return("stuck") /\ UNCHANGED file
       \/ file["backup"] # None /\ Put("restored", Torn) /\ Go("copyBack")
       \/ Fault("copy") /\ GiveUp("stuck") /\ UNCHANGED file
    /\ UNCHANGED <<running, replaced>>

CopyBack ==
    /\ pc = "copyBack"
    /\ \/ Put("restored", file["backup"]) /\ Go("swapBack")
       \/ Fault("copy") /\ GiveUp("stuck") /\ UNCHANGED file
    /\ UNCHANGED <<running, replaced>>

SwapBack ==
    /\ pc = "swapBack"
    /\ \/ Move("restored", job.target) /\ Go("restartBack")
       \/ Fault("rename") /\ GiveUp("stuck") /\ UNCHANGED file
    /\ UNCHANGED <<running, replaced>>

RestartBack ==
    /\ pc = "restartBack"
    /\ \/ /\ file["installed"] \in Runs
          /\ running' = file["installed"]
          /\ Return("rolledBack")
       \/ file["installed"] \notin Runs /\ running' = None /\ Return("stuck")
       \/ Fault("systemctl") /\ GiveUp("stuck") /\ running' \in {running, None}
    /\ UNCHANGED <<file, replaced>>

-----------------------------------------------------------------------------
(***************************************************************************)
(* The service and the machine.                                            *)
(***************************************************************************)

\* A build that neither serves nor hangs gives up on its own.
Die ==
    /\ running \notin Serves \cup Hangs \cup {None}
    /\ running' = None
    /\ UNCHANGED <<file, replaced, pc, job>>

\* systemd starts a dead service again; an operator starts a stopped one.
Start ==
    /\ running = None
    /\ pc # "watch"
    /\ file["installed"] \in Runs
    /\ running' = file["installed"]
    /\ UNCHANGED <<file, replaced, pc, job>>

\* The updater is killed, alone or with the whole machine.
Kill ==
    /\ Fault("kill")
    /\ running' \in {running, None}
    /\ replaced' = FALSE
    /\ pc' = "idle"
    /\ job' = [job EXCEPT !.result = IF pc = "idle" THEN @ ELSE "killed",
                          !.mishap = TRUE]
    /\ UNCHANGED file

Updater ==
    \/ OpenStaged \/ FillStaged \/ Verify \/ Validate \/ Preflight
    \/ AskActive \/ OpenBackup \/ FillBackup \/ Swap
    \/ RestartNew \/ Gone \/ Answered \/ Unanswered \/ Deadline
    \/ PutBack \/ CopyBack \/ SwapBack \/ RestartBack

Next ==
    \/ \E b \in Builds, again \in BOOLEAN : Begin(b, again)
    \/ Updater
    \/ Die
    \/ Start
    \/ Kill

\* The updater's awaits return.  Nothing says when a build that cannot stay up
\* goes down.
Spec == Init /\ [][Next]_vars /\ WF_vars(Updater)

-----------------------------------------------------------------------------
(***************************************************************************)
(* Types.  There is always an installed file: `rename` replaces it, and    *)
(* the backup is a copy.                                                   *)
(***************************************************************************)
TypeOK ==
    /\ file \in [Names -> Content]
    /\ file["installed"] # None
    /\ running \in Runs \cup {None}
    /\ replaced \in BOOLEAN
    /\ pc \in Steps
    /\ job \in Job

(***************************************************************************)
(* Whatever an update goes through, killed or rolled back or repeated,     *)
(* the file the unit starts is a whole build that accepts the              *)
(* configuration: "The new binary is proven runnable before the old one is *)
(* replaced" (core/update.rs:15), and a rollback brings back only what ran *)
(* before.                                                                 *)
(***************************************************************************)
InstalledStarts == file["installed"] \in Accepts

(***************************************************************************)
(* The binary an update replaces can be put back by hand at any time until *)
(* the next update begins: it is installed still, or it is vlb.bak.  This  *)
(* is what `describe_rollback` tells an operator whose rollback failed.    *)
(***************************************************************************)
PreviousIsAtHand == job.previous \in {file["installed"], file["backup"]}

(***************************************************************************)
(* What an update reports is so: "rolled back to the previous binary" is   *)
(* said only when the binary installed before this update, no older one,   *)
(* is installed again, and a refused update "leaves no trace behind"       *)
(* (core/update.rs:268): the installed binary stays and the staged file is *)
(* gone.                                                                   *)
(***************************************************************************)
ReportIsTrue ==
    /\ job.result = "rolledBack" => file["installed"] = job.previous
    /\ job.result = "refused" => /\ file["installed"] = job.previous
                                 /\ file["staged"] = None

(***************************************************************************)
(* An update of a running service that no fault hit ends on a build that   *)
(* answered, on the one installed before, or, with a note, on one that was *)
(* found running each time the updater asked in 30 s: every return of      *)
(* `perform` after the restart has either watched the new build to the end *)
(* or put the previous one back.  The third outcome may be a build that    *)
(* never answers, or one that goes down after the last question.           *)
(***************************************************************************)
UpdateKeepsServiceUp ==
    pc = "idle" /\ job.wasActive /\ ~job.mishap =>
        file["installed"] \in Serves \cup {job.previous} \/ job.polls = Patience

(***************************************************************************)
(* A release that goes down while the updater still asks is replaced by    *)
(* the previous binary, which is started: "After the swap the service must *)
(* come back, or the previous binary is restored and restarted"            *)
(* (core/update.rs:222), as far as the code goes with it.                  *)
(***************************************************************************)
CrashingReleaseIsUndone ==
    (pc = "watch" /\ job.target = "installed" /\ running = None /\ job.polls < Patience)
        ~> \/ job.mishap
           \/ job.result = "rolledBack" /\ file["installed"] = job.previous
=============================================================================
