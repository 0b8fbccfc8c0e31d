---------------------------- MODULE UpdateProofs ----------------------------
(***************************************************************************)
(* Theorems about module Update, for any set of builds and any faults.     *)
(***************************************************************************)
EXTENDS Update, TLAPS

(***************************************************************************)
(* Types.  A file that is about to be moved over the installed one must    *)
(* exist, which is what the two additions say.                             *)
(***************************************************************************)
Proven ==
    pc \in {"preflight", "ask", "backup", "copy", "swap"} =>
        file["staged"] \in Accepts

Restorable ==
    /\ pc = "copyBack" => file["backup"] # None
    /\ pc = "swapBack" => file["restored"] # None

TypeInv == TypeOK /\ Proven /\ Restorable

(***************************************************************************)
(* What the building blocks of the actions do: a file is written, a file   *)
(* is renamed, the updater goes on, the updater returns.                   *)
(***************************************************************************)
LEMMA PutEffect ==
  ASSUME file \in [Names -> Content], NEW n \in Names, NEW c \in Content, Put(n, c)
  PROVE  /\ file' \in [Names -> Content]
         /\ file'[n] = c
         /\ \A m \in Names : m # n => file'[m] = file[m]
BY DEF Put

LEMMA MoveEffect ==
  ASSUME file \in [Names -> Content], NEW from \in Names, NEW to \in Names,
         from # to, Move(from, to)
  PROVE  /\ file' \in [Names -> Content]
         /\ file'[to] = file[from]
         /\ file'[from] = None
         /\ \A n \in Names : n # from /\ n # to => file'[n] = file[n]
BY DEF Move, Content

LEMMA GoEffect ==
  ASSUME job \in Job, NEW step, Go(step) \/ GoOn(step)
  PROVE  /\ pc' = step /\ job' \in Job
         /\ job'.target = job.target /\ job'.previous = job.previous
         /\ job'.result = job.result /\ job'.wasActive = job.wasActive
         /\ job'.polls = job.polls
         /\ job.mishap => job'.mishap
BY DEF Go, GoOn, Job

LEMMA ReturnEffect ==
  ASSUME job \in Job, NEW r \in Results, Return(r) \/ GiveUp(r)
  PROVE  /\ pc' = "idle" /\ job' \in Job
         /\ job'.target = job.target /\ job'.previous = job.previous
         /\ job'.result = r /\ job'.wasActive = job.wasActive
         /\ job'.polls = job.polls
         /\ job.mishap \/ GiveUp(r) => job'.mishap
BY DEF Return, GiveUp, Job

LEMMA Basics ==
  /\ {"installed", "backup", "staged", "restored", "deleted"} = Names
  /\ Accepts \subseteq Content /\ Builds \subseteq Content
  /\ Torn \in Content /\ None \in Content
  /\ Accepts \subseteq Runs /\ Runs \subseteq Builds
  /\ None \notin Builds /\ Torn # None
BY UpdateAssumption DEF Names, Content

\* Every variable has its type when the project starts.
LEMMA TypeInit == Init => TypeInv
<1> SUFFICES ASSUME Init PROVE TypeInv
  OBVIOUS
<1>1. PICK b \in Serves :
         /\ file = [n \in Names |-> IF n = "installed" THEN b ELSE None]
         /\ running \in {b, None}
         /\ replaced = FALSE
         /\ pc = "idle"
         /\ job = [release |-> b, target |-> "installed", wasActive |-> FALSE,
                   polls |-> 0, result |-> "none", previous |-> b, mishap |-> FALSE]
  BY DEF Init
<1>2. b \in Builds /\ b \in Runs /\ b # None
  BY UpdateAssumption
<1>3. job \in Job
  BY <1>1, <1>2, UpdateAssumption DEF Job, Content, Results
<1>4. file \in [Names -> Content] /\ file["installed"] # None
  BY <1>1, <1>2 DEF Names, Content
<1> QED
  BY <1>1, <1>2, <1>3, <1>4
  DEF TypeInv, TypeOK, Proven, Restorable, Steps

\* Every step keeps the types.
LEMMA TypeStep == TypeInv /\ [Next]_vars => TypeInv'
<1> SUFFICES ASSUME TypeInv, [Next]_vars PROVE TypeInv'
  OBVIOUS
<1> USE Basics DEF TypeInv, TypeOK, Proven, Restorable
<1>0. /\ file \in [Names -> Content] /\ file["installed"] # None
      /\ job \in Job /\ job.target \in {"installed", "deleted"}
      /\ job.release \in Content
  BY DEF Job
<1>1. ASSUME NEW b \in Builds, NEW again \in BOOLEAN, Begin(b, again)
      PROVE  TypeInv'
  <2>1. job' \in Job
    BY <1>0, <1>1, UpdateAssumption DEF Begin, Job, Results
  <2>2. pc' = "open" /\ replaced' = again /\ file' = file /\ running' = running
    BY <1>1 DEF Begin
  <2> QED
    BY <2>1, <2>2 DEF Steps
<1>2. CASE OpenStaged
  <2>1. CASE Put("staged", Torn) /\ Go("fill")
    BY <1>0, <1>2, <2>1, PutEffect, GoEffect DEF OpenStaged, Steps
  <2>2. CASE GiveUp("failed") /\ file' = file
    BY <1>0, <1>2, <2>2, ReturnEffect DEF OpenStaged, Steps, Results
  <2> QED
    BY <1>2, <2>1, <2>2 DEF OpenStaged
<1>3. CASE FillStaged
  <2>1. CASE Put("staged", job.release) /\ Go("verify")
    BY <1>0, <1>3, <2>1, PutEffect, GoEffect DEF FillStaged, Steps
  <2>2. CASE GiveUp("failed") /\ file' = file
    BY <1>0, <1>3, <2>2, ReturnEffect DEF FillStaged, Steps, Results
  <2> QED
    BY <1>3, <2>1, <2>2 DEF FillStaged
<1>4. ASSUME NEW at, NEW good, NEW next \in {"validate", "preflight", "ask"},
             Check(at, good, next),
             file["staged"] \in good => next = "validate" \/ file["staged"] \in Accepts
      PROVE  TypeInv'
  <2>1. running' = running /\ replaced' = replaced
    BY <1>4 DEF Check
  <2>2. CASE file["staged"] \in good /\ Go(next) /\ file' = file
    <3>1. pc' = next /\ job' \in Job
      BY <1>0, <2>2, GoEffect
    <3> QED
      BY <1>4, <2>1, <2>2, <3>1 DEF Steps
  <2>3. CASE Put("staged", None) /\ Return("refused")
    <3>1. pc' = "idle" /\ job' \in Job
      BY <1>0, <2>3, ReturnEffect DEF Results
    <3>2. file' \in [Names -> Content] /\ file'["installed"] = file["installed"]
      BY <1>0, <2>3, PutEffect
    <3> QED
      BY <1>0, <2>1, <3>1, <3>2 DEF Steps
  <2> QED
    BY <1>4, <2>2, <2>3 DEF Check
<1>5. CASE Verify \/ Validate \/ Preflight
  <2>1. CASE Verify
    BY <2>1, <1>4 DEF Verify
  <2>2. CASE Validate
    BY <2>2, <1>4 DEF Validate
  <2>3. CASE Preflight
    <3>1. pc = "preflight"
      BY <2>3 DEF Preflight, Check
    <3> QED
      BY <2>3, <3>1, <1>4 DEF Preflight
  <2> QED
    BY <1>5, <2>1, <2>2, <2>3
<1>6. CASE AskActive
  <2>1. job' \in Job
    BY <1>0, <1>6, UpdateAssumption DEF AskActive, Job
  <2> QED
    BY <1>6, <2>1 DEF AskActive, Steps
<1>7. CASE OpenBackup
  <2>1. CASE Put("backup", Torn) /\ Go("copy")
    BY <1>0, <1>7, <2>1, PutEffect, GoEffect DEF OpenBackup, Steps
  <2>2. CASE (Go("swap") \/ GoOn("swap")) /\ file' = file
    BY <1>0, <1>7, <2>2, GoEffect DEF OpenBackup, Steps
  <2> QED
    BY <1>7, <2>1, <2>2 DEF OpenBackup
<1>8. CASE FillBackup
  <2>1. CASE Put("backup", file[job.target]) /\ Go("swap")
    <3>1. file[job.target] \in Content
      BY <1>0
    <3> QED
      BY <1>0, <1>8, <2>1, <3>1, PutEffect, GoEffect DEF FillBackup, Steps
  <2>2. CASE GoOn("swap") /\ file' = file
    BY <1>0, <1>8, <2>2, GoEffect DEF FillBackup, Steps
  <2> QED
    BY <1>8, <2>1, <2>2 DEF FillBackup
<1>9. CASE Swap
  <2>1. file["staged"] # None
    BY <1>9 DEF Swap
  <2>2. replaced' \in BOOLEAN /\ running' = running
    BY <1>9 DEF Swap
  <2>3. CASE Move("staged", job.target) /\ (Go("restart") \/ Return("installed"))
    <3>1. file' \in [Names -> Content] /\ file'["installed"] # None
      BY <1>0, <2>1, <2>3, MoveEffect
    <3>2. pc' \in {"restart", "idle"} /\ job' \in Job
      BY <1>0, <2>3, GoEffect, ReturnEffect DEF Results
    <3> QED
      BY <2>2, <3>1, <3>2 DEF Steps
  <2>4. CASE GiveUp("failed") /\ file' = file
    BY <1>0, <2>2, <2>4, ReturnEffect DEF Results, Steps
  <2> QED
    BY <1>9, <2>3, <2>4 DEF Swap
<1>10. CASE RestartNew
  <2>1. pc' \in {"watch", "putBack"} /\ job' \in Job
    BY <1>0, <1>10, GoEffect DEF RestartNew
  <2>2. file' = file /\ replaced' = replaced /\ running' \in Runs \cup {None}
    BY <1>10 DEF RestartNew
  <2> QED
    BY <2>1, <2>2 DEF Steps
<1>11. CASE Gone
  <2>1. pc' = "putBack" /\ job' \in Job
    BY <1>0, <1>11, GoEffect DEF Gone
  <2> QED
    BY <1>11, <2>1 DEF Gone, Steps
<1>12. CASE Answered \/ Deadline
  <2>1. pc' = "idle" /\ job' \in Job
    BY <1>0, <1>12, ReturnEffect DEF Answered, Deadline, Results
  <2> QED
    BY <1>12, <2>1 DEF Answered, Deadline, Steps
<1>12a. CASE Unanswered
  <2>1. job' \in Job
    BY <1>0, <1>12a, UpdateAssumption DEF Unanswered, Job
  <2> QED
    BY <1>12a, <2>1 DEF Unanswered
<1>13. CASE PutBack
  <2>1. running' = running /\ replaced' = replaced
    BY <1>13 DEF PutBack
  <2>2. CASE file["backup"] # None /\ Put("restored", Torn) /\ Go("copyBack")
    <3>1. pc' = "copyBack" /\ job' \in Job
      BY <1>0, <2>2, GoEffect
    <3>2. /\ file' \in [Names -> Content]
          /\ file'["installed"] = file["installed"] /\ file'["backup"] # None
      BY <1>0, <2>2, PutEffect
    <3> QED
      BY <1>0, <2>1, <3>1, <3>2 DEF Steps
  <2>3. CASE (Return("stuck") \/ GiveUp("stuck")) /\ file' = file
    <3>1. pc' = "idle" /\ job' \in Job
      BY <1>0, <2>3, ReturnEffect DEF Results
    <3> QED
      BY <2>1, <2>3, <3>1 DEF Steps
  <2> QED
    BY <1>13, <2>2, <2>3 DEF PutBack
<1>14. CASE CopyBack
  <2>1. running' = running /\ replaced' = replaced /\ pc = "copyBack"
    BY <1>14 DEF CopyBack
  <2>2. CASE Put("restored", file["backup"]) /\ Go("swapBack")
    <3>1. pc' = "swapBack" /\ job' \in Job
      BY <1>0, <2>2, GoEffect
    <3>2. /\ file' \in [Names -> Content]
          /\ file'["installed"] = file["installed"] /\ file'["restored"] # None
      BY <1>0, <2>1, <2>2, PutEffect
    <3> QED
      BY <1>0, <2>1, <3>1, <3>2 DEF Steps
  <2>3. CASE GiveUp("stuck") /\ file' = file
    <3>1. pc' = "idle" /\ job' \in Job
      BY <1>0, <2>3, ReturnEffect DEF Results
    <3> QED
      BY <2>1, <2>3, <3>1 DEF Steps
  <2> QED
    BY <1>14, <2>2, <2>3 DEF CopyBack
<1>15. CASE SwapBack
  <2>1. running' = running /\ replaced' = replaced /\ file["restored"] # None
    BY <1>15 DEF SwapBack
  <2>2. CASE Move("restored", job.target) /\ Go("restartBack")
    <3>1. pc' = "restartBack" /\ job' \in Job
      BY <1>0, <2>2, GoEffect
    <3>2. file' \in [Names -> Content] /\ file'["installed"] # None
      BY <1>0, <2>1, <2>2, MoveEffect
    <3> QED
      BY <2>1, <3>1, <3>2 DEF Steps
  <2>3. CASE GiveUp("stuck") /\ file' = file
    <3>1. pc' = "idle" /\ job' \in Job
      BY <1>0, <2>3, ReturnEffect DEF Results
    <3> QED
      BY <2>1, <2>3, <3>1 DEF Steps
  <2> QED
    BY <1>15, <2>2, <2>3 DEF SwapBack
<1>16. CASE RestartBack
  <2>1. pc' = "idle" /\ job' \in Job
    BY <1>0, <1>16, ReturnEffect DEF RestartBack, Results
  <2>2. file' = file /\ replaced' = replaced /\ running' \in Runs \cup {None}
    BY <1>16 DEF RestartBack
  <2> QED
    BY <2>1, <2>2 DEF Steps
<1>17. CASE Die \/ Start
  BY <1>17 DEF Die, Start
<1>18. CASE Kill
  <2>1. job' \in Job
    BY <1>0, <1>18 DEF Kill, Job, Results
  <2> QED
    BY <1>18, <2>1 DEF Kill, Steps
<1>19. CASE UNCHANGED vars
  BY <1>19 DEF vars
<1> QED
  BY <1>1, <1>2, <1>3, <1>5, <1>6, <1>7, <1>8, <1>9, <1>10, <1>11, <1>12,
     <1>13, <1>14, <1>15, <1>16, <1>17, <1>18, <1>19, <1>12a
  DEF Next, Updater

\* Whatever fails or is killed, every variable keeps its type and there is
\* always an installed file.
THEOREM TypeCorrect == Spec => []TypeOK
<1>1. TypeInv => TypeOK
  BY DEF TypeInv
<1> QED
  BY TypeInit, TypeStep, <1>1, PTL DEF Spec

-----------------------------------------------------------------------------
(***************************************************************************)
(* Safety, where copies succeed.  The invariant says where the previous    *)
(* binary is at every step: still installed until the swap, in vlb.bak     *)
(* from then on, and on its way back during a rollback.  An update from a  *)
(* dashboard that runs from a replaced file never touches the installed    *)
(* one.                                                                    *)
(***************************************************************************)
Untouched == {"open", "fill", "verify", "validate", "preflight", "ask",
              "backup", "copy", "swap"}

StillInstalled ==
    pc \in Untouched \/ job.target = "deleted" => file["installed"] = job.previous

Saved ==
    job.target = "installed" /\ pc \in {"swap", "restart", "watch", "putBack",
                                        "copyBack", "swapBack", "restartBack"}
        => file["backup"] = job.previous

Returning ==
    job.target = "installed" =>
        /\ pc = "swapBack" => file["restored"] = job.previous
        /\ pc = "restartBack" => file["installed"] = job.previous

Watched == pc = "watch" => running \in {file["installed"], None}

Pending == pc # "idle" => job.result = "none"

SafetyInv ==
    /\ TypeInv
    /\ job.previous \in Accepts
    /\ StillInstalled /\ Saved /\ Returning /\ Watched /\ Pending
    /\ InstalledStarts /\ PreviousIsAtHand /\ ReportIsTrue
    /\ UpdateKeepsServiceUp

\* A fresh installation is safe.
LEMMA SafetyInit == Init => SafetyInv
<1> SUFFICES ASSUME Init PROVE SafetyInv
  OBVIOUS
<1>1. PICK b \in Serves :
         /\ file = [n \in Names |-> IF n = "installed" THEN b ELSE None]
         /\ running \in {b, None}
         /\ pc = "idle"
         /\ job = [release |-> b, target |-> "installed", wasActive |-> FALSE,
                   polls |-> 0, result |-> "none", previous |-> b, mishap |-> FALSE]
  BY DEF Init
<1>2. b \in Accepts /\ file["installed"] = b
  BY <1>1, UpdateAssumption DEF Names
<1> QED
  BY <1>1, <1>2, TypeInit
  DEF SafetyInv, StillInstalled, Saved, Returning, Watched, Pending, Untouched,
      InstalledStarts, PreviousIsAtHand, ReportIsTrue, UpdateKeepsServiceUp

\* Where copies succeed, every step keeps the previous binary within reach.
LEMMA SafetyStep ==
  ASSUME "copy" \notin Faults
  PROVE  SafetyInv /\ [Next]_vars => SafetyInv'
<1> SUFFICES ASSUME SafetyInv, [Next]_vars PROVE SafetyInv'
  OBVIOUS
<1>t. TypeInv'
  BY TypeStep DEF SafetyInv
<1> DEFINE Rest == /\ job.previous \in Accepts
                   /\ StillInstalled /\ Saved /\ Returning /\ Watched /\ Pending
                   /\ InstalledStarts /\ PreviousIsAtHand /\ ReportIsTrue
                   /\ UpdateKeepsServiceUp
<1> SUFFICES Rest'
  BY <1>t DEF SafetyInv
<1>0. /\ file \in [Names -> Content] /\ job \in Job
      /\ job.target \in {"installed", "deleted"} /\ job.release \in Content
      /\ job.previous \in Accepts /\ ~Fault("copy")
  BY UpdateAssumption DEF SafetyInv, TypeInv, TypeOK, Job, Content, Fault
<1> USE Basics
    DEF SafetyInv, StillInstalled, Saved, Returning, Watched, Pending, Untouched,
        InstalledStarts, PreviousIsAtHand, ReportIsTrue, UpdateKeepsServiceUp
<1>1. ASSUME NEW b \in Builds, NEW again \in BOOLEAN, Begin(b, again)
      PROVE  Rest'
  BY <1>1 DEF Begin
<1>2. CASE OpenStaged
  <2>1. CASE Put("staged", Torn) /\ Go("fill")
    BY <1>0, <1>2, <2>1, PutEffect, GoEffect DEF OpenStaged
  <2>2. CASE GiveUp("failed") /\ file' = file
    BY <1>0, <1>2, <2>2, ReturnEffect DEF OpenStaged, Results
  <2> QED
    BY <1>2, <2>1, <2>2 DEF OpenStaged
<1>3. CASE FillStaged
  <2>1. CASE Put("staged", job.release) /\ Go("verify")
    BY <1>0, <1>3, <2>1, PutEffect, GoEffect DEF FillStaged
  <2>2. CASE GiveUp("failed") /\ file' = file
    BY <1>0, <1>3, <2>2, ReturnEffect DEF FillStaged, Results
  <2> QED
    BY <1>3, <2>1, <2>2 DEF FillStaged
<1>4. ASSUME NEW at \in {"verify", "validate", "preflight"}, NEW good,
             NEW next \in {"validate", "preflight", "ask"}, Check(at, good, next)
      PROVE  Rest'
  <2>1. pc = at /\ running' = running /\ file["installed"] = job.previous
    BY <1>4 DEF Check
  <2>2. CASE Go(next) /\ file' = file
    <3>1. /\ pc' = next /\ job'.result = "none"
          /\ job'.previous = job.previous /\ job'.target = job.target
      BY <1>0, <1>4, <2>1, <2>2, GoEffect
    <3> QED
      BY <1>0, <2>1, <2>2, <3>1
  <2>3. CASE Put("staged", None) /\ Return("refused")
    <3>1. /\ pc' = "idle" /\ job'.result = "refused"
          /\ job'.previous = job.previous /\ job'.target = job.target
      BY <1>0, <2>3, ReturnEffect DEF Results
    <3>2. file'["installed"] = file["installed"] /\ file'["staged"] = None
      BY <1>0, <2>3, PutEffect
    <3> QED
      BY <1>0, <2>1, <3>1, <3>2
  <2> QED
    BY <1>4, <2>2, <2>3 DEF Check
<1>5. CASE Verify \/ Validate \/ Preflight
  BY <1>5, <1>4 DEF Verify, Validate, Preflight
<1>6. CASE AskActive
  <2>1. /\ job'.result = job.result /\ job'.previous = job.previous
        /\ job'.target = job.target
    BY <1>0, <1>6 DEF AskActive, Job
  <2> QED
    BY <1>0, <1>6, <2>1 DEF AskActive
<1>7. CASE OpenBackup
  <2>1. pc = "backup" /\ running' = running /\ file["installed"] = job.previous
    BY <1>7 DEF OpenBackup
  <2>2. CASE Put("backup", Torn) /\ Go("copy")
    BY <1>0, <2>1, <2>2, PutEffect, GoEffect
  <2>3. CASE file[job.target] = None /\ Go("swap") /\ file' = file
    <3>1. job.target = "deleted"
      BY <1>0, <2>1, <2>3
    <3> QED
      BY <1>0, <2>1, <2>3, <3>1, GoEffect
  <2> QED
    BY <1>0, <1>7, <2>2, <2>3 DEF OpenBackup
<1>8. CASE FillBackup
  <2>1. pc = "copy" /\ running' = running /\ file["installed"] = job.previous
    BY <1>8 DEF FillBackup
  <2>2. Put("backup", file[job.target]) /\ Go("swap")
    BY <1>0, <1>8 DEF FillBackup
  <2>3. file[job.target] \in Content
    BY <1>0
  <2>4. /\ file'["backup"] = file[job.target]
        /\ file'["installed"] = file["installed"]
    BY <1>0, <2>2, <2>3, PutEffect
  <2>5. /\ pc' = "swap" /\ job'.result = "none"
        /\ job'.previous = job.previous /\ job'.target = job.target
    BY <1>0, <2>1, <2>2, GoEffect
  <2> QED
    BY <1>0, <2>1, <2>4, <2>5
<1>9. CASE Swap
  <2>1. /\ pc = "swap" /\ running' = running /\ file["installed"] = job.previous
        /\ file["staged"] \in Accepts
        /\ job.target = "installed" => file["backup"] = job.previous
    BY <1>9 DEF Swap, TypeInv, Proven
  <2>2. CASE /\ Move("staged", job.target)
             /\ IF job.wasActive THEN Go("restart") ELSE Return("installed")
    <3>1. /\ job'.previous = job.previous /\ job'.target = job.target
          /\ job'.wasActive = job.wasActive
          /\ \/ pc' = "restart" /\ job'.result = "none"
             \/ pc' = "idle" /\ job'.result = "installed" /\ ~job.wasActive
      BY <1>0, <2>1, <2>2, GoEffect, ReturnEffect DEF Results
    <3>2. CASE job.target = "installed"
      <4>1. /\ file'["installed"] = file["staged"]
            /\ file'["backup"] = file["backup"]
        BY <1>0, <2>2, <3>2, MoveEffect
      <4> QED
        BY <1>0, <2>1, <3>1, <3>2, <4>1
    <3>3. CASE job.target = "deleted"
      <4>1. file'["installed"] = file["installed"]
        BY <1>0, <2>2, <3>3, MoveEffect
      <4> QED
        BY <1>0, <2>1, <3>1, <3>3, <4>1
    <3> QED
      BY <1>0, <3>2, <3>3
  <2>3. CASE GiveUp("failed") /\ file' = file
    <3>1. /\ pc' = "idle" /\ job'.result = "failed" /\ job'.mishap
          /\ job'.previous = job.previous /\ job'.target = job.target
      BY <1>0, <2>3, ReturnEffect DEF Results
    <3> QED
      BY <1>0, <2>1, <2>3, <3>1
  <2> QED
    BY <1>9, <2>2, <2>3 DEF Swap
<1>10. CASE RestartNew
  <2>1. /\ pc = "restart" /\ file' = file
        /\ pc' \in {"watch", "putBack"} /\ job'.result = "none"
        /\ job'.previous = job.previous /\ job'.target = job.target
    BY <1>0, <1>10, GoEffect DEF RestartNew
  <2>2. pc' = "watch" => running' = file["installed"]
    BY <1>0, <1>10, GoEffect DEF RestartNew
  <2> QED
    BY <1>0, <2>1, <2>2
<1>11. CASE Gone
  <2>1. /\ pc = "watch" /\ file' = file /\ pc' = "putBack" /\ job'.result = "none"
        /\ job'.previous = job.previous /\ job'.target = job.target
    BY <1>0, <1>11, GoEffect DEF Gone
  <2> QED
    BY <1>0, <2>1
<1>12. CASE Answered \/ Deadline
  <2>1. /\ pc = "watch" /\ file' = file /\ pc' = "idle"
        /\ job'.result = "installed" /\ job'.polls = job.polls
        /\ job'.previous = job.previous /\ job'.target = job.target
    BY <1>0, <1>12, ReturnEffect DEF Answered, Deadline, Results
  <2>2. (running \in Serves /\ running # None) \/ job.polls = Patience
    BY <1>12, UpdateAssumption DEF Answered, Deadline
  <2> QED
    BY <1>0, <2>1, <2>2
<1>12a. CASE Unanswered
  <2>1. /\ pc = "watch" /\ UNCHANGED <<file, running, pc>>
        /\ job'.result = job.result /\ job'.wasActive = job.wasActive
        /\ job'.mishap = job.mishap
        /\ job'.previous = job.previous /\ job'.target = job.target
    BY <1>0, <1>12a DEF Unanswered, Job
  <2> QED
    BY <1>0, <2>1
<1>13. CASE PutBack
  <2>1. pc = "putBack" /\ running' = running /\ replaced' = replaced
    BY <1>13 DEF PutBack
  <2>2. CASE Put("restored", Torn) /\ Go("copyBack")
    BY <1>0, <2>1, <2>2, PutEffect, GoEffect
  <2>3. CASE file["backup"] = None /\ Return("stuck") /\ file' = file
    <3>1. job.target = "deleted"
      BY <1>0, <2>1, <2>3, UpdateAssumption
    <3>2. /\ pc' = "idle" /\ job'.result = "stuck"
          /\ job'.previous = job.previous /\ job'.target = job.target
      BY <1>0, <2>3, ReturnEffect DEF Results
    <3> QED
      BY <1>0, <2>1, <2>3, <3>1, <3>2
  <2> QED
    BY <1>0, <1>13, <2>2, <2>3 DEF PutBack
<1>14. CASE CopyBack
  <2>1. pc = "copyBack" /\ Put("restored", file["backup"]) /\ Go("swapBack")
    BY <1>0, <1>14 DEF CopyBack
  <2>2. /\ file'["restored"] = file["backup"] /\ file'["backup"] = file["backup"]
        /\ file'["installed"] = file["installed"]
    BY <1>0, <2>1, PutEffect
  <2>3. /\ pc' = "swapBack" /\ job'.result = "none"
        /\ job'.previous = job.previous /\ job'.target = job.target
    BY <1>0, <2>1, GoEffect
  <2> QED
    BY <1>0, <2>1, <2>2, <2>3
<1>15. CASE SwapBack
  <2>1. pc = "swapBack" /\ running' = running
    BY <1>15 DEF SwapBack
  <2>2. CASE Move("restored", job.target) /\ Go("restartBack")
    <3>1. /\ pc' = "restartBack" /\ job'.result = "none"
          /\ job'.previous = job.previous /\ job'.target = job.target
      BY <1>0, <2>1, <2>2, GoEffect
    <3>2. CASE job.target = "installed"
      <4>1. /\ file'["installed"] = file["restored"]
            /\ file'["backup"] = file["backup"]
        BY <1>0, <2>2, <3>2, MoveEffect
      <4> QED
        BY <1>0, <2>1, <3>1, <3>2, <4>1
    <3>3. CASE job.target = "deleted"
      <4>1. file'["installed"] = file["installed"]
        BY <1>0, <2>2, <3>3, MoveEffect
      <4> QED
        BY <1>0, <2>1, <3>1, <3>3, <4>1
    <3> QED
      BY <1>0, <3>2, <3>3
  <2>3. CASE GiveUp("stuck") /\ file' = file
    <3>1. /\ pc' = "idle" /\ job'.result = "stuck" /\ job'.mishap
          /\ job'.previous = job.previous /\ job'.target = job.target
      BY <1>0, <2>3, ReturnEffect DEF Results
    <3> QED
      BY <1>0, <2>1, <2>3, <3>1
  <2> QED
    BY <1>15, <2>2, <2>3 DEF SwapBack
<1>16. CASE RestartBack
  <2>1. /\ pc = "restartBack" /\ file' = file /\ pc' = "idle"
        /\ job'.result \in {"rolledBack", "stuck"}
        /\ job'.previous = job.previous /\ job'.target = job.target
    BY <1>0, <1>16, ReturnEffect DEF RestartBack, Results
  <2>2. file["installed"] = job.previous
    BY <1>0, <2>1
  <2> QED
    BY <1>0, <2>1, <2>2
<1>17. CASE Die \/ Start
  BY <1>17 DEF Die, Start
<1>18. CASE Kill
  <2>1. /\ job'.previous = job.previous /\ job'.target = job.target
        /\ job'.mishap /\ pc' = "idle" /\ file' = file
        /\ job'.result = IF pc = "idle" THEN job.result ELSE "killed"
    BY <1>0, <1>18 DEF Kill, Job
  <2> QED
    BY <1>0, <2>1
<1>19. CASE UNCHANGED vars
  BY <1>19 DEF vars
<1> QED
  BY <1>1, <1>2, <1>3, <1>5, <1>6, <1>7, <1>8, <1>9, <1>10, <1>11, <1>12,
     <1>13, <1>14, <1>15, <1>16, <1>17, <1>18, <1>19, <1>12a
  DEF Next, Updater

(***************************************************************************)
(* The theorems.  They hold for any builds and any other faults, kills and *)
(* reboots included.                                                       *)
(***************************************************************************)
LEMMA Safety == ASSUME "copy" \notin Faults PROVE Spec => []SafetyInv
BY SafetyInit, SafetyStep, PTL DEF Spec

\* Through any sequence of updates, refusals, rollbacks and kills the unit's
\* file is a build that accepts the configuration.
THEOREM InstalledAlwaysStarts == ASSUME "copy" \notin Faults PROVE Spec => []InstalledStarts
<1>1. SafetyInv => InstalledStarts
  BY DEF SafetyInv
<1> QED
  BY Safety, <1>1, PTL

\* The binary an update replaced can be put back until the next update.
THEOREM NeverOutOfReach == ASSUME "copy" \notin Faults PROVE Spec => []PreviousIsAtHand
<1>1. SafetyInv => PreviousIsAtHand
  BY DEF SafetyInv
<1> QED
  BY Safety, <1>1, PTL

\* "Rolled back" means that what was installed before is installed again, and
\* a refused update leaves the installed binary and no staged file.
THEOREM ReportsAreTrue == ASSUME "copy" \notin Faults PROVE Spec => []ReportIsTrue
<1>1. SafetyInv => ReportIsTrue
  BY DEF SafetyInv
<1> QED
  BY Safety, <1>1, PTL

\* An update no fault hit leaves a running service on a build that answered, on
\* the build it had, or on one that ran at every question asked in 30 s.
THEOREM ServiceStaysUp == ASSUME "copy" \notin Faults PROVE Spec => []UpdateKeepsServiceUp
<1>1. SafetyInv => UpdateKeepsServiceUp
  BY DEF SafetyInv
<1> QED
  BY Safety, <1>1, PTL
=============================================================================
