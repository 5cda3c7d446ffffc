----------------------------- MODULE Detectors -----------------------------
(* pkg/detector: what one detector answers, and Engine.Evaluate over their   *)
(* list.  Runner.RunOnce drops the whole pass on an error, so the verdict    *)
(* counts only when every detector has answered.                             *)
EXTENDS Integers, Sequences, SequencesExt

Answers == {"clear", "reboot", "error", "cancelled"}

(* FileDetector.Check, from the outcome of a stat of the path.               *)
CheckFile(stat) ==
  CASE stat = "present" -> "reboot"
    [] stat = "absent"  -> "clear"
    [] OTHER            -> "error"

(* commandDetector.EvaluateCommand: a command that ran to its end has an     *)
(* exit status; without exit codes of its own any status but zero counts.    *)
CheckCommand(exitCodes, end) ==
  IF ~end.exited THEN "error"        \* timed out, or could not be started
  ELSE IF \/ exitCodes = {} /\ end.status # 0
          \/ end.status \in exitCodes
  THEN "reboot"
  ELSE "clear"

Unasked == [requires |-> FALSE, problems |-> FALSE, stopped |-> FALSE]

(* Slip: the last answer decides.                                            *)
ExamineLast(v, answer) ==
  IF v.stopped THEN v
  ELSE [requires |-> answer = "reboot",
        problems |-> v.problems \/ answer = "error",
        stopped  |-> answer = "cancelled"]

(* The body of Evaluate's loop: an error is noted and the loop goes on, a    *)
(* cancelled context ends it.                                                *)
Examine(v, answer) ==
  IF v.stopped THEN v
  ELSE [requires |-> answer # "cancelled" /\ (v.requires \/ answer = "reboot"),
        problems |-> v.problems \/ answer = "error",
        stopped  |-> answer = "cancelled"]

(* What RunOnce makes of it.                                                 *)
Evaluate(answers) ==
  LET v == FoldLeft(Examine, Unasked, answers)
  IN  IF v.stopped \/ v.problems THEN "error"
      ELSE IF v.requires THEN "reboot" ELSE "clear"
=============================================================================
