----------------------------- MODULE TrialStore -----------------------------
(***************************************************************************)
(* What the pad service relies on when it hands a window to its writer: a  *)
(* trial becomes visible in one step or not at all, windows are answered   *)
(* once and in the order they were handed over, and an answer says whether *)
(* the trial is there.  Files, the worker and its steps are hidden;        *)
(* WindowWriter implements this specification.                             *)
(***************************************************************************)
EXTENDS Naturals, Sequences

CONSTANTS Trials, Capacity

VARIABLES
  waiting,   (* windows accepted and not answered, oldest first            *)
  answers,   (* answers not yet taken                                      *)
  trials,    (* identifier -> window that is the complete trial, 0 if none *)
  accepted   (* serial number of the last window accepted                  *)

vars == <<waiting, answers, trials, accepted>>

Init ==
  /\ waiting = <<>>
  /\ answers = <<>>
  /\ trials = [t \in Trials |-> 0]
  /\ accepted = 0

\* One window may be in the writer's hands beside a full queue.
Accept(t) ==
  /\ Len(waiting) <= Capacity
  /\ accepted' = accepted + 1
  /\ waiting' = Append(waiting, [id |-> t, n |-> accepted'])
  /\ UNCHANGED <<answers, trials>>

\* The oldest window becomes a trial, under an identifier that names none.
Appear ==
  /\ waiting # <<>>
  /\ LET w == Head(waiting)
     IN trials[w.id] = 0 /\ trials' = [trials EXCEPT ![w.id] = w.n]
  /\ UNCHANGED <<waiting, answers, accepted>>

\* It is withdrawn again before it is answered, when its size cannot be read.
Withdraw ==
  /\ waiting # <<>>
  /\ LET w == Head(waiting)
     IN trials[w.id] = w.n /\ trials' = [trials EXCEPT ![w.id] = 0]
  /\ UNCHANGED <<waiting, answers, accepted>>

Answer ==
  /\ waiting # <<>>
  /\ LET w == Head(waiting)
     IN answers' = Append(answers, [id |-> w.id, n |-> w.n, ok |-> trials[w.id] = w.n])
  /\ waiting' = Tail(waiting)
  /\ UNCHANGED <<trials, accepted>>

Take == answers' = <<>> /\ UNCHANGED <<waiting, trials, accepted>>

\* The process ends: what was not answered is forgotten, trials stay.
Stop == waiting' = <<>> /\ answers' = <<>> /\ UNCHANGED <<trials, accepted>>

Next ==
  \/ \E t \in Trials : Accept(t)
  \/ Appear \/ Withdraw \/ Answer \/ Take \/ Stop

Spec == Init /\ [][Next]_vars
=============================================================================
