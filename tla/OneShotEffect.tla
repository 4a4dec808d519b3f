---------------------------- MODULE OneShotEffect ----------------------------
(***************************************************************************)
(* What the provider dispatch promises about an external effect: it is      *)
(* performed at most once, and the verdict about it, given once, can be     *)
(* relied on.  NOT_DONE is only said of an effect that was not and will not *)
(* be performed, DONE only with the result the performance returned.        *)
(* UNKNOWN promises nothing, and is all that remains to be said when the    *)
(* answer was lost.                                                         *)
(***************************************************************************)
CONSTANTS Effects, Answers, NoAnswer

VARIABLES
  performed,        \* performed[e]: how often e was performed
  answer,           \* answer[e]: what the performance returned
  verdict           \* verdict[e]

effectVars == <<performed, answer, verdict>>

Open == [said |-> "OPEN", result |-> NoAnswer]
NotDone == [said |-> "NOT_DONE", result |-> NoAnswer]
Unknown == [said |-> "UNKNOWN", result |-> NoAnswer]
Done(r) == [said |-> "DONE", result |-> r]

EffectInit ==
  /\ performed = [e \in Effects |-> 0]
  /\ answer = [e \in Effects |-> NoAnswer]
  /\ verdict = [e \in Effects |-> Open]

\* The effect happens; its answer may be lost.
Perform(e) ==
  /\ performed[e] = 0
  /\ verdict[e] \in {Open, Unknown}
  /\ performed' = [performed EXCEPT ![e] = 1]
  /\ \E r \in Answers \cup {NoAnswer} : answer' = [answer EXCEPT ![e] = r]
  /\ UNCHANGED verdict

Judge(e) ==
  /\ verdict[e] = Open
  /\ \/ verdict' = [verdict EXCEPT ![e] = Unknown]
     \/ performed[e] = 0 /\ verdict' = [verdict EXCEPT ![e] = NotDone]
     \/ answer[e] # NoAnswer /\ verdict' = [verdict EXCEPT ![e] = Done(answer[e])]
  /\ UNCHANGED <<performed, answer>>

EffectNext == \E e \in Effects : Perform(e) \/ Judge(e)

EffectSpec == EffectInit /\ [][EffectNext]_effectVars
=============================================================================
