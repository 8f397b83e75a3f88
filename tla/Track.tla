------------------------------- MODULE Track -------------------------------
(***************************************************************************)
(* What a track of parallel branches promises its caller, whatever the     *)
(* scheduler does inside: it reaches at most one verdict, keeps the first  *)
(* one, admits no further work once it has one, and answers "completed"    *)
(* only when it is quiet and undecided.                                    *)
(***************************************************************************)
CONSTANTS
  Task,       \* everything that may ever be open on the track
  Verdicts,   \* the ways a track can be decided
  Undecided,  \* no verdict yet; not one of Verdicts
  Report(_)   \* what a verdict is called in the answer

VARIABLES
  open,       \* tasks that are queued, parked or have a worker
  verdict,    \* the first verdict
  answer      \* what the caller was told; "none" while nothing was said

vars == <<open, verdict, answer>>

Init ==
  /\ open \subseteq Task
  /\ verdict = Undecided
  /\ answer = "none"

\* While the track is undecided and alive, tasks open and close freely.
Work ==
  /\ verdict = Undecided /\ open # {} /\ answer = "none"
  /\ open' \subseteq Task
  /\ UNCHANGED <<verdict, answer>>

\* The first verdict; it opens nothing.
Decide(v) ==
  /\ verdict = Undecided /\ answer = "none"
  /\ verdict' = v
  /\ open' \subseteq open
  /\ UNCHANGED answer

\* After the verdict tasks only close, before and after the answer.
WindDown ==
  /\ verdict # Undecided
  /\ open' \subseteq open
  /\ UNCHANGED <<verdict, answer>>

\* The answer is the verdict; without one, every task must have closed.
Answer ==
  /\ answer = "none"
  /\ verdict = Undecided => open = {}
  /\ answer' = Report(verdict)
  /\ open' \subseteq open
  /\ UNCHANGED verdict

Next == Work \/ (\E v \in Verdicts : Decide(v)) \/ WindDown \/ Answer

Spec == Init /\ [][Next]_vars

=============================================================================
