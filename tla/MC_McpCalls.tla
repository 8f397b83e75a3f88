---------------------------- MODULE MC_McpCalls ----------------------------
(***************************************************************************)
(* A run that is driven by a first process and continued by a second: by   *)
(* two continues at once, or by one, with a call of an MCP client beside   *)
(* them, of trst_watch or of the tools that start, answer and continue     *)
(* runs.                                                                   *)
(***************************************************************************)
EXTENDS RunWatch, McpCalls

CONSTANTS f, c1, c2, c3, p, q

VARIABLE part  \* "drivers": f, c2 and c3 at work; "calls": f and c1, and a call

MCPidOf == [a \in Attempt |-> IF a = f THEN p ELSE q]

MCInit ==
    /\ part \in {"drivers", "calls"}
    /\ WatchInit /\ McpInit
    /\ part = "drivers" => call = NoCall

\* Bound: the attempts that have no part stay idle.
Absent(attempts) == \A a \in attempts : pc'[a] = pc[a]

\* The call of trst_watch, or the call of another tool.
\* Bound: what processes do after a reply that blames none of them is what they do
\* beside trst_watch.
Followed == call.stage = "over" => call.reply \in {"exited", "noSpawn"}

\* Bound: a reply that depends on the files of the tools alone comes before the run.
Once == call'.reply \in {"listed", "invalid", "unknown", "noEntry"} => trail = <<>> \/ call.stage = "resolving"

\* Bound: no pid is given away beside these calls, which test none.
NoReuse == reused' = reused

\* Bound: no step ends beside the drivers.  Its event moves no lock and no attempt, and
\* nothing an attempt does depends on it.
Quiet == ~ EndsWith(trail', "step.completed")

MCNext ==
    /\ UNCHANGED part
    /\ \/ part = "drivers" /\ Next /\ Quiet /\ Absent({c1}) /\ UNCHANGED <<watch, callVars>>
       \/ /\ part = "calls"
          /\ \/ call.tool = "trst_watch" /\ WatchNext /\ UNCHANGED callVars
             \/ call.tool # "trst_watch" /\ Followed /\ McpNext /\ Once /\ NoReuse /\ UNCHANGED watch
          /\ Absent({c2, c3})

MCSpec == MCInit /\ [][MCNext]_<<part, watchVars, callVars>> /\ Fairness

\* Every variable ranges over what the code can store in it.
ServerTypeOK == TypeOK /\ WatchTypeOK /\ CallTypeOK
=============================================================================
