------------------------------ MODULE AgentLoop ------------------------------
(***************************************************************************)
(* A run of an agent: a model is asked, the tools it asks for are run, it  *)
(* is asked again with their results, until it ends its turn, something    *)
(* fails, or rounds or time are used up.  The streaming endpoint has a     *)
(* loop of its own, without a clock and without an end for what it does    *)
(* not expect.                                                             *)
(***************************************************************************)
EXTENDS Integers, Sequences, FiniteSets, SequencesExt, FiniteSetsExt

CONSTANTS
    MaxIterations,         \* max_iterations
    Timeout, ApiCap, ToolCap,   \* timeout_secs, and the limits of one call, 60 s and 30 s
    Low, Slack,            \* 5 s: not asked again; 2 s: kept back when it is asked
    MaxTools               \* bound: the tools asked for at once

VARIABLES
    mode,        \* "run": run_agent; "stream": /agent/research/stream
    clock,       \* time since the start; a stream does not look at it
    pc, iteration,
    messages,    \* the history: what the model said, and the results it was given
    results,     \* of the tools of this round: [tool, error]
    called,      \* tools_called
    outcome      \* what is returned

vars == <<mode, clock, pc, iteration, messages, results, called, outcome>>

None == [answer |-> 0]
NoText == 0

Init ==
    /\ mode \in {"run", "stream"} /\ clock = 0 /\ pc = "ask" /\ iteration = 0
    /\ messages = <<>> /\ results = <<>> /\ called = <<>> /\ outcome = None

Said(m) == m.role = "assistant"

\* _extract_last_text: texts are numbered as they come.
LastText(history) == Max({ m.text : m \in { m \in ToSet(history) : Said(m) } } \cup {NoText})

Return(answer, rounds, late, error) ==
    /\ pc' = "done"
    /\ outcome' = [answer |-> answer, iterations |-> rounds, tools |-> called, late |-> late, error |-> error]

Asking == pc = "ask" /\ iteration < MaxIterations
TimeLeft == mode = "stream" \/ Timeout - clock > Low

\* A variant of ApiLimit that forgets what time is left.
ApiLimitAlone == ApiCap

\* The limit of the next call of the model.
ApiLimit == IF mode = "stream" THEN ApiCap ELSE Min({Timeout - clock - Slack, ApiCap})

Pass(d) == clock' = IF mode = "stream" THEN clock ELSE clock + d

TooLate ==
    /\ Asking /\ ~TimeLeft /\ Return(LastText(messages), iteration, TRUE, TRUE)
    /\ UNCHANGED <<mode, clock, iteration, messages, results, called>>

CallTimesOut ==
    /\ Asking /\ TimeLeft /\ Pass(ApiLimit)
    /\ Return(LastText(messages), iteration, mode = "run", TRUE)
    /\ UNCHANGED <<mode, iteration, messages, results, called>>

CallFails ==
    /\ Asking /\ TimeLeft /\ \E d \in 0 .. ApiLimit : Pass(d)
    /\ Return(LastText(messages), iteration, FALSE, TRUE)
    /\ UNCHANGED <<mode, iteration, messages, results, called>>

\* The model answers, with a text or none, and with the tools it wants run.
Reply(stop, talks, n) ==
    /\ Asking /\ TimeLeft /\ \E d \in 0 .. ApiLimit : Pass(d)
    /\ (stop = "tool_use") <=> (n > 0)
    /\ messages' = Append(messages, [role |-> "assistant", stop |-> stop,
                                     text |-> IF talks THEN iteration + 1 ELSE NoText,
                                     tools |-> [k \in 1 .. n |-> <<iteration, k>>]])
    /\ CASE stop = "end_turn" ->
              Return(Last(messages').text, iteration + 1, FALSE, FALSE) /\ UNCHANGED iteration
         [] stop = "tool_use" -> pc' = "tools" /\ UNCHANGED <<outcome, iteration>>
         [] stop = "other" /\ mode = "run" ->
              Return(LastText(messages'), MaxIterations, FALSE, TRUE) /\ UNCHANGED iteration
         [] stop = "other" /\ mode = "stream" ->
              iteration' = iteration + 1 /\ UNCHANGED <<pc, outcome>>
    /\ UNCHANGED <<mode, results, called>>

\* One tool: its result, or an error, also when it takes too long.  After the
\* last one the results go into the history.
RunTool ==
    LET wanted == Last(messages).tools
        tool == wanted[Len(results) + 1]
        done == Len(results) + 1 = Len(wanted)
    IN  /\ pc = "tools"
        /\ \E d \in 0 .. ToolCap, error \in BOOLEAN :
               LET all == Append(results, [tool |-> tool, error |-> error])
               IN  /\ Pass(d) /\ (d = ToolCap /\ mode = "run" => error)
                   /\ results' = IF done THEN <<>> ELSE all
                   /\ messages' = IF done THEN Append(messages, [role |-> "user", results |-> all])
                                  ELSE messages
        /\ called' = Append(called, tool)
        /\ pc' = IF done THEN "ask" ELSE "tools"
        /\ iteration' = IF done THEN iteration + 1 ELSE iteration
        /\ UNCHANGED <<mode, outcome>>

Exhausted ==
    /\ pc = "ask" /\ iteration = MaxIterations
    /\ Return(LastText(messages), MaxIterations, FALSE, TRUE)
    /\ UNCHANGED <<mode, clock, iteration, messages, results, called>>

Next ==
    \/ TooLate \/ CallTimesOut \/ CallFails \/ RunTool \/ Exhausted
    \/ \E stop \in {"end_turn", "tool_use", "other"}, talks \in BOOLEAN, n \in 0 .. MaxTools :
           Reply(stop, talks, n)

Spec == Init /\ [][Next]_vars

-----------------------------------------------------------------------------
\* Where the model spoke.
Replies == { i \in DOMAIN messages : Said(messages[i]) }

\* Tools are named by round and place: these are the ones asked for, each once, in the
\* order asked.
AskedFor(tools) ==
    /\ ToSet(tools) = UNION { ToSet(messages[i].tools) : i \in Replies }
    /\ \A i, j \in DOMAIN tools : i < j =>
          tools[i][1] < tools[j][1] \/ (tools[i][1] = tools[j][1] /\ tools[i][2] < tools[j][2])

(* When the model is asked again, each tool it asked for has one result,   *)
(* in the message that follows and in the order asked, and tools_called    *)
(* names every tool run, once (the API refuses a history without that).    *)
EveryToolAnswered ==
    /\ \A i \in DOMAIN messages : Said(messages[i]) /\ messages[i].tools # <<>> /\ pc = "ask" =>
           /\ i < Len(messages) /\ ~Said(messages[i + 1])
           /\ [k \in DOMAIN messages[i + 1].results |-> messages[i + 1].results[k].tool]
                  = messages[i].tools
    /\ pc = "ask" => AskedFor(called)

(* A run overshoots its wall clock by the tools of one round at most, and  *)
(* asks the model no more often than allowed (run_agent).                  *)
InTime == clock <= Timeout - Slack + MaxTools * ToolCap /\ Cardinality(Replies) <= MaxIterations

(* What is returned is what happened: no error iff the model ended its     *)
(* turn, whose text is then the answer; else the last it said.             *)
OutcomeTrue ==
    pc = "done" =>
        /\ ~outcome.error <=> messages # <<>> /\ Said(Last(messages)) /\ Last(messages).stop = "end_turn"
        /\ outcome.answer = IF outcome.error THEN LastText(messages) ELSE Last(messages).text
        /\ outcome.late => outcome.error
        /\ ~outcome.error => outcome.iterations = Cardinality(Replies)
        /\ AskedFor(outcome.tools)

(* A run of an agent is accounted for.                                     *)
AgentAccounted == EveryToolAnswered /\ InTime /\ OutcomeTrue

(* "Wall-clock timeout for the entire agent run" (agent_loop.py:72), but   *)
(* the tools of a round are not in it.                                     *)
WholeRunInTime == clock <= Timeout

(* "number of tool-call rounds used" (agent_loop.py:78), but a run that    *)
(* ends by an unexpected stop reason says it used them all.                *)
RoundsTrue == pc = "done" /\ mode = "run" => outcome.iterations = Cardinality(Replies)
=============================================================================
