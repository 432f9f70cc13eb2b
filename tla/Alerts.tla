------------------------------- MODULE Alerts -------------------------------
(***************************************************************************)
(* The alert queue.  The executor and the risk engine RPUSH alerts and     *)
(* never wait; one consumer takes them off with BLPOP and sends each to    *)
(* all channels at once, waiting on each channel until MinInterval has     *)
(* passed since that channel's last answer.  Nothing is retried: an alert  *)
(* is lost with a failed RPUSH, an unreadable payload, a send a channel    *)
(* refuses or that raises, and with the process that holds it.             *)
(***************************************************************************)
EXTENDS Sequences, Integers

CONSTANTS
    Channels,      \* telegram, discord: those that are configured
    MinInterval,   \* ALERT_MIN_INTERVAL_SECONDS
    MaxAlerts, MaxRestarts   \* bounds

Alert == 1 .. MaxAlerts
None  == 0

VARIABLES
    raised,       \* alerts raised so far, numbered in order
    queue,        \* notifications:queue
    held,         \* the alert the consumer has popped
    sending,      \* of each channel: "idle", "wait" or "post"
    lastSent,     \* how long ago _LAST_SENT of each channel is; no longer than MinInterval counts
    delivered,    \* of each channel: the alerts it accepted
    answers,      \* of each channel: how long ago it last answered this process
    hasty,        \* a send began within MinInterval of an answer to the same process
    restarts

vars == <<raised, queue, held, sending, lastSent, delivered, answers, hasty, restarts>>

Init ==
    /\ raised = 0 /\ queue = <<>> /\ held = None
    /\ sending = [c \in Channels |-> "idle"]
    /\ lastSent = [c \in Channels |-> MinInterval]
    /\ answers = [c \in Channels |-> MinInterval]
    /\ delivered = [c \in Channels |-> <<>>]
    /\ hasty = FALSE /\ restarts = 0

Older(ages) == [c \in Channels |-> IF ages[c] < MinInterval THEN ages[c] + 1 ELSE ages[c]]

Tick ==
    /\ lastSent' = Older(lastSent) /\ answers' = Older(answers)
    /\ UNCHANGED <<raised, queue, held, sending, delivered, hasty, restarts>>

\* _notify: what RPUSH raises is swallowed.
Notify ==
    /\ raised < MaxAlerts /\ raised' = raised + 1
    /\ queue' \in {queue, Append(queue, raised + 1)}
    /\ UNCHANGED <<held, sending, lastSent, delivered, answers, hasty, restarts>>

\* A payload that does not parse, or that format_text cannot render, is dropped
\* here; the others go to every channel at once.
Pop ==
    /\ held = None /\ queue # <<>> /\ queue' = Tail(queue)
    /\ \/ /\ held' = Head(queue)
          /\ sending' = [c \in Channels |-> "wait"]
       \/ UNCHANGED <<held, sending>>
    /\ UNCHANGED <<raised, lastSent, delivered, answers, hasty, restarts>>

\* send: asyncio.sleep of what is left of the interval, then the request.
Post(c) ==
    /\ sending[c] = "wait" /\ lastSent[c] = MinInterval
    /\ sending' = [sending EXCEPT ![c] = "post"]
    /\ hasty' = (hasty \/ answers[c] < MinInterval)
    /\ UNCHANGED <<raised, queue, held, lastSent, delivered, answers, restarts>>

\* gather returns when every channel has.
Finished(c) ==
    /\ sending' = [sending EXCEPT ![c] = "idle"]
    /\ held' = IF \A d \in Channels \ {c} : sending[d] = "idle" THEN None ELSE held

\* A variant of Stamp that remembers the first answer only.
StampOnce(c) == lastSent' = lastSent

Stamp(c) == lastSent' = [lastSent EXCEPT ![c] = 0]

Answered(c) ==
    /\ sending[c] = "post" /\ Finished(c)
    /\ Stamp(c)
    /\ answers' = [answers EXCEPT ![c] = 0]
    /\ delivered' \in {delivered, [delivered EXCEPT ![c] = Append(@, held)]}
    /\ UNCHANGED <<raised, queue, hasty, restarts>>

\* A timeout or a broken connection: the message may have arrived.
Raises(c) ==
    /\ sending[c] = "post" /\ Finished(c)
    /\ delivered' \in {delivered, [delivered EXCEPT ![c] = Append(@, held)]}
    /\ UNCHANGED <<raised, queue, lastSent, answers, hasty, restarts>>

Restart ==
    /\ restarts < MaxRestarts /\ restarts' = restarts + 1
    /\ held' = None /\ sending' = [c \in Channels |-> "idle"]
    /\ lastSent' = [c \in Channels |-> MinInterval] /\ answers' = lastSent'
    /\ UNCHANGED <<raised, queue, delivered, hasty>>

Send(c) == Post(c) \/ Answered(c) \/ Raises(c)

Next == Tick \/ Notify \/ Pop \/ (\E c \in Channels : Send(c)) \/ Restart

Spec == Init /\ [][Next]_vars

-----------------------------------------------------------------------------
(* A channel gets each alert at most once and in the order they were       *)
(* raised, whatever failed or restarted in between, and leaves MinInterval *)
(* after each answer (consumer.run, telegram.send, discord.send_embed).    *)
DeliveredInOrder ==
    /\ \A c \in Channels : \A i, j \in DOMAIN delivered[c] : i < j => delivered[c][i] < delivered[c][j]
    /\ ~hasty

(* What is queued is taken off the queue, however often a channel refuses, *)
(* hangs until its timeout or raises: a slow channel delays the others,    *)
(* never the queue for ever.                                               *)
QueueServed == \A a \in Alert : (\E i \in DOMAIN queue : queue[i] = a)
                                  ~> ~\E i \in DOMAIN queue : queue[i] = a
=============================================================================
