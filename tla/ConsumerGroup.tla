--------------------------- MODULE ConsumerGroup ----------------------------
(***************************************************************************)
(* A Redis stream as one consumer group of the services sees it: XADD with *)
(* MAXLEN, XGROUP CREATE at "$", XREADGROUP ">" COUNT 1 and XACK.  Redis   *)
(* itself is not part of the repository: these operators say what the      *)
(* services rely on.  A stream is a record                                 *)
(*    unread  - entries the group has not delivered, oldest first          *)
(*    pending - entries delivered to a consumer and not acknowledged       *)
(*    group   - whether the group exists                                   *)
(***************************************************************************)
EXTENDS Sequences, Integers

NewStream == [unread |-> <<>>, pending |-> {}, group |-> FALSE]

\* A group created at "$" never sees what was added before.
CreateGroup(st) == IF st.group THEN st ELSE [st EXCEPT !.group = TRUE, !.unread = <<>>]

\* XADD ... MAXLEN: the oldest entries go first, whether they were read or not.
XAdd(st, x, maxLen) ==
    LET longer == Append(st.unread, x)
    IN  [st EXCEPT !.unread = IF Len(longer) > maxLen THEN Tail(longer) ELSE longer]

HasUnread(st) == st.group /\ st.unread # <<>>

XReadGroup(st) == [st EXCEPT !.unread = Tail(@), !.pending = @ \cup {Head(st.unread)}]

XAck(st, x) == [st EXCEPT !.pending = @ \ {x}]

StreamOf(S) == [unread : Seq(S), pending : SUBSET S, group : BOOLEAN]
=============================================================================
