---------------------------- MODULE ReceiverPage ----------------------------
(***************************************************************************)
(* The Receiver page: a poll of the receiver's state, a chain in which an  *)
(* applied setting waits for the poll before it, and the storage panel,    *)
(* blocked while an edit has not been applied.                             *)
(***************************************************************************)
EXTENDS PageHost, StoragePanel

ReceiverNames == {"receiver", "applyMap"}

\* ports: portsLoaded; reading: the channel map the controller reported, editable: it was disarmed
\* and not testing motors; fresh: younger than 750 ms; map: the map selected; pending: an apply
ReceiverInitial == [ports |-> FALSE, reading |-> Unknown, editable |-> FALSE, fresh |-> FALSE,
                    map |-> Unknown, pending |-> FALSE]

ReceiverBlocked(w) == w.recv.pending \/ w.recv.reading = Unknown \/ w.recv.map # w.recv.reading

PollReceiver == Line("receiver", "map", 0, "normal")
ReceiverLines(w) == IF w.recv.ports THEN <<PollReceiver>> ELSE <<Read("ports"), PollReceiver>>

\* poll(), each time 200 ms after the one before it has ended
CanPollReceiver(w) == w.up /\ ~Busy(w, ReceiverNames) /\ w.next = NoJob
ReceiverPoll(w) == IF Full(w) THEN w ELSE Enter(w, Job("receiver", ReceiverLines(w)))

\* apply(): the map selected goes into the chain
CanApply(w) == w.up /\ w.recv.reading # Unknown /\ w.recv.fresh /\ w.recv.editable /\ ~w.recv.pending
ApplyMap(w, v) == StartAfter([w EXCEPT !.recv.map = v, !.recv.pending = TRUE],
                             Job("applyMap", <<Set("map", v), PollReceiver>>), ReceiverNames)

ReceiverRest(j, a) ==
  IF Head(j.todo).op = "read" /\ j.mine THEN Tail(j.todo)
  ELSE IF a.kind \in {"notsent", "error", "refused"} \/ (~j.mine /\ j.who = "receiver") THEN <<>>
  ELSE Tail(j.todo)

\* accept()
Accept(w, a) == [w EXCEPT !.recv.reading = a.val, !.recv.editable = a.kind = "idle", !.recv.fresh = TRUE,
                          !.recv.map = IF @ = Unknown THEN a.val ELSE @]

ReceiverReplied(w, j) ==
  LET a == Last(j)
      good == a.kind \in {"idle", "driven"}
      v == CASE j.who = "receiver" /\ ~Ended(j) -> [w EXCEPT !.recv.ports = TRUE]
             [] j.who = "receiver" /\ good -> Accept(w, a)
             [] j.who = "applyMap" /\ Ended(j) /\ good ->
                  [Accept(w, a) EXCEPT !.recv.map = a.val, !.recv.pending = FALSE]
             [] j.who = "applyMap" /\ Ended(j) -> [w EXCEPT !.recv.pending = FALSE]
             [] OTHER -> w
  IN IF ~j.mine THEN w ELSE IF Ended(j) THEN StartNext(v) ELSE v

\* the effect on connected, and unmount
ReceiverReset(w) == LET v == [Forget(w, ReceiverNames) EXCEPT !.recv = ReceiverInitial, !.next = NoJob]
                    IN StorageReset(IF w.up THEN ReceiverPoll(v) ELSE v, w.up)
ReceiverEffect(w) == StorageEffect(w, ReceiverBlocked(w))
=============================================================================
