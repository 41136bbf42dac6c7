---------------------------- MODULE MCManagement ----------------------------
(***************************************************************************)
(* Instances of Management for TLC: one connection that uses transactions  *)
(* and one that uses everything else.                                      *)
(***************************************************************************)
EXTENDS Management, TLC

CONSTANTS q, topic, c1, c2

Bare(cmd) == [cmd |-> cmd, dest |-> Absent, tid |-> Absent, receipt |-> Absent, reply_to |-> Absent]
On(cmd, t) == [Bare(cmd) EXCEPT !.tid = t]
Send == [Bare("SEND") EXCEPT !.dest = q]

MCDests == {q, topic}
MCTopics == {topic}
MCTids == {<<1>>}

Transactional ==
  {[Send EXCEPT !.tid = <<1>>, !.receipt = "id"],
   On("BEGIN", <<1>>), On("COMMIT", <<1>>), On("ABORT", <<1>>), On("ABORT", <<>>)}
Others ==
  {[Send EXCEPT !.receipt = "id", !.reply_to = "name"],
   [Send EXCEPT !.dest = topic, !.receipt = "id"],
   [Send EXCEPT !.reply_to = "too long"], Bare("SEND"),
   [Bare("SUBSCRIBE") EXCEPT !.dest = topic], Bare("SUBSCRIBE"), Bare("CONNECT"),
   Bare("ACK"), Bare("NACK"), Bare("UNSUBSCRIBE"),
   [Bare("DISCONNECT") EXCEPT !.receipt = ""], [Bare("DISCONNECT") EXCEPT !.receipt = "id"]}

MCCommands == c1 :> Transactional @@ c2 :> Others
CommitCommands == c1 :> {On("BEGIN", <<1>>), [Send EXCEPT !.tid = <<1>>], On("COMMIT", <<1>>)}
                  @@ c2 :> {Send}

=============================================================================
