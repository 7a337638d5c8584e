----------------------------- MODULE AppendLog -----------------------------
(***************************************************************************)
(* What the ledger promises its clients, whatever the interleaving, the    *)
(* crashes and the failures of the keychain: one log, to which each call   *)
(* appends at most once, at one instant between its start and its answer,  *)
(* and only on top of the log it insists on; and answers that are true:    *)
(* a write is answered as a write, what is reported as the log was the log *)
(* at an instant of the call.  A call may be refused, or lost with its     *)
(* process, before or after it took effect.                                *)
(***************************************************************************)
EXTENDS Sequences

CONSTANTS Proc, Stamp

VARIABLES
  log,     \* the stamps appended so far
  client   \* the call of each client

Log == Seq(Stamp)

\* `want` holds the log a call insists on, and is empty when it does not care.
Idle        == [at |-> "idle"]
Called(w)   == [at |-> "called", want |-> w]
Looked(w, s) == [at |-> "looked", want |-> w, seen |-> s]
Wrote(l)    == [at |-> "wrote", log |-> l]
Answered(says, l) == [at |-> "answered", says |-> says, log |-> l]

Init ==
  /\ log = << >>
  /\ client = [p \in Proc |-> Idle]

Become(p, c) == client' = [client EXCEPT ![p] = c]

Start(p) ==
  /\ client[p] = Idle
  /\ client'[p].at = "called"
  /\ client'[p].want \subseteq Log
  /\ Become(p, Called(client'[p].want))
  /\ UNCHANGED log

Look(p) ==
  /\ client[p].at = "called"
  /\ Become(p, Looked(client[p].want, log))
  /\ UNCHANGED log

Write(p) ==
  /\ client[p].at \in {"called", "looked"}
  /\ client[p].want \subseteq {log}
  /\ \E stamp \in Stamp : log' = Append(log, stamp)
  /\ Become(p, Wrote(log'))

AnswerWrite(p) ==
  /\ client[p].at = "wrote"
  /\ Become(p, Answered("wrote", client[p].log))
  /\ UNCHANGED log

AnswerRead(p) ==
  /\ client[p].at = "looked"
  /\ client[p].want \subseteq {client[p].seen}
  /\ Become(p, Answered("read", client[p].seen))
  /\ UNCHANGED log

AnswerConflict(p) ==
  /\ client[p].at = "looked"
  /\ client[p].want # {}
  /\ client[p].seen \notin client[p].want
  /\ Become(p, Answered("conflict", client[p].seen))
  /\ UNCHANGED log

Refuse(p) ==
  /\ client[p].at \in {"idle", "called", "looked"}
  /\ Become(p, Answered("refused", << >>))
  /\ UNCHANGED log

\* The client takes its answer, or its process dies.
Finish(p) ==
  /\ Become(p, Idle)
  /\ UNCHANGED log

Next ==
  \E p \in Proc :
    \/ Start(p) \/ Look(p) \/ Write(p) \/ AnswerWrite(p) \/ AnswerRead(p)
    \/ AnswerConflict(p) \/ Refuse(p) \/ Finish(p)

Spec == Init /\ [][Next]_<<log, client>>

=============================================================================
