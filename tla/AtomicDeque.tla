---------------------------- MODULE AtomicDeque -----------------------------
(***************************************************************************)
(* What a deque of src/src/std/thread.c promises: messages wait in a       *)
(* sequence, each operation on it is atomic, and no message is lost on its *)
(* way in or out.                                                          *)
(***************************************************************************)
EXTENDS Sequences

CONSTANTS Thread, Msg, NoMsg

VARIABLES
  items,     \* the messages that wait, in the order they will be popped
  sent,      \* of each thread, the message it is about to add or push
  received   \* of each thread, the message it has popped

avars == <<items, sent, received>>

AInit ==
  /\ items = <<>>
  /\ sent = [t \in Thread |-> NoMsg]
  /\ received = [t \in Thread |-> NoMsg]

Send(t) ==
  /\ sent[t] = NoMsg
  /\ \E m \in Msg : sent' = [sent EXCEPT ![t] = m]
  /\ UNCHANGED <<items, received>>

\* What is sent goes to one end of the sequence.
Insert(t) ==
  /\ sent[t] # NoMsg
  /\ \/ items' = Append(items, sent[t])
     \/ items' = <<sent[t]>> \o items
  /\ sent' = [sent EXCEPT ![t] = NoMsg]
  /\ UNCHANGED received

RemoveFirst(t) ==
  /\ items # <<>>
  /\ received[t] = NoMsg
  /\ received' = [received EXCEPT ![t] = Head(items)]
  /\ items' = Tail(items)
  /\ UNCHANGED sent

Receive(t) ==
  /\ received[t] # NoMsg
  /\ received' = [received EXCEPT ![t] = NoMsg]
  /\ UNCHANGED <<items, sent>>

ANext ==
  \E t \in Thread : Send(t) \/ Insert(t) \/ RemoveFirst(t) \/ Receive(t)

ASpec == AInit /\ [][ANext]_avars
=============================================================================
