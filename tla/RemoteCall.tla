----------------------------- MODULE RemoteCall -----------------------------
(***************************************************************************)
(* What the RPC client library promises to an application (client.h:17-30):*)
(* a call takes effect on the server's store at one moment between its     *)
(* start and its return, and returns what it found there.  The effect of a *)
(* call that was given up may come later, or never; no call has two.       *)
(***************************************************************************)
EXTENDS Integers

CONSTANTS Clients, Calls, NoCall, Keys,
  Effect(_, _),  \* the store after a call
  Answer(_, _)   \* what the call returns

VARIABLES
  store,  \* the server's keys and values
  call    \* per client: its call, whether it has taken effect, its answer, the last value returned

vars == <<store, call>>

Init ==
  /\ store = [k \in Keys |-> 0]
  /\ call = [c \in Clients |->
       [request |-> NoCall, done |-> FALSE, answer |-> 0, returned |-> 0, alive |-> TRUE]]

Invoke(c, r) ==
  /\ call[c].request = NoCall /\ call[c].alive
  /\ call' = [call EXCEPT ![c].request = r]
  /\ UNCHANGED store

Execute(c) ==
  LET r == call[c].request IN
  /\ r /= NoCall /\ ~call[c].done
  /\ store' = Effect(r, store)
  /\ call' = [call EXCEPT ![c].done = TRUE, ![c].answer = Answer(r, store)]

Return(c) ==
  /\ call[c].done /\ call[c].alive
  /\ call' = [call EXCEPT ![c] =
       [request |-> NoCall, done |-> FALSE, answer |-> 0, returned |-> @.answer, alive |-> TRUE]]
  /\ UNCHANGED store

GiveUp(c) ==
  /\ call[c].request /= NoCall /\ call[c].alive
  /\ call' = [call EXCEPT ![c].alive = FALSE]
  /\ UNCHANGED store

Next == \E c \in Clients :
  \/ \E r \in Calls : Invoke(c, r)
  \/ Execute(c)
  \/ Return(c)
  \/ GiveUp(c)

Spec == Init /\ [][Next]_vars
=============================================================================
