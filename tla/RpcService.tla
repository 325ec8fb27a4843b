----------------------------- MODULE RpcService -----------------------------
(***************************************************************************)
(* The RPC client library and the RPC server of P8 (client.c, server.c,    *)
(* server_functions.c), over UDP: a datagram may be lost (never received)  *)
(* or delayed past later ones.  The client sends a request again and again *)
(* and the server answers each, so both receive what they have seen before.*)
(*                                                                         *)
(* The server's main thread receives a request into a packet on its stack, *)
(* starts a thread that serves it out of that same packet, and waits for   *)
(* the thread unless the request is idle.  While idle requests are served, *)
(* main receives again: a thread that has not yet read all of its packet   *)
(* then reads the next one (SlowThreads).  Nothing protects the table, the *)
(* mutex is commented out: each step of a thread is one access to it.      *)
(* RemoteCall says what a call promises.                                   *)
(***************************************************************************)
EXTENDS Integers, FiniteSets

CONSTANTS
  Clients,      \* client ids
  Nobody,       \* an empty table entry (-1), no thread, no packet
  Threads,      \* bound: server threads at a time
  Calls,        \* per client, the calls its application makes: [op, key, value]
  NoCall,       \* no call
  NUMKEYS,      \* NUMKEYS
  NENTRIES,     \* entries of table
  RETRY_COUNT,  \* requests sent in vain before a client gives up
  MaxSeq,       \* bound: per client, its calls
  SlowThreads   \* may main receive before a thread has read its packet?

ASSUME ConstantAssumptions ==
  /\ Nobody \notin Clients /\ Nobody \notin Threads
  /\ \A c \in Clients : NoCall \notin Calls[c]
  /\ NENTRIES \in Nat /\ NUMKEYS \in Nat /\ RETRY_COUNT \in Nat \ {0}
  /\ Cardinality(Clients) <= NENTRIES
  /\ \A c \in Clients : \A r \in Calls[c] :
       r.op \in {"idle", "get", "put"} /\ r.key \in Int /\ r.value \in Int
  \* key = NUMKEYS passes the server's test and is past the end of datastore
  /\ \A c \in Clients : \A r \in Calls[c] : r.key /= NUMKEYS

VARIABLES
  client,     \* per client: where its call is, its request, seq_number, retry, the value returned
  requests,   \* requests in the network
  replies,    \* replies in the network
  packet,     \* recent_packet
  joins,      \* the thread main waits for
  thread,     \* per thread: where it is, and its locals
  table,      \* table
  datastore,  \* datastore
  answers     \* history: per client, the last call the server has executed (slept through), and its result

net    == <<requests, replies>>
server == <<packet, joins, thread, table, datastore, answers>>
vars   == <<client, requests, replies, packet, joins, thread, table, datastore, answers>>

Entries == 1 .. NENTRIES
AllCalls == UNION {Calls[c] : c \in Clients}
Keys    == 0 .. NUMKEYS - 1

Request(c, s, r) == [client |-> c, seq |-> s, call |-> r]
Reply(to, c, s, ack, v) == [to |-> to, client |-> c, seq |-> s, ack |-> ack, value |-> v]

-----------------------------------------------------------------------------
(***************************************************************************)
(* server_functions.c                                                      *)
(***************************************************************************)
InStore(r) == ~(r.key > NUMKEYS \/ r.key < 0)

Effect(r, store) ==
  IF r.op = "put" /\ InStore(r) THEN [store EXCEPT ![r.key] = r.value] ELSE store

Answer(r, store) ==
  CASE r.op = "idle" -> 0
    [] r.op = "get" -> IF InStore(r) THEN store[r.key] ELSE -1
    [] r.op = "put" -> IF InStore(r) THEN 0 ELSE -1

-----------------------------------------------------------------------------
(***************************************************************************)
(* The client: send_req_with_retry.  A client does nothing between a       *)
(* receive that gave no result and the next request but sleep.             *)
(***************************************************************************)
\* msgs: the replies left in the network; those to a dead process go nowhere
SendOrDie(c, r, retry, msgs) ==
  IF retry = RETRY_COUNT
  THEN /\ client' = [client EXCEPT ![c].pc = "dead"]
       /\ replies' = {m \in msgs : m.to /= c}
       /\ UNCHANGED requests
  ELSE /\ client' = [client EXCEPT ![c].pc = "receive", ![c].call = r, ![c].retry = retry + 1]
       /\ requests' = requests \cup {Request(c, client[c].seq, r)}
       /\ replies' = msgs

Call(c, r) ==
  /\ client[c].pc = "ready" /\ client[c].seq < MaxSeq[c]
  /\ SendOrDie(c, r, 0, replies)
  /\ UNCHANGED server

Timeout(c) ==
  /\ client[c].pc = "receive"
  /\ SendOrDie(c, client[c].call, client[c].retry, replies)
  /\ UNCHANGED server

ForMe(c, m) == m.client = c /\ m.seq = client[c].seq

Receives(c, m) ==
  /\ client[c].pc = "receive" /\ m.to = c
  /\ UNCHANGED server

OtherReply(c) == \E m \in replies :
  /\ Receives(c, m) /\ ~ForMe(c, m)
  /\ SendOrDie(c, client[c].call, client[c].retry, replies \ {m})

Ack(c) == \E m \in replies :
  /\ Receives(c, m) /\ ForMe(c, m) /\ m.ack
  /\ SendOrDie(c, client[c].call, 0, replies \ {m})

Return(c) == \E m \in replies :
  /\ Receives(c, m) /\ ForMe(c, m) /\ ~m.ack
  /\ client' = [client EXCEPT ![c] =
       [pc |-> "ready", call |-> NoCall, seq |-> @.seq + 1, retry |-> 0,
        returned |-> IF @.call.op = "idle" THEN 0 ELSE m.value]]
  /\ replies' = replies \ {m}
  /\ UNCHANGED requests

-----------------------------------------------------------------------------
(***************************************************************************)
(* The server's main thread.                                               *)
(***************************************************************************)
NoThread == [pc |-> "none", client |-> Nobody, seq |-> -1, entry |-> 0, last |-> -1, value |-> 0]

\* Places where a thread has yet to read from its packet.
Reading == {"parse", "search", "claim", "compare", "execute"}

\* idle is served while main goes on
Joins(t, r) == IF r.op /= "idle" THEN t ELSE Nobody

FreeThread == CHOOSE t \in Threads : thread[t].pc = "none"

Receive == \E r \in requests :
  /\ joins = Nobody
  /\ \E t \in Threads : thread[t].pc = "none"
  /\ SlowThreads \/ \A u \in Threads : thread[u].pc \notin Reading
  /\ requests' = requests \ {r}
  /\ packet' = r
  /\ thread' = [thread EXCEPT ![FreeThread].pc = "parse"]
  /\ joins' = Joins(FreeThread, r.call)
  /\ UNCHANGED <<client, replies, table, datastore, answers>>

-----------------------------------------------------------------------------
(***************************************************************************)
(* serve: one step for each access to the packet or the table.             *)
(***************************************************************************)
Goto(t, l) == thread' = [thread EXCEPT ![t].pc = l]

\* the thread ends, and main goes on if it waits for it
Ends(t) ==
  /\ thread' = [thread EXCEPT ![t] = NoThread]
  /\ joins' = IF joins = t THEN Nobody ELSE joins

Parse(t) ==
  /\ thread[t].pc = "parse"
  /\ thread' = [thread EXCEPT ![t].pc = "search", ![t].client = packet.client, ![t].seq = packet.seq]
  /\ UNCHANGED <<client, net, packet, joins, table, datastore, answers>>

\* Mutant: every request takes a new entry.
StopsAtFree(i) == table[i].client = Nobody

Stops(i) == table[i].client \in {Nobody, packet.client}

Search(t) == \E i \in Entries :
  /\ thread[t].pc = "search"
  /\ Stops(i) /\ \A j \in 1 .. i - 1 : ~Stops(j)
  /\ thread' = [thread EXCEPT ![t].pc = IF table[i].client = Nobody THEN "claim" ELSE "compare",
                              ![t].entry = i, ![t].last = table[i].seq]
  /\ UNCHANGED <<client, net, packet, joins, table, datastore, answers>>

Claim(t) ==
  LET i == thread[t].entry IN
  /\ thread[t].pc = "claim"
  /\ table' = [table EXCEPT ![i].client = packet.client]
  /\ thread' = [thread EXCEPT ![t].pc = "compare", ![t].last = table[i].seq]
  /\ UNCHANGED <<client, net, packet, joins, datastore, answers>>

Ignore(t) ==
  /\ thread[t].pc = "compare" /\ thread[t].last > packet.seq
  /\ Ends(t)
  /\ UNCHANGED <<client, net, packet, table, datastore, answers>>

Feedback(t) ==
  LET e == table[thread[t].entry] IN
  Reply(packet.client, thread[t].client, thread[t].seq, ~e.done, IF e.done THEN e.result ELSE -1)

Resend(t) ==
  /\ thread[t].pc = "compare" /\ thread[t].last = packet.seq
  /\ replies' = IF client[packet.client].pc = "dead" THEN replies ELSE replies \cup {Feedback(t)}
  /\ Ends(t)
  /\ UNCHANGED <<client, requests, packet, table, datastore, answers>>

\* Mutant: a request of the current number is new again.
IsNewOrSame(t) == thread[t].last <= packet.seq

IsNew(t) == thread[t].last < packet.seq

Cleared(e) == [e EXCEPT !.done = FALSE, !.seq = packet.seq]

Begin(t) ==
  /\ thread[t].pc = "compare" /\ IsNew(t)
  /\ table' = [table EXCEPT ![thread[t].entry] = Cleared(@)]
  /\ Goto(t, "execute")
  /\ UNCHANGED <<client, net, packet, joins, datastore, answers>>

Answered(c, s, v) == answers' = [answers EXCEPT ![c] = [seq |-> s, value |-> v]]

IdleStart(t) ==
  /\ thread[t].pc = "execute" /\ packet.call.op = "idle"
  /\ Goto(t, "idling")
  /\ UNCHANGED <<client, net, packet, joins, table, datastore, answers>>

Execute(t) ==
  LET r == packet.call  v == Answer(r, datastore) IN
  /\ thread[t].pc = "execute" /\ r.op /= "idle"
  /\ datastore' = Effect(r, datastore)
  /\ Answered(packet.client, packet.seq, v)
  /\ thread' = [thread EXCEPT ![t].pc = "done", ![t].value = v]
  /\ UNCHANGED <<client, net, packet, joins, table>>

\* Mutant: idle does not record that it is done.
WokenNot(e) == e

Woken(e) == [e EXCEPT !.done = TRUE]

IdleDone(t) ==
  /\ thread[t].pc = "idling"
  /\ table' = [table EXCEPT ![thread[t].entry] = Woken(@)]
  /\ Answered(thread[t].client, thread[t].seq, 0)
  /\ Ends(t)
  /\ UNCHANGED <<client, net, packet, datastore>>

Done(t) ==
  /\ thread[t].pc = "done"
  /\ table' = [table EXCEPT ![thread[t].entry].done = TRUE]
  /\ Goto(t, "result")
  /\ UNCHANGED <<client, net, packet, joins, datastore, answers>>

Result(t) ==
  /\ thread[t].pc = "result"
  /\ table' = [table EXCEPT ![thread[t].entry].result = thread[t].value]
  /\ Ends(t)
  /\ UNCHANGED <<client, net, packet, datastore, answers>>

-----------------------------------------------------------------------------
Init ==
  /\ client = [c \in Clients |-> [pc |-> "ready", call |-> NoCall, seq |-> 0, retry |-> 0, returned |-> 0]]
  /\ requests = {} /\ replies = {}
  /\ packet = Request(Nobody, -1, NoCall) /\ joins = Nobody
  /\ thread = [t \in Threads |-> NoThread]
  /\ table = [i \in Entries |-> [client |-> Nobody, seq |-> -1, done |-> FALSE, result |-> -1]]
  /\ datastore = [k \in Keys |-> 0]
  /\ answers = [c \in Clients |-> [seq |-> -1, value |-> 0]]

Serve(t) ==
  \/ Parse(t) \/ Search(t) \/ Claim(t) \/ Ignore(t) \/ Resend(t) \/ Begin(t)
  \/ IdleStart(t) \/ IdleDone(t) \/ Execute(t) \/ Done(t) \/ Result(t)

Next ==
  \/ \E c \in Clients :
       \/ \E r \in Calls[c] : Call(c, r)
       \/ Timeout(c) \/ OtherReply(c) \/ Ack(c) \/ Return(c)
  \/ Receive
  \/ \E t \in Threads : Serve(t)

Spec == Init /\ [][Next]_vars

(* The timer of a receive goes off, and a thread of either program runs on.*)
(* Nothing is asked of the network.                                        *)
FairSpec ==
  /\ Spec
  /\ \A c \in Clients : WF_vars(Timeout(c))
  /\ \A t \in Threads : WF_vars(Serve(t))

-----------------------------------------------------------------------------
(***************************************************************************)
(* Properties.                                                             *)
(***************************************************************************)
(* Type invariant of client.c and server.c.                                *)
TypeOK ==
  /\ client \in [Clients -> [pc : {"ready", "receive", "dead"}, call : AllCalls \cup {NoCall},
                            seq : Nat, retry : 0 .. RETRY_COUNT, returned : Int]]
  /\ \A c \in Clients : (client[c].pc = "ready") <=> (client[c].call = NoCall)
  /\ \A m \in requests : m.client \in Clients /\ m.seq \in Nat /\ m.call \in Calls[m.client]
  /\ \A m \in replies : m.to \in Clients /\ m.client \in Clients /\ m.seq \in Nat
  /\ joins \in Threads \cup {Nobody}
  /\ joins /= Nobody => thread[joins].pc /= "none"
  /\ table \in [Entries -> [client : Clients \cup {Nobody}, seq : Nat \cup {-1},
                           done : BOOLEAN, result : Int]]
  /\ datastore \in [Keys -> Int]

(* A client has one entry in the server's table (server.c:33-47), however  *)
(* many of its requests are served at a time.                              *)
OneEntryPerClient == \A i, j \in Entries :
  table[i].client = table[j].client /\ table[i].client /= Nobody => i = j

(* The request a client waits on is never an old one to the server         *)
(* (server.c:51): it would be ignored until the client gives up.           *)
NeverOld == \A i \in Entries, c \in Clients :
  table[i].client = c => table[i].seq <= client[c].seq

(* The server's table is right about the clients it knows.                 *)
TableSound == OneEntryPerClient /\ NeverOld

(* A reply that says done (shared_types.h:16) about the request a client   *)
(* waits on comes after that request was executed, and carries its result  *)
(* (server.c:57-60): done is set before result is (85-86, 93-94).          *)
FinalRepliesExact == \A m \in replies :
  (~m.ack /\ m.to = m.client /\ m.seq = client[m.client].seq) =>
     /\ answers[m.client].seq = m.seq
     /\ client[m.client].call.op /= "idle" => m.value = answers[m.client].value

(* What the threads of the server, which share its table without a lock,   *)
(* keep right (server.c:43-99): at most one entry per client, never ahead  *)
(* of it, and no answer that was not the result of an execution.           *)
ServerSound == TypeOK /\ TableSound /\ FinalRepliesExact

(***************************************************************************)
(* The inductive invariant behind ServerSound and the refinement, for a    *)
(* server whose threads read their packet in time (SlowThreads = FALSE):   *)
(* then only threads that idle run beside the one main has started last.   *)
(***************************************************************************)
Busy    == Reading \cup {"done", "result"}     \* the last received packet is this thread's
Holding == {"execute", "idling", "done", "result"}  \* this thread executes its request

Current(c, s) == s = client[c].seq

(* A request was sent by the client's last call, or by an earlier one.     *)
Sent(m) ==
  /\ m.client \in Clients /\ m.seq \in Nat /\ m.call \in Calls[m.client]
  /\ m.seq <= client[m.client].seq
  /\ Current(m.client, m.seq) => client[m.client].call = m.call

ThreadRecords ==
  [pc : Busy \cup {"none", "idling"}, client : Clients \cup {Nobody}, seq : Nat \cup {-1},
   entry : 0 .. NENTRIES, last : Nat \cup {-1}, value : Int]

ThreadType == thread \in [Threads -> ThreadRecords]

(* Main has at most one thread at work on its packet, and waits for it     *)
(* unless the request is idle.                                             *)
MainInv ==
  /\ \A m \in requests : Sent(m)
  /\ \A t, u \in Threads : thread[t].pc \in Busy /\ thread[u].pc \in Busy => t = u
  /\ \A t \in Threads :
       /\ thread[t].pc \in Busy => Sent(packet) /\ joins = Joins(t, packet.call)
       /\ thread[t].pc \in {"done", "result"} => joins = t
  /\ joins /= Nobody => thread[joins].pc \in Busy

(* What a thread has found in the table is still there; it executes the    *)
(* request its client waits on.                                            *)
ThreadOk(t) == LET h == thread[t]  e == table[h.entry] IN
  /\ h.pc \in Busy \ {"parse"} => h.client = packet.client /\ h.seq = packet.seq
  /\ h.pc \in Holding \cup {"claim", "compare"} => h.entry \in Entries /\ h.client \in Clients
  /\ h.pc = "claim" =>
       /\ e.client = Nobody
       /\ \A i \in Entries : table[i].client /= h.client
       /\ \A i \in Entries : i < h.entry => table[i].client /= Nobody
  /\ h.pc \in Holding \cup {"compare"} => e.client = h.client
  /\ h.pc = "compare" => h.last = e.seq
  /\ h.pc \in Holding => e.seq = h.seq
  /\ h.pc \in {"execute", "idling"} =>
       Current(h.client, h.seq) /\ answers[h.client].seq < h.seq /\ ~e.done
  /\ h.pc = "idling" => client[h.client].call.op = "idle"
  /\ h.pc = "done" => ~e.done
  /\ h.pc \in {"done", "result"} => answers[h.client] = [seq |-> h.seq, value |-> h.value]

(* At most one thread executes requests of a client.                       *)
ThreadInv ==
  /\ \A t \in Threads : ThreadOk(t)
  /\ \A t, u \in Threads :
       thread[t].pc \in Holding /\ thread[u].pc \in Holding /\ thread[t].client = thread[u].client => t = u

(* An entry that says done holds the answer, once serve has written it.    *)
EntryOk(i, c) == LET e == table[i] IN
  /\ answers[c].seq <= e.seq
  /\ Current(c, e.seq) => client[c].call /= NoCall
  /\ e.done => answers[c].seq = e.seq
  /\ /\ e.done /\ Current(c, e.seq) /\ client[c].call.op /= "idle"
     /\ ~\E t \in Threads : thread[t].pc = "result" /\ thread[t].entry = i
     => e.result = answers[c].value

(* The entries fill up in order.                                           *)
TableInv ==
  /\ \A i, j \in Entries : j < i /\ table[j].client = Nobody => table[i].client = Nobody
  /\ \A i \in Entries : table[i].client = Nobody => table[i].seq = -1 /\ ~table[i].done
  /\ \A i \in Entries, c \in Clients : table[i].client = c => EntryOk(i, c)

(* No call of a client is skipped, none is executed before it is made.     *)
AnswerInv ==
  /\ answers \in [Clients -> [seq : Nat \cup {-1}, value : Int]]
  /\ \A c \in Clients :
       /\ client[c].call \in Calls[c] \cup {NoCall}
       /\ client[c].seq - 1 <= answers[c].seq /\ answers[c].seq <= client[c].seq
       /\ Current(c, answers[c].seq) =>
            /\ client[c].call /= NoCall
            /\ client[c].call.op = "idle" => answers[c].value = 0
       /\ (\A i \in Entries : table[i].client /= c) => answers[c].seq = -1

ReplyInv == \A m \in replies :
  /\ m.to = m.client /\ m.value \in Int /\ m.seq <= client[m.client].seq
  /\ Current(m.client, m.seq) => client[m.client].call /= NoCall

IInv == /\ ~SlowThreads
        /\ TypeOK /\ ThreadType /\ TableSound /\ FinalRepliesExact
        /\ MainInv /\ ThreadInv /\ TableInv /\ AnswerInv /\ ReplyInv

(* The calls of all clients take effect at most once each, one after the   *)
(* other, and return what they found, whatever the network does.           *)
Remote == INSTANCE RemoteCall WITH
  Calls <- AllCalls,
  store <- datastore,
  call <- [c \in Clients |->
    LET done == client[c].call /= NoCall /\ answers[c].seq = client[c].seq IN
    [request |-> client[c].call, done |-> done,
     answer |-> IF done THEN answers[c].value ELSE 0,
     returned |-> client[c].returned, alive |-> client[c].pc /= "dead"]]
ImplementsRemoteCall == Remote!Spec

(* Every call returns or dies with "server died" (client.c:38-67), even    *)
(* though each acknowledgement gives it five new tries (client.c:56).      *)
CallEnds == \A c \in Clients :
  client[c].pc = "receive" ~> client[c].pc \in {"ready", "dead"}
=============================================================================
