-------------------------- MODULE RpcServiceProofs --------------------------
(***************************************************************************)
(* For any clients, server threads, keys, table size and number of         *)
(* retries, and a server whose threads read their packet before main       *)
(* receives the next one: IInv is an inductive invariant of RpcService,    *)
(* with one lemma per kind of step; it implies ServerSound, and RpcService *)
(* implements RemoteCall.                                                  *)
(***************************************************************************)
EXTENDS RpcService, TLAPS

LEMMA Constants ==
  /\ Nobody \notin Clients /\ Nobody \notin Threads
  /\ \A c \in Clients : NoCall \notin Calls[c]
  /\ \A c \in Clients : \A r \in Calls[c] : r \in AllCalls /\ r /= NoCall
  /\ RETRY_COUNT \in Nat \ {0}
  /\ Entries \subseteq 0 .. NENTRIES /\ Entries \subseteq Nat
BY ConstantAssumptions DEF Entries, AllCalls

-----------------------------------------------------------------------------
(***************************************************************************)
(* The steps of a client.  Most of them send the current request again, or *)
(* give up: neither its number nor its call changes.                       *)
(***************************************************************************)
LEMMA SameCall ==
  ASSUME IInv, UNCHANGED server,
         client' \in [Clients -> [pc : {"ready", "receive", "dead"}, call : AllCalls \cup {NoCall},
                                 seq : Nat, retry : 0 .. RETRY_COUNT, returned : Int]],
         \A d \in Clients : /\ client'[d].seq = client[d].seq /\ client'[d].call = client[d].call
                            /\ client'[d].pc = "ready" <=> client[d].pc = "ready",
         \A m \in requests' : m \in requests \/ Sent(m),
         replies' \subseteq replies
  PROVE  IInv'
<1> USE DEF IInv, server
<1>0. \A m : Sent(m) => Sent(m)'
  BY DEF Sent, Current
<1>1. TypeOK'
  BY DEF TypeOK, MainInv, Sent
<1>2. ThreadType' /\ TableSound' /\ FinalRepliesExact'
  BY DEF TypeOK, ThreadType, TableSound, OneEntryPerClient, NeverOld, FinalRepliesExact
<1>3. MainInv'
  BY <1>0 DEF MainInv
<1>4. ThreadInv'
  <2>1. ASSUME NEW t \in Threads PROVE ThreadOk(t)'
    <3>1. ThreadOk(t)
      BY DEF ThreadInv
    <3>2. thread[t].pc \in Holding => thread[t].client \in Clients
      BY <3>1 DEF ThreadOk
    <3> QED BY <3>1, <3>2 DEF ThreadOk, Current, Holding
  <2> QED BY <2>1 DEF ThreadInv
<1>5. TableInv'
  BY DEF TableInv, EntryOk, Current
<1>6. AnswerInv'
  BY DEF AnswerInv, Current
<1>7. ReplyInv'
  BY DEF ReplyInv, Current, TypeOK
<1> QED BY <1>1, <1>2, <1>3, <1>4, <1>5, <1>6, <1>7

LEMMA ResendStep ==
  ASSUME IInv, NEW c \in Clients, client[c].pc = "receive",
         NEW k \in 0 .. RETRY_COUNT, NEW msgs \in SUBSET replies,
         SendOrDie(c, client[c].call, k, msgs), UNCHANGED server
  PROVE  IInv'
<1> USE Constants
<1>1. TypeOK /\ client[c].call /= NoCall
  BY DEF IInv, TypeOK
<1>2. Sent(Request(c, client[c].seq, client[c].call))
  <2>1. client[c].seq \in Nat
    BY <1>1 DEF TypeOK
  <2>2. client[c].call \in Calls[c]
    BY <1>1 DEF IInv, AnswerInv
  <2> QED BY <2>1, <2>2 DEF Sent, Request, Current
<1>3. CASE k = RETRY_COUNT
  <2>1. client' = [client EXCEPT ![c].pc = "dead"] /\ replies' \subseteq replies /\ requests' = requests
    BY <1>3 DEF SendOrDie
  <2> QED BY <1>1, <2>1, SameCall DEF TypeOK
<1>4. CASE k /= RETRY_COUNT
  <2>1. /\ client' = [client EXCEPT ![c].pc = "receive", ![c].call = client[c].call, ![c].retry = k + 1]
        /\ replies' \subseteq replies
        /\ requests' = requests \cup {Request(c, client[c].seq, client[c].call)}
    BY <1>4 DEF SendOrDie
  <2>2. k + 1 \in 0 .. RETRY_COUNT
    BY <1>4
  <2>3. client' \in [Clients -> [pc : {"ready", "receive", "dead"}, call : AllCalls \cup {NoCall},
                                 seq : Nat, retry : 0 .. RETRY_COUNT, returned : Int]]
    <3>1. /\ client[c].call \in AllCalls \cup {NoCall}
          /\ client \in [Clients -> [pc : {"ready", "receive", "dead"}, call : AllCalls \cup {NoCall},
                                     seq : Nat, retry : 0 .. RETRY_COUNT, returned : Int]]
      BY <1>1 DEF TypeOK
    <3>2. /\ client' \in [Clients -> {client'[d] : d \in Clients}]
          /\ \A d \in Clients \ {c} : client'[d] = client[d]
          /\ client'[c] = [client[c] EXCEPT !.pc = "receive", !.call = client[c].call, !.retry = k + 1]
      BY <2>1, <3>1
    <3>3. client'[c] \in [pc : {"ready", "receive", "dead"}, call : AllCalls \cup {NoCall},
                          seq : Nat, retry : 0 .. RETRY_COUNT, returned : Int]
      BY <2>2, <3>1, <3>2
    <3> QED BY <3>1, <3>2, <3>3
  <2>4. \A d \in Clients : /\ client'[d].seq = client[d].seq /\ client'[d].call = client[d].call
                           /\ client'[d].pc = "ready" <=> client[d].pc = "ready"
    BY <1>1, <2>1 DEF TypeOK
  <2>5. \A m \in requests' : m \in requests \/ Sent(m)
    BY <1>2, <2>1
  <2> QED BY <2>1, <2>3, <2>4, <2>5, SameCall
<1> QED BY <1>3, <1>4

(* A new call: the server has not heard of its number.                     *)
LEMMA CallStep ==
  ASSUME IInv, NEW c \in Clients, NEW r \in Calls[c], Call(c, r)
  PROVE  IInv'
<1> USE Constants DEF IInv
<1>1. /\ client[c].pc = "ready" /\ client[c].call = NoCall
      /\ client' = [client EXCEPT ![c].pc = "receive", ![c].call = r, ![c].retry = 1]
      /\ requests' = requests \cup {Request(c, client[c].seq, r)}
      /\ replies' = replies
      /\ UNCHANGED <<packet, joins, thread, table, datastore, answers>>
  BY DEF Call, SendOrDie, TypeOK, server
<1>2. /\ \A d \in Clients : client'[d].seq = client[d].seq
      /\ \A d \in Clients \ {c} : client'[d] = client[d]
      /\ client'[c].pc = "receive" /\ client'[c].call = r
  BY <1>1 DEF TypeOK
<1>3. \A m : Sent(m) => m.client \in Clients /\ ~(m.client = c /\ m.seq = client[c].seq)
  BY <1>1 DEF Sent, Current
<1>4. \A m : Sent(m) => Sent(m)'
  BY <1>2, <1>3 DEF Sent, Current
<1>5. Sent(Request(c, client[c].seq, r))'
  <2>1. client[c].seq \in Nat
    BY DEF TypeOK
  <2> QED BY <1>2, <2>1 DEF Sent, Request, Current
<1>6. TypeOK'
  <2>1. client' \in [Clients -> [pc : {"ready", "receive", "dead"}, call : AllCalls \cup {NoCall},
                                 seq : Nat, retry : 0 .. RETRY_COUNT, returned : Int]]
    BY <1>1 DEF TypeOK
  <2>2. \A d \in Clients : (client'[d].pc = "ready") <=> (client'[d].call = NoCall)
    BY <1>2 DEF TypeOK
  <2>3. \A m \in requests' : m.client \in Clients /\ m.seq \in Nat /\ m.call \in Calls[m.client]
    BY <1>1, <1>5 DEF TypeOK, Sent
  <2> QED BY <1>1, <2>1, <2>2, <2>3 DEF TypeOK
<1>7. ThreadType' /\ TableSound'
  BY <1>1, <1>2 DEF ThreadType, TableSound, OneEntryPerClient, NeverOld
<1>8. \A m \in replies : ~(m.client = c /\ m.seq = client[c].seq)
  BY <1>1 DEF ReplyInv, Current
<1>9. FinalRepliesExact' /\ ReplyInv'
  BY <1>1, <1>2, <1>8 DEF FinalRepliesExact, ReplyInv, TypeOK, Current
<1>10. MainInv'
  <2>1. \A m \in requests' : Sent(m)'
    BY <1>1, <1>2, <1>4, <1>5 DEF MainInv
  <2>2. Sent(packet) => Sent(packet)'
    BY <1>1, <1>4
  <2> QED BY <1>1, <2>1, <2>2 DEF MainInv
<1>11. ThreadInv'
  <2>1. ASSUME NEW t \in Threads PROVE ThreadOk(t)'
    <3>1. ThreadOk(t) /\ (thread[t].pc \in Holding => thread[t].client \in Clients)
      BY DEF ThreadInv, ThreadOk
    <3>2. CASE thread[t].pc = "idling" /\ thread[t].client = c
      <4>1. answers[c].seq < client[c].seq /\ thread[t].seq = client[c].seq
        BY <3>1, <3>2 DEF ThreadOk, Current
      <4>2. \E i \in Entries : table[i].client = c /\ table[i].seq = client[c].seq
        BY <3>1, <3>2, <4>1 DEF ThreadOk, Holding
      <4> QED BY <1>1, <4>2 DEF TableInv, EntryOk, Current
    <3>3. CASE ~(thread[t].pc = "idling" /\ thread[t].client = c)
      <4>1. thread[t].pc = "idling" => client'[thread[t].client].call.op = "idle"
        BY <1>2, <3>1, <3>3 DEF ThreadOk, Holding
      <4>2. \A d \in Clients : \A n : Current(d, n)' <=> Current(d, n)
        BY <1>2 DEF Current
      <4> QED BY <1>1, <3>1, <4>1, <4>2 DEF ThreadOk, Holding
    <3> QED BY <3>2, <3>3
  <2> QED BY <1>1, <2>1 DEF ThreadInv
<1>12. TableInv'
  <2>1. ASSUME NEW i \in Entries, NEW d \in Clients, table[i].client = d PROVE EntryOk(i, d)'
    <3>1. EntryOk(i, d)
      BY <2>1 DEF TableInv
    <3> QED BY <1>1, <1>2, <3>1 DEF EntryOk, Current
  <2> QED BY <1>1, <2>1 DEF TableInv
<1>13. AnswerInv'
  BY <1>1, <1>2 DEF AnswerInv, Current, TypeOK
<1> QED BY <1>6, <1>7, <1>9, <1>10, <1>11, <1>12, <1>13

(* The reply that says done tells the client what its call returns.        *)
LEMMA FinalReply ==
  ASSUME IInv, NEW c \in Clients, NEW m \in replies, m.to = c, ForMe(c, m), ~m.ack
  PROVE  /\ answers[c].seq = client[c].seq /\ client[c].call /= NoCall
         /\ answers[c].value = IF client[c].call.op = "idle" THEN 0 ELSE m.value
         /\ m.value \in Int
BY DEF IInv, FinalRepliesExact, ForMe, AnswerInv, Current, ReplyInv

(* The call returns, and its number is used up.                            *)
LEMMA ReturnStep ==
  ASSUME IInv, NEW c \in Clients, Return(c)
  PROVE  IInv'
<1> USE Constants DEF IInv
<1>1. PICK m \in replies :
        /\ m.to = c /\ ForMe(c, m) /\ ~m.ack
        /\ client' = [client EXCEPT ![c] =
             [pc |-> "ready", call |-> NoCall, seq |-> @.seq + 1, retry |-> 0,
              returned |-> IF @.call.op = "idle" THEN 0 ELSE m.value]]
        /\ replies' = replies \ {m}
        /\ requests' = requests
        /\ UNCHANGED <<packet, joins, thread, table, datastore, answers>>
  BY DEF Return, Receives, server
<1>2. answers[c].seq = client[c].seq /\ client[c].call /= NoCall /\ m.value \in Int
  BY <1>1, FinalReply
<1>3. /\ \A d \in Clients \ {c} : client'[d] = client[d]
      /\ client'[c].pc = "ready" /\ client'[c].call = NoCall /\ client'[c].seq = client[c].seq + 1
      /\ client[c].seq \in Nat /\ \A d \in Clients : client[d].seq \in Nat
  BY <1>1 DEF TypeOK
<1>4. \A q : Sent(q) => Sent(q)'
  BY <1>3 DEF Sent, Current
<1>6. TypeOK'
  <2>1. client' \in [Clients -> [pc : {"ready", "receive", "dead"}, call : AllCalls \cup {NoCall},
                                 seq : Nat, retry : 0 .. RETRY_COUNT, returned : Int]]
    BY <1>1, <1>2, <1>3 DEF TypeOK
  <2>2. \A d \in Clients : (client'[d].pc = "ready") <=> (client'[d].call = NoCall)
    BY <1>3 DEF TypeOK
  <2> QED BY <1>1, <2>1, <2>2 DEF TypeOK
<1>7. ThreadType' /\ OneEntryPerClient'
  BY <1>1 DEF ThreadType, TableSound, OneEntryPerClient
<1>8. NeverOld'
  BY <1>1, <1>3 DEF TableSound, NeverOld, TypeOK
<1>9. FinalRepliesExact' /\ ReplyInv'
  BY <1>1, <1>3 DEF FinalRepliesExact, ReplyInv, TypeOK, Current
<1>10. MainInv'
  BY <1>1, <1>4 DEF MainInv
<1>11. ThreadInv'
  <2>1. ASSUME NEW t \in Threads PROVE ThreadOk(t)'
    <3>1. ThreadOk(t) /\ (thread[t].pc \in Holding => thread[t].client \in Clients)
      BY DEF ThreadInv, ThreadOk
    <3>2. thread[t].pc \in {"execute", "idling"} => thread[t].client /= c
      BY <1>2, <3>1 DEF ThreadOk, Current, ThreadType, AnswerInv
    <3> QED BY <1>1, <1>3, <3>1, <3>2 DEF ThreadOk, Current, Holding
  <2> QED BY <1>1, <2>1 DEF ThreadInv
<1>12. TableInv'
  <2>1. ASSUME NEW i \in Entries, NEW d \in Clients, table[i].client = d PROVE EntryOk(i, d)'
    <3>1. EntryOk(i, d) /\ table[i].seq <= client[d].seq /\ table[i].seq \in Int
      BY <2>1 DEF TableInv, TableSound, NeverOld, TypeOK
    <3> QED BY <1>1, <1>3, <3>1 DEF EntryOk, Current
  <2> QED BY <1>1, <2>1 DEF TableInv
<1>13. AnswerInv'
  BY <1>1, <1>2, <1>3 DEF AnswerInv, Current
<1> QED BY <1>6, <1>7, <1>8, <1>9, <1>10, <1>11, <1>12, <1>13 DEF TableSound

(* All steps of a client.                                                  *)
LEMMA ClientStep ==
  ASSUME IInv, NEW c \in Clients,
         \/ \E r \in Calls[c] : Call(c, r)
         \/ Timeout(c) \/ OtherReply(c) \/ Ack(c) \/ Return(c)
  PROVE  IInv'
<1>1. client[c].retry \in 0 .. RETRY_COUNT /\ 0 \in 0 .. RETRY_COUNT
  BY Constants DEF IInv, TypeOK
<1>2. CASE Timeout(c)
  BY <1>1, <1>2, ResendStep DEF Timeout
<1>3. CASE OtherReply(c)
  BY <1>1, <1>3, ResendStep DEF OtherReply, Receives
<1>4. CASE Ack(c)
  BY <1>1, <1>4, ResendStep DEF Ack, Receives
<1> QED BY <1>2, <1>3, <1>4, CallStep, ReturnStep

-----------------------------------------------------------------------------
(***************************************************************************)
(* The steps of the server.  A thread that works on the packet moves on,   *)
(* ends, or starts to idle; the client notices only the replies.           *)
(***************************************************************************)
LEMMA ThreadMoves ==
  ASSUME IInv, UNCHANGED <<client, requests, packet, joins>>, NEW t \in Threads, NEW h \in ThreadRecords,
         thread[t].pc \in Busy, thread' = [thread EXCEPT ![t] = h],
         h.pc \in Busy, h.pc \in {"done", "result"} => joins = t
  PROVE  ThreadType' /\ MainInv'
<1> USE DEF IInv
<1>1. ThreadType'
  BY DEF ThreadType
<1>2. thread'[t] = h /\ \A u \in Threads \ {t} : thread'[u] = thread[u]
  BY DEF ThreadType
<1>3. \A m : Sent(m)' <=> Sent(m)
  BY DEF Sent, Current
<1>4. MainInv'
  BY <1>2, <1>3 DEF MainInv, TypeOK
<1> QED BY <1>1, <1>4

LEMMA ThreadEnds ==
  ASSUME IInv, UNCHANGED <<client, requests, packet>>, NEW t \in Threads,
         thread[t].pc \in Busy \cup {"idling"}, Ends(t)
  PROVE  ThreadType' /\ MainInv' /\ (joins' \in Threads \cup {Nobody})
         /\ (joins' /= Nobody => thread'[joins'].pc /= "none")
<1> USE Constants DEF IInv, Ends
<1>0. NoThread \in ThreadRecords
  BY ConstantAssumptions DEF NoThread, ThreadRecords
<1>1. ThreadType'
  BY <1>0 DEF ThreadType
<1>2. thread'[t].pc = "none" /\ \A u \in Threads \ {t} : thread'[u] = thread[u]
  BY DEF ThreadType, NoThread
<1>3. \A m : Sent(m)' <=> Sent(m)
  BY DEF Sent, Current
<1>4. joins' \in Threads \cup {Nobody} /\ (joins' /= Nobody => joins' = joins /\ joins /= t)
  BY DEF TypeOK
<1>5. CASE thread[t].pc \in Busy
  <2>1. joins' = Nobody
    BY <1>4, <1>5 DEF MainInv, TypeOK
  <2>2. \A u \in Threads : thread'[u].pc \notin Busy
    BY <1>2, <1>5 DEF MainInv, Busy, Reading
  <2>3. MainInv'
    BY <1>3, <2>1, <2>2 DEF MainInv, Busy
  <2> QED BY <1>1, <2>1, <2>3
<1>6. CASE thread[t].pc = "idling"
  <2>1. joins' = joins /\ joins /= t
    BY <1>6 DEF MainInv, Busy, Reading
  <2>2. MainInv'
    BY <1>2, <1>3, <1>6, <2>1 DEF MainInv, Busy, Reading, TypeOK
  <2>3. joins /= Nobody => thread'[joins].pc /= "none"
    BY <1>2, <2>1 DEF TypeOK
  <2> QED BY <1>1, <1>4, <2>1, <2>2, <2>3
<1> QED BY <1>5, <1>6

(* A request arrives for a free thread, and nobody reads the old packet.   *)
LEMMA ReceiveStep ==
  ASSUME IInv, Receive
  PROVE  IInv'
<1> USE Constants DEF IInv
<1> DEFINE t == FreeThread
<1>1. PICK r \in requests :
        /\ requests' = requests \ {r} /\ packet' = r
        /\ thread' = [thread EXCEPT ![t].pc = "parse"]
        /\ joins' = Joins(t, r.call) /\ joins = Nobody
        /\ \A u \in Threads : thread[u].pc \notin Reading
        /\ \E u \in Threads : thread[u].pc = "none"
        /\ UNCHANGED <<client, replies, table, datastore, answers>>
  BY DEF Receive
<1>2. t \in Threads /\ thread[t].pc = "none"
  BY <1>1 DEF FreeThread
<1> HIDE DEF t
<1>3. \A u \in Threads : thread[u].pc \notin Busy
  BY <1>1 DEF MainInv, Busy
<1>4. /\ thread'[t] = [thread[t] EXCEPT !.pc = "parse"] /\ thread'[t].pc = "parse"
      /\ \A u \in Threads \ {t} : thread'[u] = thread[u]
  BY <1>1, <1>2 DEF ThreadType
<1>5. \A m : Sent(m)' <=> Sent(m)
  BY <1>1 DEF Sent, Current
<1>6. Sent(r) /\ joins' \in {t, Nobody}
  BY <1>1 DEF MainInv, Joins
<1>7. TypeOK' /\ ThreadType'
  <2>1. [thread[t] EXCEPT !.pc = "parse"] \in ThreadRecords
    BY <1>2 DEF ThreadType, ThreadRecords, Busy, Reading
  <2>2. ThreadType'
    BY <1>1, <1>2, <2>1 DEF ThreadType
  <2>3. joins' /= Nobody => thread'[joins'].pc /= "none"
    BY <1>4, <1>6
  <2>4. TypeOK'
    BY <1>1, <1>2, <1>6, <2>3 DEF TypeOK
  <2> QED BY <2>2, <2>4
<1>8. TableSound' /\ FinalRepliesExact' /\ AnswerInv' /\ ReplyInv'
  BY <1>1 DEF TableSound, OneEntryPerClient, NeverOld, FinalRepliesExact, AnswerInv, ReplyInv, Current
<1>9. MainInv'
  BY <1>1, <1>3, <1>4, <1>5, <1>6 DEF MainInv, Busy, Reading
<1>10. ThreadInv'
  <2>1. ASSUME NEW u \in Threads PROVE ThreadOk(u)'
    <3>1. CASE u = t
      BY <1>4, <3>1 DEF ThreadOk, Busy, Reading, Holding
    <3>2. CASE u /= t
      <4>1. ThreadOk(u) /\ thread'[u] = thread[u] /\ thread[u].pc \notin Busy
        BY <1>3, <1>4, <3>2 DEF ThreadInv
      <4> QED BY <1>1, <4>1 DEF ThreadOk, Current
    <3> QED BY <3>1, <3>2
  <2>2. \A u \in Threads : thread'[u].pc \in Holding => thread'[u] = thread[u]
    BY <1>4 DEF Holding
  <2> QED BY <2>1, <2>2 DEF ThreadInv
<1>11. TableInv'
  <2>1. ASSUME NEW i \in Entries, NEW d \in Clients, table[i].client = d PROVE EntryOk(i, d)'
    <3>1. EntryOk(i, d)
      BY <2>1 DEF TableInv
    <3> QED BY <1>1, <1>2, <1>4, <3>1 DEF EntryOk, Current
  <2> QED BY <1>1, <2>1 DEF TableInv
<1> QED BY <1>7, <1>8, <1>9, <1>10, <1>11

(* What no step of a thread changes, and what it needs of the others.      *)
LEMMA Others ==
  ASSUME IInv, NEW t \in Threads, NEW u \in Threads, u /= t,
         thread'[u] = thread[u], UNCHANGED <<client, packet>>,
         thread[u].entry \in Entries => table'[thread[u].entry] = table[thread[u].entry],
         thread[u].client \in Clients => answers'[thread[u].client] = answers[thread[u].client],
         thread[u].pc /= "claim"
  PROVE  ThreadOk(u)'
<1>1. ThreadOk(u)
  BY DEF IInv, ThreadInv
<1>2. \A c \in Clients : \A n : Current(c, n)' <=> Current(c, n)
  BY DEF Current
<1> QED BY <1>1, <1>2 DEF ThreadOk, Holding, Busy, Reading

(* A step that changes only where a thread that reads its packet is.       *)
LEMMA ReadingStep ==
  ASSUME IInv, NEW t \in Threads, NEW h \in ThreadRecords,
         thread[t].pc \in Reading, h.pc \in Reading \ {"execute"},
         thread' = [thread EXCEPT ![t] = h],
         UNCHANGED <<client, net, packet, joins, table, datastore, answers>>,
         ThreadOk(t)'
  PROVE  IInv'
<1> USE DEF IInv, net
<1>1. thread'[t] = h /\ \A u \in Threads \ {t} : thread'[u] = thread[u]
  BY DEF ThreadType
<1>2. ThreadType' /\ MainInv'
  BY ThreadMoves DEF Busy, Reading
<1>3. TypeOK'
  BY <1>1 DEF TypeOK, Reading
<1>4. TableSound' /\ FinalRepliesExact' /\ AnswerInv' /\ ReplyInv'
  BY DEF TableSound, OneEntryPerClient, NeverOld, FinalRepliesExact, AnswerInv, ReplyInv, Current
<1>5. ThreadInv'
  <2>1. ASSUME NEW u \in Threads, u /= t PROVE ThreadOk(u)'
    <3>1. thread[u].pc \notin Busy
      BY <2>1 DEF MainInv, Busy
    <3> QED BY <1>1, <2>1, <3>1, Others DEF Busy, Reading
  <2>2. \A u \in Threads : thread'[u].pc \in Holding => thread'[u] = thread[u]
    BY <1>1 DEF Holding, Reading
  <2> QED BY <2>1, <2>2 DEF ThreadInv
<1>6. TableInv'
  <2>1. ASSUME NEW i \in Entries, NEW d \in Clients, table[i].client = d PROVE EntryOk(i, d)'
    <3>1. EntryOk(i, d)
      BY <2>1 DEF TableInv
    <3> QED BY <1>1, <3>1 DEF EntryOk, Current, Reading
  <2> QED BY <2>1 DEF TableInv
<1> QED BY <1>2, <1>3, <1>4, <1>5, <1>6

(* The request a thread works on.                                          *)
LEMMA Packet ==
  ASSUME IInv, NEW t \in Threads, thread[t].pc \in Busy
  PROVE  /\ packet.client \in Clients /\ packet.seq \in Nat /\ packet.call \in Calls[packet.client]
         /\ packet.seq <= client[packet.client].seq
         /\ Current(packet.client, packet.seq) => client[packet.client].call = packet.call
         /\ joins = Joins(t, packet.call)
         /\ thread[t].pc /= "parse" => thread[t].client = packet.client /\ thread[t].seq = packet.seq
  BY DEF IInv, MainInv, ThreadInv, ThreadOk, Sent

LEMMA ParseStep ==
  ASSUME IInv, NEW t \in Threads, Parse(t)
  PROVE  IInv'
<1> DEFINE h == [thread[t] EXCEPT !.pc = "search", !.client = packet.client, !.seq = packet.seq]
<1>1. /\ thread[t].pc = "parse" /\ thread' = [thread EXCEPT ![t] = h]
      /\ UNCHANGED <<client, net, packet, joins, table, datastore, answers>>
  BY DEF Parse, IInv, ThreadType
<1>2. packet.client \in Clients /\ packet.seq \in Nat
  BY <1>1, Packet DEF Busy, Reading
<1>3. h \in ThreadRecords
  BY <1>2 DEF IInv, ThreadType, ThreadRecords, Busy, Reading
<1>4. thread[t] \in ThreadRecords /\ thread'[t] = h
  BY <1>1 DEF IInv, ThreadType
<1>5. h.pc = "search" /\ h.client = packet.client /\ h.seq = packet.seq
  BY <1>4 DEF ThreadRecords
<1> HIDE DEF h
<1>6. ThreadOk(t)'
  BY <1>1, <1>4, <1>5 DEF ThreadOk, Busy, Reading, Holding
<1> QED BY <1>1, <1>3, <1>5, <1>6, ReadingStep DEF Reading

(* Behind the first free entry all are free: a client whose entry the
   search has not met has none. *)
LEMMA SearchStep ==
  ASSUME IInv, NEW t \in Threads, Search(t)
  PROVE  IInv'
<1> USE Constants
<1>1. PICK i \in Entries :
        /\ thread[t].pc = "search"
        /\ Stops(i) /\ \A j \in 1 .. i - 1 : ~Stops(j)
        /\ thread' = [thread EXCEPT ![t].pc = IF table[i].client = Nobody THEN "claim" ELSE "compare",
                                    ![t].entry = i, ![t].last = table[i].seq]
        /\ UNCHANGED <<client, net, packet, joins, table, datastore, answers>>
  BY DEF Search
<1> DEFINE h == [thread[t] EXCEPT !.pc = IF table[i].client = Nobody THEN "claim" ELSE "compare",
                                  !.entry = i, !.last = table[i].seq]
<1>2. /\ packet.client \in Clients /\ packet.seq \in Nat
      /\ thread[t].client = packet.client /\ thread[t].seq = packet.seq
  BY <1>1, Packet DEF Busy, Reading
<1>3. /\ thread[t] \in ThreadRecords
      /\ table[i].seq \in Nat \cup {-1} /\ i \in 0 .. NENTRIES
  BY DEF IInv, TypeOK, ThreadType
<1>4. thread' = [thread EXCEPT ![t] = h] /\ thread'[t] = h
  BY <1>1 DEF IInv, ThreadType
<1>5. h \in ThreadRecords
  BY <1>3 DEF ThreadRecords, Busy, Reading
<1>6. /\ h.pc = IF table[i].client = Nobody THEN "claim" ELSE "compare"
      /\ h.client = packet.client /\ h.seq = packet.seq /\ h.entry = i /\ h.last = table[i].seq
  BY <1>2, <1>3 DEF ThreadRecords
<1> HIDE DEF h
<1>7. CASE table[i].client = Nobody
  <2>1. \A j \in Entries : j < i => table[j].client /= Nobody /\ table[j].client /= packet.client
    BY <1>1 DEF Stops, Entries
  <2>2. \A j \in Entries : i < j => table[j].client = Nobody
    BY <1>7 DEF IInv, TableInv
  <2>3. \A j \in Entries : table[j].client /= packet.client
    BY <1>2, <1>7, <2>1, <2>2
  <2>4. ThreadOk(t)'
    BY <1>1, <1>2, <1>4, <1>6, <1>7, <2>1, <2>3 DEF ThreadOk, Busy, Reading, Holding
  <2> QED BY <1>1, <1>4, <1>5, <1>6, <1>7, <2>4, ReadingStep DEF Reading
<1>8. CASE table[i].client /= Nobody
  <2>1. ThreadOk(t)'
    BY <1>1, <1>2, <1>4, <1>6, <1>8 DEF ThreadOk, Busy, Reading, Holding, Stops
  <2> QED BY <1>1, <1>4, <1>5, <1>6, <1>8, <2>1, ReadingStep DEF Reading
<1> QED BY <1>7, <1>8

(* The claimed entry was free, and its client had no other.                *)
LEMMA ClaimStep ==
  ASSUME IInv, NEW t \in Threads, Claim(t)
  PROVE  IInv'
<1> USE Constants DEF IInv
<1> DEFINE i == thread[t].entry
           c == packet.client
           h == [thread[t] EXCEPT !.pc = "compare", !.last = table[i].seq]
<1>1. /\ thread[t].pc = "claim"
      /\ table' = [table EXCEPT ![i].client = c]
      /\ UNCHANGED <<client, net, packet, joins, datastore, answers>>
      /\ thread' = [thread EXCEPT ![t] = h] /\ thread'[t] = h
      /\ \A u \in Threads \ {t} : thread'[u] = thread[u]
  BY DEF Claim, ThreadType
<1>2. /\ c \in Clients /\ packet.seq \in Nat
      /\ thread[t].client = c /\ thread[t].seq = packet.seq
  BY <1>1, Packet DEF Busy, Reading
<1>3. /\ i \in Entries /\ table[i].client = Nobody
      /\ \A j \in Entries : table[j].client /= c
      /\ \A j \in Entries : j < i => table[j].client /= Nobody
  <2>1. ThreadOk(t)
    BY DEF ThreadInv
  <2> QED BY <1>1, <1>2, <2>1 DEF ThreadOk, Holding
<1>4. table[i].seq = -1 /\ ~table[i].done
  BY <1>3 DEF TableInv
<1>5. /\ table'[i] = [table[i] EXCEPT !.client = c] /\ table'[i].client = c
      /\ table'[i].seq = -1 /\ ~table'[i].done
      /\ \A j \in Entries \ {i} : table'[j] = table[j]
  BY <1>1, <1>3, <1>4 DEF TypeOK
<1>6. h \in ThreadRecords /\ h.pc = "compare" /\ h.client = c /\ h.seq = packet.seq /\ h.entry = i
      /\ h.last = -1
  BY <1>2, <1>4 DEF ThreadType, ThreadRecords, Busy, Reading
<1> HIDE DEF h
<1>7. ThreadType' /\ MainInv'
  BY <1>1, <1>6, ThreadMoves DEF net, Busy, Reading
<1>8. TypeOK'
  <2>1. table' \in [Entries -> [client : Clients \cup {Nobody}, seq : Nat \cup {-1},
                               done : BOOLEAN, result : Int]]
    BY <1>1, <1>2, <1>3 DEF TypeOK
  <2>2. joins /= Nobody => thread'[joins].pc /= "none"
    BY <1>1, <1>6 DEF TypeOK
  <2> QED BY <1>1, <2>1, <2>2 DEF TypeOK, net
<1>9. TableSound'
  BY <1>1, <1>2, <1>3, <1>5 DEF TableSound, OneEntryPerClient, NeverOld, TypeOK
<1>10. FinalRepliesExact' /\ ReplyInv'
  BY <1>1 DEF FinalRepliesExact, ReplyInv, Current, net
<1>11. ThreadInv'
  <2>1. ASSUME NEW u \in Threads, u /= t PROVE ThreadOk(u)'
    <3>1. thread[u].pc \notin Busy
      BY <1>1, <2>1 DEF MainInv, Busy, Reading
    <3>2. ThreadOk(u)
      BY DEF ThreadInv
    <3>3. thread[u].pc = "idling" => thread[u].entry /= i
      BY <1>3, <3>2 DEF ThreadOk, Holding
    <3> QED BY <1>1, <1>5, <2>1, <3>1, <3>2, <3>3 DEF ThreadOk, Current, Holding, Busy, Reading
  <2>2. ThreadOk(t)'
    BY <1>1, <1>2, <1>3, <1>5, <1>6 DEF ThreadOk, Busy, Reading, Holding
  <2>3. \A u \in Threads : thread'[u].pc \in Holding => thread'[u] = thread[u]
    BY <1>1, <1>6 DEF Holding
  <2> QED BY <2>1, <2>2, <2>3 DEF ThreadInv
<1>12. TableInv'
  <2>1. ASSUME NEW j \in Entries, NEW d \in Clients, table'[j].client = d PROVE EntryOk(j, d)'
    <3>1. CASE j = i
      <4>1. answers[c].seq = -1 /\ client[c].seq \in Nat
        BY <1>2, <1>3 DEF AnswerInv, TypeOK
      <4> QED BY <1>1, <1>2, <1>5, <2>1, <3>1, <4>1 DEF EntryOk, Current
    <3>2. CASE j /= i
      <4>1. EntryOk(j, d)
        BY <1>5, <2>1, <3>2 DEF TableInv
      <4> QED BY <1>1, <1>5, <1>6, <3>2, <4>1 DEF EntryOk, Current
    <3> QED BY <3>1, <3>2
  <2>2. \A j, k \in Entries : k < j /\ table'[k].client = Nobody => table'[j].client = Nobody
    BY <1>2, <1>3, <1>5 DEF TableInv
  <2>3. \A j \in Entries : table'[j].client = Nobody => table'[j].seq = -1 /\ ~table'[j].done
    BY <1>2, <1>5 DEF TableInv
  <2> QED BY <2>1, <2>2, <2>3 DEF TableInv
<1>13. AnswerInv'
  <2>1. \A d \in Clients : (\A j \in Entries : table'[j].client /= d) => \A j \in Entries : table[j].client /= d
    BY <1>2, <1>3, <1>5
  <2> QED BY <1>1, <2>1 DEF AnswerInv, Current
<1> QED BY <1>7, <1>8, <1>9, <1>10, <1>11, <1>12, <1>13

(* A thread that has compared, or has written its result, ends.  An idle   *)
(* one sets done first (IdleDoneStep).                                     *)
LEMMA EndStep ==
  ASSUME IInv, NEW t \in Threads, thread[t].pc = "compare", Ends(t),
         UNCHANGED <<client, requests, packet, table, datastore, answers>>,
         FinalRepliesExact', ReplyInv',
         \A m \in replies' : m.to \in Clients /\ m.client \in Clients /\ m.seq \in Nat
  PROVE  IInv'
<1> USE DEF IInv
<1>1. thread'[t] = NoThread /\ \A u \in Threads \ {t} : thread'[u] = thread[u]
  BY DEF Ends, ThreadType
<1>2. /\ ThreadType' /\ MainInv' /\ joins' \in Threads \cup {Nobody}
      /\ joins' /= Nobody => thread'[joins'].pc /= "none"
  BY ThreadEnds DEF Busy, Reading
<1>3. TypeOK' /\ TableSound' /\ AnswerInv'
  BY <1>2 DEF TypeOK, TableSound, OneEntryPerClient, NeverOld, AnswerInv, Current
<1>4. ThreadInv'
  <2>1. ASSUME NEW u \in Threads, u /= t PROVE ThreadOk(u)'
    <3>1. thread[u].pc \notin Busy
      BY <2>1 DEF MainInv, Busy, Reading
    <3> QED BY <1>1, <2>1, <3>1, Others DEF Busy, Reading
  <2>2. ThreadOk(t)'
    BY <1>1 DEF ThreadOk, NoThread, Busy, Reading, Holding
  <2>3. \A u \in Threads : thread'[u].pc \in Holding => thread'[u] = thread[u]
    BY <1>1 DEF Holding, NoThread
  <2> QED BY <2>1, <2>2, <2>3 DEF ThreadInv
<1>5. TableInv'
  <2>1. ASSUME NEW i \in Entries, NEW d \in Clients, table[i].client = d PROVE EntryOk(i, d)'
    <3>1. EntryOk(i, d)
      BY <2>1 DEF TableInv
    <3> QED BY <1>1, <3>1 DEF EntryOk, Current, NoThread
  <2> QED BY <2>1 DEF TableInv
<1> QED BY <1>2, <1>3, <1>4, <1>5

LEMMA IgnoreStep ==
  ASSUME IInv, NEW t \in Threads, Ignore(t)
  PROVE  IInv'
<1>1. FinalRepliesExact' /\ ReplyInv'
  BY DEF Ignore, IInv, FinalRepliesExact, ReplyInv, Current, net
<1>2. \A m \in replies' : m.to \in Clients /\ m.client \in Clients /\ m.seq \in Nat
  BY DEF Ignore, IInv, TypeOK, net
<1> QED BY <1>1, <1>2, EndStep DEF Ignore, net

(* An entry of the client's current number that says done holds the answer:
   the thread that would still have to write it is this one. *)
LEMMA ResendReplyStep ==
  ASSUME IInv, NEW t \in Threads, Resend(t)
  PROVE  IInv'
<1> USE DEF IInv
<1> DEFINE i == thread[t].entry
           e == table[i]
           c == packet.client
           m == Feedback(t)
<1>1. /\ thread[t].pc = "compare" /\ thread[t].last = packet.seq
      /\ replies' = IF client[c].pc = "dead" THEN replies ELSE replies \cup {m}
      /\ Ends(t)
      /\ UNCHANGED <<client, requests, packet, table, datastore, answers>>
  BY DEF Resend
<1>2. /\ c \in Clients /\ packet.seq \in Nat /\ packet.seq <= client[c].seq
      /\ thread[t].client = c /\ thread[t].seq = packet.seq
      /\ Current(c, packet.seq) => client[c].call = packet.call
      /\ packet.call \in Calls[c]
  BY <1>1, Packet DEF Busy, Reading
<1>3. i \in Entries /\ e.client = c /\ e.seq = packet.seq
  <2>1. ThreadOk(t)
    BY DEF ThreadInv
  <2> QED BY <1>1, <1>2, <2>1 DEF ThreadOk, Holding
<1>4. EntryOk(i, c)
  BY <1>2, <1>3 DEF TableInv
<1>5. /\ m.to = c /\ m.client = c /\ m.seq = packet.seq
      /\ m.ack <=> ~e.done
      /\ e.done => m.value = e.result
      /\ m.value \in Int
  <2>1. e.done \in BOOLEAN /\ e.result \in Int
    BY <1>3 DEF TypeOK
  <2>2. m = Reply(c, thread[t].client, thread[t].seq, ~e.done, IF e.done THEN e.result ELSE -1)
    BY DEF Feedback
  <2> HIDE DEF m, e, c
  <2>3. m.to = c /\ m.client = c /\ m.seq = packet.seq
    BY <1>2, <2>2 DEF Reply
  <2>4. m.ack = ~e.done /\ m.value = IF e.done THEN e.result ELSE -1
    BY <2>2, Zenon DEF Reply
  <2>5. (m.ack <=> ~e.done) /\ (e.done => m.value = e.result)
    BY <2>4, Zenon
  <2>6. m.value \in Int
    <3>1. m.value = IF e.done THEN e.result ELSE -1
      BY <2>4
    <3> QED BY <2>1, <3>1
  <2> QED BY <2>3, <2>5, <2>6, Zenon
<1>6. client[c].call /= NoCall \/ ~Current(c, packet.seq)
  BY <1>2, Constants
<1>7. ~\E u \in Threads : thread[u].pc = "result" /\ thread[u].entry = i
  BY <1>1 DEF MainInv, Busy, Reading
<1>8. e.done => answers[c].seq = packet.seq
  BY <1>3, <1>4 DEF EntryOk
<1>9. e.done /\ Current(c, packet.seq) /\ client[c].call.op /= "idle" => e.result = answers[c].value
  BY <1>3, <1>4, <1>7 DEF EntryOk
<1> HIDE DEF m, e, c
<1>10. \A q \in replies' : q \in replies \/ q = m
  BY <1>1
<1>11. ReplyInv'
  BY <1>1, <1>2, <1>5, <1>6, <1>10 DEF ReplyInv, Current
<1>12. FinalRepliesExact'
  BY <1>1, <1>5, <1>8, <1>9, <1>10 DEF FinalRepliesExact, Current
<1>13. \A q \in replies' : q.to \in Clients /\ q.client \in Clients /\ q.seq \in Nat
  BY <1>2, <1>5, <1>10 DEF TypeOK
<1> QED BY <1>1, <1>11, <1>12, <1>13, EndStep DEF c, m

(* A new request has the number its client waits on: the one before has
   been executed, or there would be no new one. *)
LEMMA BeginStep ==
  ASSUME IInv, NEW t \in Threads, Begin(t)
  PROVE  IInv'
<1> USE Constants DEF IInv
<1> DEFINE i == thread[t].entry
           c == packet.client
           h == [thread[t] EXCEPT !.pc = "execute"]
<1>1. /\ thread[t].pc = "compare" /\ thread[t].last < packet.seq
      /\ table' = [table EXCEPT ![i] = Cleared(@)]
      /\ UNCHANGED <<client, net, packet, joins, datastore, answers>>
      /\ thread' = [thread EXCEPT ![t] = h] /\ thread'[t] = h
      /\ \A u \in Threads \ {t} : thread'[u] = thread[u]
  BY DEF Begin, Goto, IsNew, ThreadType
<1>2. /\ c \in Clients /\ packet.seq \in Nat /\ packet.seq <= client[c].seq
      /\ thread[t].client = c /\ thread[t].seq = packet.seq
      /\ Current(c, packet.seq) => client[c].call = packet.call
      /\ packet.call \in Calls[c]
  BY <1>1, Packet DEF Busy, Reading
<1>3. i \in Entries /\ table[i].client = c /\ table[i].seq < packet.seq
  <2>1. ThreadOk(t)
    BY DEF ThreadInv
  <2> QED BY <1>1, <1>2, <2>1 DEF ThreadOk, Holding
<1>4. EntryOk(i, c)
  BY <1>2, <1>3 DEF TableInv
<1>5. Current(c, packet.seq) /\ answers[c].seq < packet.seq /\ client[c].call /= NoCall
  <2>1. answers[c].seq <= table[i].seq /\ client[c].seq - 1 <= answers[c].seq
    BY <1>2, <1>4 DEF EntryOk, AnswerInv
  <2>2. answers[c].seq \in Int /\ table[i].seq \in Int /\ client[c].seq \in Int
    <3>1. answers[c].seq \in Int
      BY <1>2 DEF AnswerInv
    <3>2. table[i].seq \in Int
      <4>1. table[i] \in [client : Clients \cup {Nobody}, seq : Nat \cup {-1}, done : BOOLEAN, result : Int]
        BY <1>3 DEF TypeOK
      <4> QED BY <4>1
    <3>3. client[c].seq \in Int
      BY <1>2 DEF TypeOK
    <3> QED BY <3>1, <3>2, <3>3
  <2>3. packet.seq = client[c].seq /\ answers[c].seq < packet.seq
    BY <1>2, <1>3, <2>1, <2>2
  <2> QED BY <1>2, <2>3 DEF Current
<1>6. /\ table'[i].client = c /\ table'[i].seq = packet.seq /\ ~table'[i].done
      /\ \A j \in Entries \ {i} : table'[j] = table[j]
  BY <1>1, <1>3 DEF TypeOK, Cleared
<1>7. h \in ThreadRecords /\ h.pc = "execute" /\ h.client = c /\ h.seq = packet.seq /\ h.entry = i
  BY <1>2 DEF ThreadType, ThreadRecords, Busy, Reading
<1> HIDE DEF h
<1>8. ThreadType' /\ MainInv'
  BY <1>1, <1>7, ThreadMoves DEF net, Busy, Reading
<1>9. TypeOK'
  <2>1. table' \in [Entries -> [client : Clients \cup {Nobody}, seq : Nat \cup {-1},
                               done : BOOLEAN, result : Int]]
    <3>1. table[i] \in [client : Clients \cup {Nobody}, seq : Nat \cup {-1}, done : BOOLEAN, result : Int]
      BY <1>3 DEF TypeOK
    <3>2. Cleared(table[i]) \in [client : Clients \cup {Nobody}, seq : Nat \cup {-1},
                                 done : BOOLEAN, result : Int]
      BY <1>2, <3>1 DEF Cleared
    <3> QED BY <1>1, <1>3, <3>2 DEF TypeOK
  <2>2. joins /= Nobody => thread'[joins].pc /= "none"
    BY <1>1, <1>7 DEF TypeOK
  <2> QED BY <1>1, <2>1, <2>2 DEF TypeOK, net
<1>10. TableSound'
  BY <1>1, <1>2, <1>3, <1>6 DEF TableSound, OneEntryPerClient, NeverOld
<1>11. FinalRepliesExact' /\ ReplyInv'
  BY <1>1 DEF FinalRepliesExact, ReplyInv, Current, net
<1>12. ThreadInv'
  <2>1. ASSUME NEW u \in Threads, u /= t PROVE ThreadOk(u)' /\ (thread[u].pc \in Holding => thread[u].client /= c)
    <3>1. thread[u].pc \notin Busy
      BY <1>1, <2>1 DEF MainInv, Busy, Reading
    <3>2. ThreadOk(u)
      BY DEF ThreadInv
    <3>3. CASE thread[u].pc = "idling"
      <4>1. Current(thread[u].client, thread[u].seq) /\ table[thread[u].entry].seq = thread[u].seq
        BY <3>2, <3>3 DEF ThreadOk, Holding
      <4>2. thread[u].entry /= i /\ thread[u].entry \in Entries /\ table[thread[u].entry].client = thread[u].client
        BY <1>3, <1>5, <3>2, <3>3, <4>1 DEF ThreadOk, Holding, Current, TypeOK
      <4>3. thread[u].client /= c
        BY <1>2, <1>3, <4>2 DEF TableSound, OneEntryPerClient
      <4> QED BY <1>1, <1>6, <2>1, <3>3, <4>2, <4>3, Others
    <3>4. CASE thread[u].pc /= "idling"
      BY <1>1, <2>1, <3>1, <3>4 DEF ThreadOk, Holding, Busy, Reading
    <3> QED BY <3>3, <3>4
  <2>2. ThreadOk(t)'
    BY <1>1, <1>2, <1>3, <1>5, <1>6, <1>7 DEF ThreadOk, Busy, Reading, Holding, Current
  <2>3. ASSUME NEW u \in Threads, NEW v \in Threads, thread'[u].pc \in Holding, thread'[v].pc \in Holding,
               thread'[u].client = thread'[v].client
        PROVE  u = v
    BY <1>1, <1>7, <2>1, <2>3 DEF ThreadInv
  <2> QED BY <2>1, <2>2, <2>3 DEF ThreadInv
<1>13. TableInv'
  <2>1. ASSUME NEW j \in Entries, NEW d \in Clients, table'[j].client = d PROVE EntryOk(j, d)'
    <3>1. CASE j = i
      <4>1. d = c /\ answers[c].seq \in Int
        BY <1>2, <1>6, <2>1, <3>1 DEF AnswerInv
      <4> QED BY <1>1, <1>2, <1>5, <1>6, <3>1, <4>1 DEF EntryOk, Current
    <3>2. CASE j /= i
      <4>1. EntryOk(j, d)
        BY <1>6, <2>1, <3>2 DEF TableInv
      <4> QED BY <1>1, <1>6, <1>7, <3>2, <4>1 DEF EntryOk, Current
    <3> QED BY <3>1, <3>2
  <2>2. \A j \in Entries : table'[j].client = table[j].client
    BY <1>3, <1>6
  <2>3. \A j \in Entries : table'[j].client = Nobody => table'[j].seq = -1 /\ ~table'[j].done
    BY <1>2, <1>6 DEF TableInv
  <2> QED BY <2>1, <2>2, <2>3 DEF TableInv
<1>14. AnswerInv'
  <2>1. \A j \in Entries : table'[j].client = table[j].client
    BY <1>3, <1>6
  <2> QED BY <1>1, <2>1 DEF AnswerInv, Current
<1> QED BY <1>8, <1>9, <1>10, <1>11, <1>12, <1>13, <1>14

(* Main goes on while the thread sleeps.                                   *)
LEMMA IdleStartStep ==
  ASSUME IInv, NEW t \in Threads, IdleStart(t)
  PROVE  IInv'
<1> USE Constants DEF IInv
<1> DEFINE h == [thread[t] EXCEPT !.pc = "idling"]
<1>1. /\ thread[t].pc = "execute" /\ packet.call.op = "idle"
      /\ UNCHANGED <<client, net, packet, joins, table, datastore, answers>>
      /\ thread' = [thread EXCEPT ![t] = h] /\ thread'[t] = h
      /\ \A u \in Threads \ {t} : thread'[u] = thread[u]
  BY DEF IdleStart, Goto, ThreadType
<1>2. /\ joins = Nobody /\ thread[t].client = packet.client /\ packet.client \in Clients
      /\ thread[t].seq = packet.seq
      /\ Current(packet.client, packet.seq) => client[packet.client].call = packet.call
  BY <1>1, Packet DEF Joins, Busy, Reading
<1>3. /\ h \in ThreadRecords /\ h.pc = "idling"
      /\ h.client = thread[t].client /\ h.seq = thread[t].seq /\ h.entry = thread[t].entry
  BY DEF ThreadType, ThreadRecords, Busy, Reading
<1> HIDE DEF h
<1>4. ThreadType' /\ TypeOK'
  BY <1>1, <1>2, <1>3 DEF ThreadType, TypeOK, net
<1>5. TableSound' /\ FinalRepliesExact' /\ AnswerInv' /\ ReplyInv'
  BY <1>1 DEF TableSound, OneEntryPerClient, NeverOld, FinalRepliesExact, AnswerInv, ReplyInv, Current, net
<1>6. MainInv'
  <2>1. \A m : Sent(m)' <=> Sent(m)
    BY <1>1 DEF Sent, Current
  <2>2. \A u \in Threads : thread'[u].pc \notin Busy
    BY <1>1, <1>3 DEF MainInv, Busy, Reading
  <2> QED BY <1>1, <1>2, <2>1, <2>2 DEF MainInv, net, Busy
<1>7. ThreadInv'
  <2>1. ASSUME NEW u \in Threads, u /= t PROVE ThreadOk(u)'
    <3>1. thread[u].pc \notin Busy
      BY <1>1, <2>1 DEF MainInv, Busy, Reading
    <3> QED BY <1>1, <2>1, <3>1, Others DEF Busy, Reading
  <2>2. ThreadOk(t)'
    <3>1. ThreadOk(t)
      BY DEF ThreadInv
    <3>2. Current(packet.client, packet.seq)
      BY <1>1, <1>2, <3>1 DEF ThreadOk
    <3> QED BY <1>1, <1>2, <1>3, <3>1, <3>2 DEF ThreadOk, Busy, Reading, Holding, Current
  <2>3. \A u \in Threads : thread'[u].pc \in Holding => thread[u].pc \in Holding /\ thread'[u].client = thread[u].client
    BY <1>1, <1>3 DEF Holding
  <2> QED BY <2>1, <2>2, <2>3 DEF ThreadInv
<1>8. TableInv'
  <2>1. ASSUME NEW i \in Entries, NEW d \in Clients, table[i].client = d PROVE EntryOk(i, d)'
    <3>1. EntryOk(i, d)
      BY <2>1 DEF TableInv
    <3> QED BY <1>1, <1>3, <3>1 DEF EntryOk, Current
  <2> QED BY <1>1, <2>1 DEF TableInv
<1> QED BY <1>4, <1>5, <1>6, <1>7, <1>8

(* What get and put return, and what they leave in the store.              *)
LEMMA Outcome ==
  ASSUME NEW c \in Clients, NEW r \in Calls[c], NEW s \in [Keys -> Int]
  PROVE  Answer(r, s) \in Int /\ Effect(r, s) \in [Keys -> Int]
<1>1. /\ r.op \in {"idle", "get", "put"} /\ r.key \in Int /\ r.value \in Int /\ r.key /= NUMKEYS
      /\ NUMKEYS \in Nat
  BY ConstantAssumptions
<1>2. InStore(r) => r.key \in Keys
  BY <1>1 DEF InStore, Keys
<1>3. Answer(r, s) \in Int
  BY <1>1, <1>2 DEF Answer
<1>4. Effect(r, s) \in [Keys -> Int]
  BY <1>1, <1>2 DEF Effect
<1> QED BY <1>3, <1>4

(* A thread that executes works on its client's current request, whose
   answer nobody has yet. *)
LEMMA Executes ==
  ASSUME IInv, NEW t \in Threads, thread[t].pc \in {"execute", "idling"}
  PROVE  /\ thread[t].client \in Clients /\ thread[t].seq \in Nat
         /\ Current(thread[t].client, thread[t].seq)
         /\ answers[thread[t].client].seq < thread[t].seq
         /\ client[thread[t].client].call /= NoCall
         /\ thread[t].entry \in Entries /\ table[thread[t].entry].client = thread[t].client
         /\ table[thread[t].entry].seq = thread[t].seq /\ ~table[thread[t].entry].done
         /\ \A m \in replies : ~(m.client = thread[t].client /\ Current(m.client, m.seq) /\ ~m.ack)
         /\ thread[t].pc = "execute" =>
              /\ thread[t].client = packet.client /\ thread[t].seq = packet.seq
              /\ packet.call \in Calls[packet.client] /\ client[packet.client].call = packet.call
              /\ joins = Joins(t, packet.call)
         /\ thread[t].pc = "idling" => client[thread[t].client].call.op = "idle"
<1> USE DEF IInv
<1>1. ThreadOk(t)
  BY DEF ThreadInv
<1>2. /\ thread[t].client \in Clients
      /\ Current(thread[t].client, thread[t].seq)
      /\ answers[thread[t].client].seq < thread[t].seq
      /\ thread[t].entry \in Entries /\ table[thread[t].entry].client = thread[t].client
      /\ table[thread[t].entry].seq = thread[t].seq /\ ~table[thread[t].entry].done
      /\ thread[t].pc = "idling" => client[thread[t].client].call.op = "idle"
  BY <1>1 DEF ThreadOk, Holding
<1>3. client[thread[t].client].call /= NoCall
  BY <1>2 DEF TableInv, EntryOk
<1>4. thread[t].seq \in Nat /\ answers[thread[t].client].seq \in Int
  <2>1. thread[t].seq = client[thread[t].client].seq
    BY <1>2 DEF Current
  <2> QED BY <1>2, <2>1 DEF TypeOK, AnswerInv
<1>5. \A m \in replies : ~(m.client = thread[t].client /\ Current(m.client, m.seq) /\ ~m.ack)
  <2> SUFFICES ASSUME NEW m \in replies, m.client = thread[t].client, Current(m.client, m.seq), ~m.ack
               PROVE  FALSE
    OBVIOUS
  <2>1. m.to = m.client
    BY DEF ReplyInv
  <2>2. answers[m.client].seq = m.seq
    BY <2>1 DEF FinalRepliesExact, Current
  <2> QED BY <1>2, <1>4, <2>2 DEF Current
<1>6. thread[t].pc = "execute" =>
        /\ thread[t].client = packet.client /\ thread[t].seq = packet.seq
        /\ packet.call \in Calls[packet.client] /\ client[packet.client].call = packet.call
        /\ joins = Joins(t, packet.call)
  BY <1>2, Packet DEF Busy, Reading
<1> QED BY <1>2, <1>3, <1>4, <1>5, <1>6

(* The history of a client whose current call is executed now.             *)
LEMMA AnsweredStep ==
  ASSUME IInv, NEW c \in Clients, NEW v \in Int, UNCHANGED <<client, replies>>,
         Answered(c, client[c].seq, v), answers[c].seq < client[c].seq,
         client[c].call /= NoCall, client[c].call.op = "idle" => v = 0,
         \A m \in replies : ~(m.client = c /\ Current(m.client, m.seq) /\ ~m.ack),
         \E i \in Entries : table[i].client = c,
         \A i \in Entries : table'[i].client = table[i].client
  PROVE  AnswerInv' /\ FinalRepliesExact' /\ ReplyInv'
<1> USE DEF IInv
<1>1. /\ answers'[c] = [seq |-> client[c].seq, value |-> v]
      /\ \A d \in Clients \ {c} : answers'[d] = answers[d]
      /\ answers' \in [Clients -> [seq : Nat \cup {-1}, value : Int]]
      /\ client[c].seq \in Nat
  BY DEF Answered, AnswerInv, TypeOK
<1>2. AnswerInv'
  BY <1>1 DEF AnswerInv, Current
<1>3. FinalRepliesExact'
  BY <1>1 DEF FinalRepliesExact, Current, TypeOK
<1>4. ReplyInv'
  BY DEF ReplyInv, Current
<1> QED BY <1>2, <1>3, <1>4

(* server_get and server_put: the datastore and the history change at once. *)
LEMMA ExecuteStep ==
  ASSUME IInv, NEW t \in Threads, Execute(t)
  PROVE  IInv'
<1> USE Constants DEF IInv
<1> DEFINE c == packet.client
           i == thread[t].entry
           v == Answer(packet.call, datastore)
           h == [thread[t] EXCEPT !.pc = "done", !.value = v]
<1>1. /\ thread[t].pc = "execute" /\ packet.call.op /= "idle"
      /\ datastore' = Effect(packet.call, datastore)
      /\ Answered(c, packet.seq, v)
      /\ UNCHANGED <<client, net, packet, joins, table>>
      /\ thread' = [thread EXCEPT ![t] = h] /\ thread'[t] = h
      /\ \A u \in Threads \ {t} : thread'[u] = thread[u]
  BY DEF Execute, ThreadType
<1>2. /\ c \in Clients /\ packet.seq = client[c].seq
      /\ thread[t].client = c /\ thread[t].seq = packet.seq
      /\ answers[c].seq < client[c].seq /\ client[c].call /= NoCall
      /\ i \in Entries /\ table[i].client = c /\ table[i].seq = packet.seq /\ ~table[i].done
      /\ \A m \in replies : ~(m.client = c /\ Current(m.client, m.seq) /\ ~m.ack)
      /\ packet.call \in Calls[c] /\ client[c].call = packet.call
      /\ joins = t
  BY <1>1, Executes DEF Current, Joins
<1>3. v \in Int /\ datastore' \in [Keys -> Int]
  BY <1>1, <1>2, Outcome DEF TypeOK
<1> HIDE DEF v
<1>4. h \in ThreadRecords /\ h.pc = "done" /\ h.value = v /\ h.client = c /\ h.seq = packet.seq /\ h.entry = i
  BY <1>2, <1>3 DEF ThreadType, ThreadRecords, Busy
<1> HIDE DEF h
<1>5. /\ answers'[c] = [seq |-> packet.seq, value |-> v]
      /\ \A d \in Clients \ {c} : answers'[d] = answers[d]
  BY <1>1, <1>2 DEF Answered, AnswerInv
<1>6. ThreadType' /\ MainInv'
  BY <1>1, <1>2, <1>4, ThreadMoves DEF net, Busy, Reading
<1>7. TypeOK'
  BY <1>1, <1>2, <1>3, <1>4 DEF TypeOK, net
<1>8. TableSound'
  BY <1>1 DEF TableSound, OneEntryPerClient, NeverOld
<1>9. AnswerInv' /\ FinalRepliesExact' /\ ReplyInv'
  BY <1>1, <1>2, <1>3, AnsweredStep DEF net
<1>10. ThreadInv'
  <2>1. ASSUME NEW u \in Threads, u /= t PROVE ThreadOk(u)'
    <3>1. thread[u].pc \notin Busy
      BY <1>1, <2>1 DEF MainInv, Busy, Reading
    <3>2. CASE thread[u].pc = "idling"
      <4>1. thread[u].client /= c
        BY <1>1, <1>2, <2>1, <3>2 DEF ThreadInv, Holding
      <4> QED BY <1>1, <1>5, <2>1, <3>2, <4>1, Others
    <3>3. CASE thread[u].pc /= "idling"
      BY <1>1, <2>1, <3>1, <3>3 DEF ThreadOk, Holding, Busy, Reading
    <3> QED BY <3>2, <3>3
  <2>2. ThreadOk(t)'
    BY <1>1, <1>2, <1>4, <1>5 DEF ThreadOk, Busy, Reading, Holding
  <2>3. \A u \in Threads : thread'[u].pc \in Holding => thread[u].pc \in Holding /\ thread'[u].client = thread[u].client
    BY <1>1, <1>2, <1>4 DEF Holding
  <2> QED BY <2>1, <2>2, <2>3 DEF ThreadInv
<1>11. TableInv'
  <2>1. ASSUME NEW j \in Entries, NEW d \in Clients, table[j].client = d PROVE EntryOk(j, d)'
    <3>1. EntryOk(j, d)
      BY <2>1 DEF TableInv
    <3>2. CASE j = i
      <4>1. d = c /\ client[c].seq \in Nat
        BY <1>2, <2>1, <3>2 DEF TypeOK
      <4> QED BY <1>1, <1>2, <1>5, <3>2, <4>1 DEF EntryOk, Current
    <3>3. CASE j /= i
      <4>1. d /= c
        BY <1>2, <2>1, <3>3 DEF TableSound, OneEntryPerClient
      <4> QED BY <1>1, <1>4, <1>5, <3>1, <4>1 DEF EntryOk, Current
    <3> QED BY <3>2, <3>3
  <2> QED BY <1>1, <2>1 DEF TableInv
<1> QED BY <1>6, <1>7, <1>8, <1>9, <1>10, <1>11

(* The table entry of a thread that executes is written by nobody else.    *)
EntryRecords == [client : Clients \cup {Nobody}, seq : Nat \cup {-1}, done : BOOLEAN, result : Int]

Wrote(t, e) ==
  LET i == thread[t].entry  c == thread[t].client IN
  /\ table' \in [Entries -> EntryRecords] /\ TableSound'
  /\ i \in Entries /\ c \in Clients /\ table'[i] = e /\ table[i].client = c
  /\ \A j \in Entries : /\ table'[j].client = table[j].client /\ table'[j].seq = table[j].seq
                        /\ j /= i => table'[j] = table[j]
  /\ \A j \in Entries : table[j].client = c => j = i
  /\ \A u \in Threads \ {t} : thread[u].pc \in Holding =>
       thread[u].entry /= i /\ thread[u].entry \in Entries /\ thread[u].client /= c

LEMMA EntryWritten ==
  ASSUME IInv, NEW t \in Threads, thread[t].pc \in Holding, NEW e \in EntryRecords,
         table' = [table EXCEPT ![thread[t].entry] = e],
         e.client = table[thread[t].entry].client, e.seq = table[thread[t].entry].seq,
         UNCHANGED client
  PROVE  Wrote(t, e)
<1> USE DEF IInv
<1>1. \A u \in Threads : thread[u].pc \in Holding =>
        /\ thread[u].entry \in Entries /\ thread[u].client \in Clients
        /\ table[thread[u].entry].client = thread[u].client
  <2> TAKE u \in Threads
  <2>1. ThreadOk(u)
    BY DEF ThreadInv
  <2> QED BY <2>1 DEF ThreadOk, Holding
<1>2. \A u \in Threads \ {t} : thread[u].pc \in Holding => /\ thread[u].entry /= thread[t].entry
                                                           /\ thread[u].entry \in Entries
                                                           /\ thread[u].client /= thread[t].client
  BY <1>1 DEF ThreadInv
<1>3. \A j \in Entries : /\ table'[j].client = table[j].client /\ table'[j].seq = table[j].seq
                         /\ j /= thread[t].entry => table'[j] = table[j]
  BY <1>1 DEF TypeOK
<1>4. \A j \in Entries : table[j].client = thread[t].client => j = thread[t].entry
  BY <1>1, Constants DEF TableSound, OneEntryPerClient
<1>5. table' \in [Entries -> EntryRecords] /\ table'[thread[t].entry] = e
  BY <1>1 DEF TypeOK, EntryRecords
<1>6. TableSound'
  BY <1>3 DEF TableSound, OneEntryPerClient, NeverOld
<1> QED BY <1>1, <1>2, <1>3, <1>4, <1>5, <1>6 DEF Wrote

LEMMA EntryRecord ==
  ASSUME IInv, NEW i \in Entries
  PROVE  /\ table[i] \in EntryRecords
         /\ [table[i] EXCEPT !.done = TRUE] \in EntryRecords
         /\ [table[i] EXCEPT !.done = TRUE].client = table[i].client
         /\ [table[i] EXCEPT !.done = TRUE].seq = table[i].seq
         /\ [table[i] EXCEPT !.done = TRUE].done = TRUE
<1>1. table[i] \in EntryRecords
  BY DEF IInv, TypeOK, EntryRecords
<1> QED BY <1>1 DEF EntryRecords

(* idle sets done and ends; its client waits on it, and on nothing else.   *)
LEMMA IdleDoneStep ==
  ASSUME IInv, NEW t \in Threads, IdleDone(t)
  PROVE  IInv'
<1> USE Constants DEF IInv
<1> DEFINE c == thread[t].client
           i == thread[t].entry
           e == Woken(table[i])
<1>1. /\ thread[t].pc = "idling"
      /\ table' = [table EXCEPT ![i] = e]
      /\ Answered(c, thread[t].seq, 0)
      /\ Ends(t)
      /\ UNCHANGED <<client, net, packet, datastore>>
      /\ thread'[t] = NoThread /\ \A u \in Threads \ {t} : thread'[u] = thread[u]
  BY DEF IdleDone, Ends, ThreadType
<1>2. /\ c \in Clients /\ thread[t].seq = client[c].seq
      /\ answers[c].seq < client[c].seq /\ client[c].call /= NoCall
      /\ i \in Entries /\ table[i].client = c /\ table[i].seq = thread[t].seq
      /\ \A m \in replies : ~(m.client = c /\ Current(m.client, m.seq) /\ ~m.ack)
      /\ client[c].call.op = "idle"
  BY <1>1, Executes DEF Current
<1>3. e \in EntryRecords /\ e.client = table[i].client /\ e.seq = table[i].seq /\ e.done
  BY <1>2, EntryRecord DEF Woken
<1> HIDE DEF e
<1>w. Wrote(t, e)
  BY <1>1, <1>3, EntryWritten DEF Holding
<1>4. /\ table' \in [Entries -> EntryRecords] /\ TableSound' /\ table'[i] = e
      /\ table[i].client = thread[t].client
      /\ \A j \in Entries : /\ table'[j].client = table[j].client /\ table'[j].seq = table[j].seq
                            /\ j /= i => table'[j] = table[j]
      /\ \A j \in Entries : table[j].client = thread[t].client => j = i
      /\ \A u \in Threads \ {t} : thread[u].pc \in Holding =>
           thread[u].entry /= i /\ thread[u].entry \in Entries /\ thread[u].client /= thread[t].client
  BY <1>w DEF Wrote
<1>5. /\ answers'[c] = [seq |-> thread[t].seq, value |-> 0]
      /\ \A d \in Clients \ {c} : answers'[d] = answers[d]
  BY <1>1, <1>2 DEF Answered, AnswerInv
<1>6. /\ ThreadType' /\ MainInv' /\ joins' \in Threads \cup {Nobody}
      /\ joins' /= Nobody => thread'[joins'].pc /= "none"
  BY <1>1, ThreadEnds DEF net
<1>7. TypeOK'
  BY <1>1, <1>4, <1>6 DEF TypeOK, net, EntryRecords
<1>8. AnswerInv' /\ FinalRepliesExact' /\ ReplyInv'
  <2>1. 0 \in Int
    OBVIOUS
  <2> QED BY <1>1, <1>2, <1>4, <2>1, AnsweredStep DEF net
<1>9. ThreadInv'
  <2>1. ASSUME NEW u \in Threads, u /= t PROVE ThreadOk(u)'
    <3>1. ThreadOk(u)
      BY DEF ThreadInv
    <3>2. CASE thread[u].pc \in Holding
      <4>1. table'[thread[u].entry] = table[thread[u].entry]
        BY <1>4, <2>1, <3>2
      <4>2. thread[u].client \in Clients => answers'[thread[u].client] = answers[thread[u].client]
        BY <1>4, <1>5, <2>1, <3>2
      <4>3. thread'[u] = thread[u] /\ thread[u].pc /= "claim" /\ UNCHANGED <<client, packet>>
        BY <1>1, <2>1, <3>2 DEF Holding
      <4> QED BY <2>1, <4>1, <4>2, <4>3, Others
    <3>3. CASE thread[u].pc \notin Holding
      <4>1. \A j \in Entries : table'[j].client = table[j].client /\ table'[j].seq = table[j].seq
        BY <1>4
      <4> QED BY <1>1, <2>1, <3>1, <3>3, <4>1 DEF ThreadOk, Holding, Busy, Reading
    <3> QED BY <3>2, <3>3
  <2>2. ThreadOk(t)'
    BY <1>1 DEF ThreadOk, NoThread, Busy, Reading, Holding
  <2>3. \A u \in Threads : thread'[u].pc \in Holding => thread'[u] = thread[u]
    BY <1>1 DEF Holding, NoThread
  <2> QED BY <2>1, <2>2, <2>3 DEF ThreadInv
<1>10. TableInv'
  <2>1. ASSUME NEW j \in Entries, NEW d \in Clients, table[j].client = d PROVE EntryOk(j, d)'
    <3>1. EntryOk(j, d)
      BY <2>1 DEF TableInv
    <3>2. CASE j = i
      <4>1. d = c /\ client[c].seq \in Nat
        BY <1>2, <2>1, <3>2 DEF TypeOK
      <4> QED BY <1>1, <1>2, <1>3, <1>4, <1>5, <3>2, <4>1 DEF EntryOk, Current
    <3>3. CASE j /= i
      <4>1. d /= c /\ table'[j] = table[j]
        BY <1>4, <2>1, <3>3
      <4>2. (\E u \in Threads : thread[u].pc = "result" /\ thread[u].entry = j)
              => \E u \in Threads : thread'[u].pc = "result" /\ thread'[u].entry = j
        BY <1>1
      <4> QED BY <1>1, <1>5, <3>1, <4>1, <4>2 DEF EntryOk, Current
    <3> QED BY <3>2, <3>3
  <2>2. \A j \in Entries : table'[j].client = Nobody => table'[j].seq = -1 /\ ~table'[j].done
    BY <1>2, <1>4 DEF TableInv
  <2> QED BY <1>4, <2>1, <2>2 DEF TableInv
<1> QED BY <1>4, <1>6, <1>7, <1>8, <1>9, <1>10

(* serve sets done, then result: main receives nothing in between.         *)
LEMMA DoneStep ==
  ASSUME IInv, NEW t \in Threads, Done(t)
  PROVE  IInv'
<1> USE Constants DEF IInv
<1> DEFINE i == thread[t].entry
           e == [table[i] EXCEPT !.done = TRUE]
           h == [thread[t] EXCEPT !.pc = "result"]
<1>1. /\ thread[t].pc = "done"
      /\ table' = [table EXCEPT ![i] = e]
      /\ UNCHANGED <<client, net, packet, joins, datastore, answers>>
      /\ thread' = [thread EXCEPT ![t] = h] /\ thread'[t] = h
      /\ \A u \in Threads \ {t} : thread'[u] = thread[u]
  BY DEF Done, Goto, ThreadType
<1>2. /\ i \in Entries /\ thread[t].client \in Clients /\ table[i].seq = thread[t].seq
      /\ answers[thread[t].client] = [seq |-> thread[t].seq, value |-> thread[t].value]
      /\ thread[t].client = packet.client /\ thread[t].seq = packet.seq
      /\ joins = t
  <2>1. ThreadOk(t)
    BY DEF ThreadInv
  <2>2. joins = t
    BY <1>1 DEF MainInv
  <2> QED BY <1>1, <2>1, <2>2 DEF ThreadOk, Holding, Busy
<1>3. e \in EntryRecords /\ e.client = table[i].client /\ e.seq = table[i].seq /\ e.done
  BY <1>2, EntryRecord
<1> HIDE DEF e
<1>w. Wrote(t, e)
  BY <1>1, <1>3, EntryWritten DEF Holding
<1>4. /\ table' \in [Entries -> EntryRecords] /\ TableSound' /\ table'[i] = e
      /\ table[i].client = thread[t].client
      /\ \A j \in Entries : /\ table'[j].client = table[j].client /\ table'[j].seq = table[j].seq
                            /\ j /= i => table'[j] = table[j]
      /\ \A j \in Entries : table[j].client = thread[t].client => j = i
      /\ \A u \in Threads \ {t} : thread[u].pc \in Holding =>
           thread[u].entry /= i /\ thread[u].entry \in Entries /\ thread[u].client /= thread[t].client
  BY <1>w DEF Wrote
<1>5. /\ h \in ThreadRecords /\ h.pc = "result" /\ h.value = thread[t].value
      /\ h.client = thread[t].client /\ h.seq = thread[t].seq /\ h.entry = i
  BY DEF ThreadType, ThreadRecords, Busy
<1> HIDE DEF h
<1>6. ThreadType' /\ MainInv'
  BY <1>1, <1>2, <1>5, ThreadMoves DEF net, Busy
<1>7. TypeOK'
  BY <1>1, <1>2, <1>4, <1>5 DEF TypeOK, net, EntryRecords
<1>8. FinalRepliesExact' /\ AnswerInv' /\ ReplyInv'
  BY <1>1, <1>4 DEF FinalRepliesExact, AnswerInv, ReplyInv, Current, net
<1>9. ThreadInv'
  <2>1. ASSUME NEW u \in Threads, u /= t PROVE ThreadOk(u)'
    <3>1. thread[u].pc \notin Busy
      BY <1>1, <2>1 DEF MainInv, Busy
    <3>2. CASE thread[u].pc = "idling"
      BY <1>1, <1>4, <2>1, <3>2, Others DEF Holding
    <3>3. CASE thread[u].pc /= "idling"
      BY <1>1, <2>1, <3>1, <3>3 DEF ThreadOk, Holding, Busy, Reading
    <3> QED BY <3>2, <3>3
  <2>2. ThreadOk(t)'
    BY <1>1, <1>2, <1>3, <1>4, <1>5 DEF ThreadOk, Busy, Reading, Holding
  <2>3. \A u \in Threads : thread'[u].pc \in Holding => thread[u].pc \in Holding /\ thread'[u].client = thread[u].client
    BY <1>1, <1>5 DEF Holding
  <2> QED BY <2>1, <2>2, <2>3 DEF ThreadInv
<1>10. TableInv'
  <2>1. ASSUME NEW j \in Entries, NEW d \in Clients, table[j].client = d PROVE EntryOk(j, d)'
    <3>1. EntryOk(j, d)
      BY <2>1 DEF TableInv
    <3>2. CASE j = i
      <4>1. answers[d].seq = table[i].seq
        BY <1>2, <1>4, <2>1, <3>2
      <4> QED BY <1>1, <1>3, <1>4, <1>5, <3>1, <3>2, <4>1 DEF EntryOk, Current
    <3>3. CASE j /= i
      <4>1. table'[j] = table[j]
        BY <1>4, <3>3
      <4>2. (\E u \in Threads : thread[u].pc = "result" /\ thread[u].entry = j)
              => \E u \in Threads : thread'[u].pc = "result" /\ thread'[u].entry = j
        BY <1>1
      <4> QED BY <1>1, <3>1, <4>1, <4>2 DEF EntryOk, Current
    <3> QED BY <3>2, <3>3
  <2>2. \A j \in Entries : table'[j].client = Nobody => table'[j].seq = -1 /\ ~table'[j].done
    BY <1>2, <1>4 DEF TableInv
  <2> QED BY <1>4, <2>1, <2>2 DEF TableInv
<1> QED BY <1>4, <1>6, <1>7, <1>8, <1>9, <1>10

LEMMA ResultStep ==
  ASSUME IInv, NEW t \in Threads, Result(t)
  PROVE  IInv'
<1> USE Constants DEF IInv
<1> DEFINE i == thread[t].entry
           e == [table[i] EXCEPT !.result = thread[t].value]
<1>1. /\ thread[t].pc = "result"
      /\ table' = [table EXCEPT ![i] = e]
      /\ Ends(t)
      /\ UNCHANGED <<client, net, packet, datastore, answers>>
      /\ thread'[t] = NoThread /\ \A u \in Threads \ {t} : thread'[u] = thread[u]
  BY DEF Result, Ends, ThreadType
<1>2. /\ i \in Entries /\ thread[t].client \in Clients
      /\ answers[thread[t].client] = [seq |-> thread[t].seq, value |-> thread[t].value]
  <2>1. ThreadOk(t)
    BY DEF ThreadInv
  <2> QED BY <1>1, <2>1 DEF ThreadOk, Holding
<1>3. /\ e \in EntryRecords
      /\ e.client = table[i].client /\ e.seq = table[i].seq
      /\ e.done <=> table[i].done
      /\ e.result = thread[t].value
  <2>1. thread[t].value \in Int
    BY DEF ThreadType, ThreadRecords
  <2>2. table[i] \in EntryRecords
    BY <1>2, EntryRecord
  <2> QED BY <2>1, <2>2 DEF EntryRecords
<1> HIDE DEF e
<1>w. Wrote(t, e)
  BY <1>1, <1>3, EntryWritten DEF Holding
<1>4. /\ table' \in [Entries -> EntryRecords] /\ TableSound' /\ table'[i] = e
      /\ table[i].client = thread[t].client
      /\ \A j \in Entries : /\ table'[j].client = table[j].client /\ table'[j].seq = table[j].seq
                            /\ j /= i => table'[j] = table[j]
      /\ \A j \in Entries : table[j].client = thread[t].client => j = i
      /\ \A u \in Threads \ {t} : thread[u].pc \in Holding =>
           thread[u].entry /= i /\ thread[u].entry \in Entries /\ thread[u].client /= thread[t].client
  BY <1>w DEF Wrote
<1>6. /\ ThreadType' /\ MainInv' /\ joins' \in Threads \cup {Nobody}
      /\ joins' /= Nobody => thread'[joins'].pc /= "none"
  BY <1>1, ThreadEnds DEF net, Busy
<1>7. TypeOK'
  BY <1>1, <1>4, <1>6 DEF TypeOK, net, EntryRecords
<1>8. FinalRepliesExact' /\ AnswerInv' /\ ReplyInv'
  BY <1>1, <1>4 DEF FinalRepliesExact, AnswerInv, ReplyInv, Current, net
<1>9. ThreadInv'
  <2>1. ASSUME NEW u \in Threads, u /= t PROVE ThreadOk(u)'
    <3>1. thread[u].pc \notin Busy
      BY <1>1, <2>1 DEF MainInv, Busy
    <3>2. CASE thread[u].pc = "idling"
      BY <1>1, <1>4, <2>1, <3>2, Others DEF Holding
    <3>3. CASE thread[u].pc /= "idling"
      BY <1>1, <2>1, <3>1, <3>3 DEF ThreadOk, Holding, Busy, Reading
    <3> QED BY <3>2, <3>3
  <2>2. ThreadOk(t)'
    BY <1>1 DEF ThreadOk, NoThread, Busy, Reading, Holding
  <2>3. \A u \in Threads : thread'[u].pc \in Holding => thread'[u] = thread[u]
    BY <1>1 DEF Holding, NoThread
  <2> QED BY <2>1, <2>2, <2>3 DEF ThreadInv
<1>10. TableInv'
  <2>1. ASSUME NEW j \in Entries, NEW d \in Clients, table[j].client = d PROVE EntryOk(j, d)'
    <3>1. EntryOk(j, d)
      BY <2>1 DEF TableInv
    <3>2. CASE j = i
      <4>1. e.result = answers[d].value
        BY <1>2, <1>3, <1>4, <2>1, <3>2
      <4> QED BY <1>1, <1>3, <1>4, <3>1, <3>2, <4>1 DEF EntryOk, Current
    <3>3. CASE j /= i
      <4>1. table'[j] = table[j]
        BY <1>4, <3>3
      <4>2. (\E u \in Threads : thread[u].pc = "result" /\ thread[u].entry = j)
              => \E u \in Threads : thread'[u].pc = "result" /\ thread'[u].entry = j
        BY <1>1, <3>3
      <4> QED BY <1>1, <3>1, <4>1, <4>2 DEF EntryOk, Current
    <3> QED BY <3>2, <3>3
  <2>2. \A j \in Entries : table'[j].client = Nobody => table'[j].seq = -1 /\ ~table'[j].done
    BY <1>2, <1>3, <1>4 DEF TableInv
  <2> QED BY <1>4, <2>1, <2>2 DEF TableInv
<1> QED BY <1>4, <1>6, <1>7, <1>8, <1>9, <1>10

-----------------------------------------------------------------------------
(* At the start nothing has been sent, and the table is empty.             *)
LEMMA InitIInv == Init /\ ~SlowThreads => IInv
<1> SUFFICES ASSUME Init, ~SlowThreads PROVE IInv
  OBVIOUS
<1> USE Constants DEF Init
<1>0. NoThread \in ThreadRecords /\ NoThread.pc = "none"
  BY ConstantAssumptions DEF NoThread, ThreadRecords
<1>1. TypeOK
  BY DEF TypeOK
<1>2. ThreadType /\ TableSound /\ FinalRepliesExact /\ ReplyInv
  BY <1>0 DEF ThreadType, TableSound, OneEntryPerClient, NeverOld, FinalRepliesExact, ReplyInv
<1>3. MainInv
  BY <1>0 DEF MainInv, Busy, Reading
<1>4. ThreadInv
  BY <1>0 DEF ThreadInv, ThreadOk, Busy, Reading, Holding
<1>5. TableInv
  BY DEF TableInv
<1>6. AnswerInv
  BY DEF AnswerInv, Current
<1> QED BY <1>1, <1>2, <1>3, <1>4, <1>5, <1>6 DEF IInv

LEMMA StutterIInv == IInv /\ UNCHANGED vars => IInv'
<1> SUFFICES ASSUME IInv, UNCHANGED vars PROVE IInv'
  OBVIOUS
<1>1. \A c \in Clients : client'[c].seq = client[c].seq
  BY DEF vars
<1>2. client' \in [Clients -> [pc : {"ready", "receive", "dead"}, call : AllCalls \cup {NoCall},
                              seq : Nat, retry : 0 .. RETRY_COUNT, returned : Int]]
  BY DEF vars, IInv, TypeOK
<1> QED BY <1>1, <1>2, SameCall DEF vars, server

\* The parts of IInv together survive every step of the clients, of the
\* server's main thread and of its other threads, whatever datagrams arrive late.
THEOREM Inductive == IInv /\ [Next]_vars => IInv'
<1> SUFFICES ASSUME IInv, [Next]_vars PROVE IInv'
  OBVIOUS
<1>1. CASE UNCHANGED vars
  BY <1>1, StutterIInv
<1>2. ASSUME NEW c \in Clients,
             \/ \E r \in Calls[c] : Call(c, r)
             \/ Timeout(c) \/ OtherReply(c) \/ Ack(c) \/ Return(c)
      PROVE  IInv'
  BY <1>2, ClientStep
<1>3. CASE Receive
  BY <1>3, ReceiveStep
<1>4. ASSUME NEW t \in Threads, Serve(t)
      PROVE  IInv'
  BY <1>4, ParseStep, SearchStep, ClaimStep, IgnoreStep, ResendReplyStep, BeginStep,
     IdleStartStep, IdleDoneStep, ExecuteStep, DoneStep, ResultStep DEF Serve
<1> QED BY <1>1, <1>2, <1>3, <1>4 DEF Next

\* A server whose threads read their packet in time has at most one entry per
\* client, never takes the request a client waits on for an old one, and sends
\* as final only what an execution of that request returned (server.c:33-99).
THEOREM ServerCorrect == Spec /\ ~SlowThreads => []ServerSound
<1>1. IInv => ServerSound
  BY DEF IInv, ServerSound
<1>2. Spec /\ ~SlowThreads => []IInv
  BY InitIInv, Inductive, PTL DEF Spec
<1> QED BY <1>1, <1>2, PTL

-----------------------------------------------------------------------------
(***************************************************************************)
(* The refinement.  A call takes effect when its answer enters the history.*)
(***************************************************************************)
(* The abstract call of a client.                                          *)
Abs(c) ==
  LET done == client[c].call /= NoCall /\ answers[c].seq = client[c].seq IN
  [request |-> client[c].call, done |-> done,
   answer |-> IF done THEN answers[c].value ELSE 0,
   returned |-> client[c].returned, alive |-> client[c].pc /= "dead"]

AbsCall == [c \in Clients |-> Abs(c)]

LEMMA InitRefines == Init => Remote!Init
<1> SUFFICES ASSUME Init PROVE Remote!Init
  OBVIOUS
<1>1. ASSUME NEW c \in Clients
      PROVE  Abs(c) = [request |-> NoCall, done |-> FALSE, answer |-> 0, returned |-> 0, alive |-> TRUE]
  <2>1. /\ client[c].call = NoCall /\ client[c].returned = 0 /\ (client[c].pc /= "dead") = TRUE
        /\ (client[c].call /= NoCall /\ answers[c].seq = client[c].seq) = FALSE
    BY DEF Init
  <2> QED BY <2>1 DEF Abs
<1>2. AbsCall = [c \in Clients |->
         [request |-> NoCall, done |-> FALSE, answer |-> 0, returned |-> 0, alive |-> TRUE]]
  BY <1>1 DEF AbsCall
<1>3. datastore = [k \in Keys |-> 0]
  BY DEF Init
<1> QED BY <1>2, <1>3 DEF Remote!Init, AbsCall, Abs

(* Steps that only resend, give up or work on the table.                   *)
LEMMA StutterRefines ==
  ASSUME UNCHANGED datastore,
         \A c \in Clients : /\ client'[c].call = client[c].call /\ client'[c].seq = client[c].seq
                            /\ client'[c].returned = client[c].returned
                            /\ client'[c].pc = "dead" <=> client[c].pc = "dead"
                            /\ answers'[c] = answers[c]
  PROVE  UNCHANGED Remote!vars
<1>1. \A c \in Clients : Abs(c)' = Abs(c)
  BY Zenon DEF Abs
<1>2. AbsCall' = AbsCall
  BY <1>1, Zenon DEF AbsCall
<1> QED BY <1>2 DEF Remote!vars, AbsCall, Abs

(* The fields of an abstract call, before and after a step.                *)
LEMMA AbsFields ==
  ASSUME NEW c \in Clients
  PROVE  /\ Abs(c).request = client[c].call /\ Abs(c).returned = client[c].returned
         /\ Abs(c).alive = (client[c].pc /= "dead")
         /\ Abs(c).done = (client[c].call /= NoCall /\ answers[c].seq = client[c].seq)
         /\ Abs(c).answer = IF client[c].call /= NoCall /\ answers[c].seq = client[c].seq
                            THEN answers[c].value ELSE 0
         /\ Abs(c)'.request = client'[c].call /\ Abs(c)'.returned = client'[c].returned
         /\ Abs(c)'.alive = (client'[c].pc /= "dead")
         /\ Abs(c)'.done = (client'[c].call /= NoCall /\ answers'[c].seq = client'[c].seq)
         /\ Abs(c)'.answer = IF client'[c].call /= NoCall /\ answers'[c].seq = client'[c].seq
                             THEN answers'[c].value ELSE 0
BY Zenon DEF Abs

(* The other clients' calls stay as they are.                              *)
LEMMA AbsOthers ==
  ASSUME NEW c \in Clients,
         \A d \in Clients \ {c} : client'[d] = client[d] /\ answers'[d] = answers[d]
  PROVE  AbsCall' = [AbsCall EXCEPT ![c] = Abs(c)']
<1>1. \A d \in Clients \ {c} : Abs(d)' = Abs(d)
  BY Zenon DEF Abs
<1>2. AbsCall' = [d \in Clients |-> IF d = c THEN Abs(c)' ELSE AbsCall[d]]
  <2>1. \A d \in Clients : AbsCall[d] = Abs(d)
    BY DEF AbsCall
  <2>2. \A d \in Clients : Abs(d)' = IF d = c THEN Abs(c)' ELSE AbsCall[d]
    BY <1>1, <2>1, Zenon
  <2>3. AbsCall' = [d \in Clients |-> Abs(d)']
    BY Zenon DEF AbsCall
  <2> QED BY <2>2, <2>3, Zenon
<1>3. [AbsCall EXCEPT ![c] = Abs(c)'] = [d \in Clients |-> IF d = c THEN Abs(c)' ELSE AbsCall[d]]
  <2> DEFINE a == Abs(c)'
  <2> HIDE DEF a
  <2>1. [AbsCall EXCEPT ![c] = a] = [d \in Clients |-> IF d = c THEN a ELSE AbsCall[d]]
    BY DEF AbsCall
  <2> QED BY <2>1 DEF a
<1> QED BY <1>2, <1>3

(* The abstract actions change one field, or two, of a record.             *)
Rec(q, d, a, v, l) == [request |-> q, done |-> d, answer |-> a, returned |-> v, alive |-> l]

LEMMA AbsRec ==
  ASSUME NEW c \in Clients
  PROVE  /\ Abs(c) = Rec(Abs(c).request, Abs(c).done, Abs(c).answer, Abs(c).returned, Abs(c).alive)
         /\ Abs(c)' = Rec(Abs(c)'.request, Abs(c)'.done, Abs(c)'.answer, Abs(c)'.returned, Abs(c)'.alive)
         /\ AbsCall[c] = Abs(c) /\ AbsCall = [d \in Clients |-> AbsCall[d]]
<1>1. Abs(c) = Rec(Abs(c).request, Abs(c).done, Abs(c).answer, Abs(c).returned, Abs(c).alive)
  BY Zenon DEF Abs, Rec
<1>2. Abs(c)' = Rec(Abs(c)'.request, Abs(c)'.done, Abs(c)'.answer, Abs(c)'.returned, Abs(c)'.alive)
  BY Zenon DEF Abs, Rec
<1> QED BY <1>1, <1>2 DEF AbsCall

LEMMA AbsUpdates ==
  ASSUME NEW c \in Clients, NEW x, NEW y
  PROVE  /\ [AbsCall EXCEPT ![c].request = x] =
              [AbsCall EXCEPT ![c] = Rec(x, Abs(c).done, Abs(c).answer, Abs(c).returned, Abs(c).alive)]
         /\ [AbsCall EXCEPT ![c].alive = x] =
              [AbsCall EXCEPT ![c] = Rec(Abs(c).request, Abs(c).done, Abs(c).answer, Abs(c).returned, x)]
         /\ [AbsCall EXCEPT ![c].done = x, ![c].answer = y] =
              [AbsCall EXCEPT ![c] = Rec(Abs(c).request, x, y, Abs(c).returned, Abs(c).alive)]
<1>0. \E q, d, a, v, l :
        /\ AbsCall[c] = Rec(q, d, a, v, l)
        /\ Abs(c).request = q /\ Abs(c).done = d /\ Abs(c).answer = a
        /\ Abs(c).returned = v /\ Abs(c).alive = l
  BY AbsRec, Zenon
<1>1. PICK q, d, a, v, l :
        /\ AbsCall[c] = Rec(q, d, a, v, l)
        /\ Abs(c).request = q /\ Abs(c).done = d /\ Abs(c).answer = a
        /\ Abs(c).returned = v /\ Abs(c).alive = l
  BY <1>0, Zenon
<1>f. AbsCall = [e \in Clients |-> AbsCall[e]]
  BY AbsRec, Zenon
<1>2. [AbsCall EXCEPT ![c].request = x] = [AbsCall EXCEPT ![c] = [AbsCall[c] EXCEPT !.request = x]]
  BY <1>f
<1>3. [AbsCall EXCEPT ![c].alive = x] = [AbsCall EXCEPT ![c] = [AbsCall[c] EXCEPT !.alive = x]]
  BY <1>f
<1>4. [AbsCall EXCEPT ![c].done = x, ![c].answer = y] =
        [AbsCall EXCEPT ![c] = [AbsCall[c] EXCEPT !.done = x, !.answer = y]]
  BY <1>f
<1>5. [Rec(q, d, a, v, l) EXCEPT !.request = x] = Rec(x, d, a, v, l)
  BY DEF Rec
<1>6. [Rec(q, d, a, v, l) EXCEPT !.alive = x] = Rec(q, d, a, v, x)
  BY DEF Rec
<1>7. [Rec(q, d, a, v, l) EXCEPT !.done = x, !.answer = y] = Rec(q, x, y, v, l)
  <2> DEFINE R == Rec(q, d, a, v, l)
             S == Rec(q, x, y, v, l)
  <2>1. DOMAIN R = {"request", "done", "answer", "returned", "alive"} /\ DOMAIN S = DOMAIN R
    BY DEF Rec
  <2>2. R = [k \in DOMAIN R |-> R[k]] /\ S = [k \in DOMAIN R |-> S[k]]
    BY DEF Rec
  <2>3. [R EXCEPT !.done = x, !.answer = y] =
          [k \in DOMAIN R |-> IF k = "done" THEN x ELSE IF k = "answer" THEN y ELSE R[k]]
    BY <2>1
  <2>4. [R EXCEPT !.done = x, !.answer = y] = S
    BY <2>1, <2>2, <2>3 DEF Rec
  <2> QED BY <2>4
<1> QED BY <1>1, <1>2, <1>3, <1>4, <1>5, <1>6, <1>7, Zenon

(* Call(c, r) is an invocation.                                            *)
LEMMA CallRefines ==
  ASSUME IInv, NEW c \in Clients, NEW r \in Calls[c], Call(c, r)
  PROVE  Remote!Next
<1> USE Constants DEF IInv
<1>1. /\ client[c].pc = "ready" /\ client[c].call = NoCall
      /\ client' = [client EXCEPT ![c].pc = "receive", ![c].call = r, ![c].retry = 1]
      /\ UNCHANGED <<datastore, answers>>
  BY DEF Call, SendOrDie, TypeOK, server
<1>2. /\ \A d \in Clients \ {c} : client'[d] = client[d]
      /\ client'[c].call = r /\ client'[c].seq = client[c].seq /\ client'[c].returned = client[c].returned
      /\ client'[c].pc /= "dead" /\ client[c].pc /= "dead"
  BY <1>1 DEF TypeOK
<1>3. answers[c].seq /= client[c].seq
  BY <1>1 DEF AnswerInv, Current
<1>f. /\ Abs(c).request = client[c].call /\ Abs(c).returned = client[c].returned
      /\ Abs(c)'.request = client'[c].call /\ Abs(c)'.returned = client'[c].returned
  BY AbsFields
<1>g. /\ Abs(c).request = NoCall /\ Abs(c)'.request = r /\ Abs(c)'.returned = Abs(c).returned
  BY <1>1, <1>2, <1>f
<1>h. Abs(c).alive /\ Abs(c)'.alive = Abs(c).alive
  BY <1>2, AbsFields, Zenon
<1>i. Abs(c)'.done = Abs(c).done /\ Abs(c)'.answer = Abs(c).answer
  <2>1. Abs(c).done = FALSE /\ Abs(c).answer = 0
    BY <1>1, AbsFields, Zenon
  <2>2. Abs(c)'.done = FALSE /\ Abs(c)'.answer = 0
    BY <1>1, <1>2, <1>3, AbsFields, Zenon
  <2> QED BY <2>1, <2>2, Zenon
<1>4. /\ Abs(c).request = NoCall /\ Abs(c).alive
      /\ Abs(c)'.request = r /\ Abs(c)'.done = Abs(c).done /\ Abs(c)'.answer = Abs(c).answer
      /\ Abs(c)'.returned = Abs(c).returned /\ Abs(c)'.alive = Abs(c).alive
  BY <1>g, <1>h, <1>i, Zenon
<1>5. AbsCall' = [AbsCall EXCEPT ![c] = Abs(c)']
  BY <1>1, <1>2, AbsOthers
<1>6. Abs(c)' = Rec(r, Abs(c).done, Abs(c).answer, Abs(c).returned, Abs(c).alive)
  BY <1>4, AbsRec, Zenon
<1>7. [AbsCall EXCEPT ![c].request = r] =
        [AbsCall EXCEPT ![c] = Rec(r, Abs(c).done, Abs(c).answer, Abs(c).returned, Abs(c).alive)]
  BY AbsUpdates
<1>8. AbsCall' = [AbsCall EXCEPT ![c].request = r] /\ AbsCall[c].request = NoCall /\ AbsCall[c].alive
  BY <1>4, <1>5, <1>6, <1>7, AbsRec, Zenon
<1>9. Remote!Invoke(c, r)
  BY <1>1, <1>8 DEF Remote!Invoke, AbsCall, Abs
<1> QED BY <1>9 DEF Remote!Next

(* An execution enters its answer into the history of its client.          *)
LEMMA EffectRefines ==
  ASSUME IInv, NEW c \in Clients, NEW v \in Int,
         UNCHANGED client, client[c].call /= NoCall, answers[c].seq /= client[c].seq,
         answers'[c].seq = client[c].seq, answers'[c].value = v,
         \A d \in Clients \ {c} : answers'[d] = answers[d],
         v = Answer(client[c].call, datastore), datastore' = Effect(client[c].call, datastore)
  PROVE  Remote!Next
<1>1. /\ Abs(c).request = client[c].call /\ ~Abs(c).done
      /\ Abs(c)'.request = Abs(c).request /\ Abs(c)'.returned = Abs(c).returned
      /\ Abs(c)'.alive = Abs(c).alive
      /\ Abs(c)'.answer = v
  BY AbsFields, Zenon
<1>2. Abs(c)'.done = TRUE
  BY AbsFields, Zenon
<1>3. AbsCall' = [AbsCall EXCEPT ![c] = Abs(c)']
  BY AbsOthers
<1>4. Abs(c)' = Rec(Abs(c).request, TRUE, v, Abs(c).returned, Abs(c).alive)
  BY <1>1, <1>2, AbsRec, Zenon
<1>5. [AbsCall EXCEPT ![c].done = TRUE, ![c].answer = v] =
        [AbsCall EXCEPT ![c] = Rec(Abs(c).request, TRUE, v, Abs(c).returned, Abs(c).alive)]
  BY AbsUpdates, Zenon
<1>6. /\ AbsCall' = [AbsCall EXCEPT ![c].done = TRUE, ![c].answer = v]
      /\ AbsCall[c].request = client[c].call /\ ~AbsCall[c].done
  BY <1>1, <1>3, <1>4, <1>5, AbsRec, Zenon
<1>7. Remote!Execute(c)
  BY <1>6 DEF Remote!Execute, AbsCall, Abs
<1> QED BY <1>7 DEF Remote!Next

(* get and put take effect in one step; idle has no effect, when it ends.  *)
LEMMA ExecuteRefines ==
  ASSUME IInv, NEW t \in Threads, Execute(t)
  PROVE  Remote!Next
<1> DEFINE c == packet.client
           v == Answer(packet.call, datastore)
<1>1. /\ thread[t].pc = "execute"
      /\ datastore' = Effect(packet.call, datastore)
      /\ answers' = [answers EXCEPT ![c] = [seq |-> packet.seq, value |-> v]]
      /\ UNCHANGED client
  BY DEF Execute, Answered
<1>2. /\ c \in Clients /\ packet.seq = client[c].seq /\ packet.seq \in Int
      /\ answers[c].seq < client[c].seq /\ client[c].call /= NoCall
      /\ packet.call \in Calls[c] /\ client[c].call = packet.call
  BY <1>1, Executes DEF Current
<1>3. v \in Int
  BY <1>2, Outcome DEF IInv, TypeOK
<1> HIDE DEF v
<1>4. /\ answers'[c].seq = client[c].seq /\ answers'[c].value = v
      /\ \A d \in Clients \ {c} : answers'[d] = answers[d]
      /\ answers[c].seq /= client[c].seq
  BY <1>1, <1>2 DEF IInv, AnswerInv
<1>5. v = Answer(client[c].call, datastore) /\ datastore' = Effect(client[c].call, datastore)
  BY <1>1, <1>2 DEF v
<1> QED BY <1>1, <1>2, <1>3, <1>4, <1>5, EffectRefines

LEMMA IdleDoneRefines ==
  ASSUME IInv, NEW t \in Threads, IdleDone(t)
  PROVE  Remote!Next
<1> DEFINE c == thread[t].client
<1>1. /\ thread[t].pc = "idling"
      /\ answers' = [answers EXCEPT ![c] = [seq |-> thread[t].seq, value |-> 0]]
      /\ UNCHANGED <<client, datastore>>
  BY DEF IdleDone, Answered
<1>2. /\ c \in Clients /\ thread[t].seq = client[c].seq /\ thread[t].seq \in Int
      /\ answers[c].seq < client[c].seq /\ client[c].call /= NoCall
      /\ client[c].call.op = "idle"
  BY <1>1, Executes DEF Current
<1>3. /\ answers'[c].seq = client[c].seq /\ answers'[c].value = 0
      /\ \A d \in Clients \ {c} : answers'[d] = answers[d]
      /\ answers[c].seq /= client[c].seq
  BY <1>1, <1>2 DEF IInv, AnswerInv
<1>4. 0 \in Int /\ 0 = Answer(client[c].call, datastore) /\ datastore' = Effect(client[c].call, datastore)
  BY <1>1, <1>2 DEF Answer, Effect
<1> QED BY <1>1, <1>2, <1>3, <1>4, EffectRefines

(* A final reply is the abstract call's answer.                            *)
LEMMA ReturnRefines ==
  ASSUME IInv, NEW c \in Clients, Return(c)
  PROVE  Remote!Next
<1>1. PICK m \in replies :
        /\ client[c].pc = "receive" /\ m.to = c /\ ForMe(c, m) /\ ~m.ack
        /\ client' = [client EXCEPT ![c] =
             [pc |-> "ready", call |-> NoCall, seq |-> client[c].seq + 1, retry |-> 0,
              returned |-> IF client[c].call.op = "idle" THEN 0 ELSE m.value]]
        /\ UNCHANGED <<datastore, answers>>
  BY DEF Return, Receives, server
<1> DEFINE v == IF client[c].call.op = "idle" THEN 0 ELSE m.value
<1>2. answers[c].seq = client[c].seq /\ client[c].call /= NoCall /\ answers[c].value = v
  BY <1>1, FinalReply
<1>3. /\ \A d \in Clients \ {c} : client'[d] = client[d]
      /\ client'[c].call = NoCall /\ client'[c].returned = v
      /\ client'[c].pc /= "dead" /\ client[c].pc /= "dead"
  BY <1>1 DEF IInv, TypeOK
<1> HIDE DEF v
<1>4. /\ Abs(c).done /\ Abs(c).alive /\ Abs(c).answer = v
      /\ Abs(c)'.request = NoCall /\ Abs(c)'.answer = 0 /\ Abs(c)'.returned = v
  BY <1>2, <1>3, AbsFields, Zenon
<1>5. Abs(c)'.done = FALSE /\ Abs(c)'.alive = TRUE
  BY <1>3, AbsFields, Zenon
<1>6. AbsCall' = [AbsCall EXCEPT ![c] = Abs(c)']
  BY <1>1, <1>3, AbsOthers
<1>7. Abs(c)' = Rec(NoCall, FALSE, 0, AbsCall[c].answer, TRUE)
  BY <1>4, <1>5, AbsRec, Zenon
<1>8. [AbsCall EXCEPT ![c] =
        [request |-> NoCall, done |-> FALSE, answer |-> 0, returned |-> @.answer, alive |-> TRUE]] =
        [AbsCall EXCEPT ![c] = Rec(NoCall, FALSE, 0, AbsCall[c].answer, TRUE)]
  BY Zenon DEF Rec
<1>9. /\ AbsCall' = [AbsCall EXCEPT ![c] =
           [request |-> NoCall, done |-> FALSE, answer |-> 0, returned |-> @.answer, alive |-> TRUE]]
      /\ AbsCall[c].done /\ AbsCall[c].alive
  BY <1>4, <1>6, <1>7, <1>8, AbsRec, Zenon
<1>10. Remote!Return(c)
  BY <1>1, <1>9 DEF Remote!Return, AbsCall, Abs
<1> QED BY <1>10 DEF Remote!Next

(* A client that sends its request again, or gives up.                     *)
LEMMA ResendRefines ==
  ASSUME IInv, NEW c \in Clients, client[c].pc = "receive",
         NEW k \in 0 .. RETRY_COUNT, NEW msgs,
         SendOrDie(c, client[c].call, k, msgs), UNCHANGED server
  PROVE  [Remote!Next]_(Remote!vars)
<1>0. client[c].call /= NoCall /\ UNCHANGED <<datastore, answers>>
  BY DEF IInv, TypeOK, server
<1>1. CASE k = RETRY_COUNT
  <2>1. /\ \A d \in Clients \ {c} : client'[d] = client[d]
        /\ client'[c].call = client[c].call /\ client'[c].seq = client[c].seq
        /\ client'[c].returned = client[c].returned /\ client'[c].pc = "dead"
    BY <1>1 DEF SendOrDie, IInv, TypeOK
  <2>2. /\ Abs(c).request /= NoCall /\ Abs(c).alive
        /\ Abs(c)'.request = Abs(c).request /\ Abs(c)'.done = Abs(c).done
        /\ Abs(c)'.answer = Abs(c).answer /\ Abs(c)'.returned = Abs(c).returned
    BY <1>0, <2>1, AbsFields, Zenon
  <2>3. Abs(c)'.alive = FALSE
    BY <2>1, AbsFields, Zenon
  <2>4. AbsCall' = [AbsCall EXCEPT ![c] = Abs(c)']
    BY <1>0, <2>1, AbsOthers
  <2>5. Abs(c)' = Rec(Abs(c).request, Abs(c).done, Abs(c).answer, Abs(c).returned, FALSE)
    BY <2>2, <2>3, AbsRec, Zenon
  <2>6. [AbsCall EXCEPT ![c].alive = FALSE] =
          [AbsCall EXCEPT ![c] = Rec(Abs(c).request, Abs(c).done, Abs(c).answer, Abs(c).returned, FALSE)]
    BY AbsUpdates, Zenon
  <2>7. AbsCall' = [AbsCall EXCEPT ![c].alive = FALSE] /\ AbsCall[c].request /= NoCall /\ AbsCall[c].alive
    BY <2>2, <2>4, <2>5, <2>6, AbsRec, Zenon
  <2>8. Remote!GiveUp(c)
    BY <1>0, <2>7 DEF Remote!GiveUp, AbsCall, Abs
  <2> QED BY <2>8 DEF Remote!Next
<1>2. CASE k /= RETRY_COUNT
  <2>1. /\ \A d \in Clients \ {c} : client'[d] = client[d]
        /\ client'[c].call = client[c].call /\ client'[c].seq = client[c].seq
        /\ client'[c].returned = client[c].returned /\ client'[c].pc = "receive"
    BY <1>2 DEF SendOrDie, IInv, TypeOK
  <2>2. UNCHANGED Remote!vars
    BY <1>0, <2>1, StutterRefines
  <2> QED BY <2>2
<1> QED BY <1>1, <1>2

(* What the server does besides executing requests is invisible.           *)
LEMMA ServerStutters ==
  ASSUME UNCHANGED <<client, datastore, answers>>
  PROVE  UNCHANGED Remote!vars
BY StutterRefines

LEMMA ClientRefines ==
  ASSUME IInv, NEW c \in Clients,
         \/ \E r \in Calls[c] : Call(c, r)
         \/ Timeout(c) \/ OtherReply(c) \/ Ack(c) \/ Return(c)
  PROVE  [Remote!Next]_(Remote!vars)
<1>1. client[c].retry \in 0 .. RETRY_COUNT /\ 0 \in 0 .. RETRY_COUNT
  BY Constants DEF IInv, TypeOK
<1>2. CASE Timeout(c)
  BY <1>1, <1>2, ResendRefines DEF Timeout
<1>3. CASE OtherReply(c)
  BY <1>1, <1>3, ResendRefines DEF OtherReply, Receives
<1>4. CASE Ack(c)
  BY <1>1, <1>4, ResendRefines DEF Ack, Receives
<1>5. CASE Return(c)
  BY <1>5, ReturnRefines
<1>6. CASE \E r \in Calls[c] : Call(c, r)
  BY <1>6, CallRefines
<1> QED BY <1>2, <1>3, <1>4, <1>5, <1>6

LEMMA ServeRefines ==
  ASSUME IInv, NEW t \in Threads, Serve(t)
  PROVE  [Remote!Next]_(Remote!vars)
<1>1. CASE Execute(t)
  BY <1>1, ExecuteRefines
<1>2. CASE IdleDone(t)
  BY <1>2, IdleDoneRefines
<1>3. CASE ~Execute(t) /\ ~IdleDone(t)
  <2>1. UNCHANGED <<client, datastore, answers>>
    BY <1>3 DEF Serve, Parse, Search, Claim, Ignore, Resend, Begin, IdleStart, Done, Result
  <2> QED BY <2>1, ServerStutters
<1> QED BY <1>1, <1>2, <1>3

LEMMA StepRefines == IInv /\ [Next]_vars => [Remote!Next]_(Remote!vars)
<1> SUFFICES ASSUME IInv, [Next]_vars PROVE [Remote!Next]_(Remote!vars)
  OBVIOUS
<1>1. CASE UNCHANGED vars
  BY <1>1, ServerStutters DEF vars
<1>2. CASE Receive
  BY <1>2, ServerStutters DEF Receive
<1> QED BY <1>1, <1>2, ClientRefines, ServeRefines DEF Next

\* Each call of the client library takes effect at most once, at one moment
\* between its start and its return, and returns what it found there, whatever
\* the network loses or delays and however often requests are sent again
\* (client.c:38-67, server.c:33-99); no two executions of a call, no answer of
\* another.
THEOREM Refinement == Spec /\ ~SlowThreads => ImplementsRemoteCall
<1>1. Spec /\ ~SlowThreads => []IInv
  BY InitIInv, Inductive, PTL DEF Spec
<1> QED BY <1>1, InitRefines, StepRefines, PTL DEF Spec, ImplementsRemoteCall, Remote!Spec
=============================================================================
