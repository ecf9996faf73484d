------------------------- MODULE MessageFlowProofs --------------------------
(***************************************************************************)
(* The theorems about MessageFlow.  The steps that send a message are here *)
(* (MessageFlowLemmas has the others): the gas of the running message pays *)
(* for the nodes of the new message and of its reply one after the other,  *)
(* and Grown says what the gas is after each.  That no task is left behind *)
(* follows from the invariant and from the order of the parts of a block.  *)
(***************************************************************************)
EXTENDS MessageFlowLemmas

USE ZenonT(5), SMTT(90)

(* New messages. *)

\* Nothing is known of a message that was not sent yet, nor of the reply to it.
Unheard(i) ==
  /\ i \in Ids /\ i \notin Stored /\ i \notin DOMAIN gas.purse /\ i \notin gas.deposits
  /\ i \notin DOMAIN waitlist /\ i \notin DOMAIN mailbox /\ i \notin DOMAIN stash /\ i \notin queue
  /\ i # running
  /\ \A j \in DOMAIN gas.purse : gas.purse[j] # i
  /\ \A t \in pool : t.id # i
  /\ \A l \in LockIds : gas.lock[i][l] = 0

\* Nothing refers to a message before it is sent, nor to its reply.
LEMMA Fresh ==
  ASSUME IInv, NEW m \in Messages \ DOMAIN source, NEW id, id = <<m, "msg">>
  PROVE  /\ Unheard(id) /\ Unheard(Reply(id))
         /\ ~IsReply(id) /\ IsReply(Reply(id)) /\ Msg(id) = id /\ Msg(Reply(id)) = id
         /\ id # Reply(id) /\ id[1] = m /\ Reply(id)[1] = m
<1> USE DEF IInv
<1>1. id \in Ids /\ id[1] = m /\ ~IsReply(id)  BY DEF Ids, IsReply
<1>2. /\ Reply(id) \in Ids /\ Reply(id)[1] = m /\ IsReply(Reply(id)) /\ Msg(id) = id
      /\ Msg(Reply(id)) = id /\ id # Reply(id)
  BY SMTT(90), <1>1, IdFacts
<1>3. ASSUME NEW i \in Ids, i[1] = m PROVE Unheard(i)
  <2>1. i # None  BY IdFacts
  <2>2. i \notin Stored /\ i \notin DOMAIN gas.purse  BY <1>3 DEF Known
  <2>3. \A j \in DOMAIN gas.purse : gas.purse[j] # i  BY <1>3 DEF Known
  <2>4. \A t \in pool : t.id # i  BY <1>3 DEF Known
  <2>5. i \notin gas.deposits  BY <2>2 DEF ReplyNodes
  <2>6. /\ i \notin DOMAIN waitlist /\ i \notin DOMAIN mailbox /\ i \notin DOMAIN stash
        /\ i \notin queue /\ i # running
    BY <2>1, <2>2 DEF Stored
  <2>7. \A l \in LockIds : gas.lock[i][l] = 0  BY <2>6 DEF LocksAreHolds, LockIds
  <2> QED  BY <2>2, <2>3, <2>4, <2>5, <2>6, <2>7 DEF Unheard
<1> QED  BY <1>1, <1>2, <1>3

\* A message that is sent has its sender recorded; the other senders stay.
LEMMA SourcePut ==
  ASSUME Types, NEW m \in Messages \ DOMAIN source, NEW s \in {"user", "program"},
         source' = Put(source, m, s)
  PROVE  /\ source' \in UNION {[D -> {"user", "program"}] : D \in SUBSET Messages}
         /\ DOMAIN source' = DOMAIN source \cup {m} /\ source'[m] = s
         /\ \A x \in DOMAIN source : source'[x] = source[x]
<1>1. PICK D \in SUBSET Messages : source \in [D -> {"user", "program"}]  BY DEF Types
<1>2. source' \in [D \cup {m} -> {"user", "program"}]  BY <1>1 DEF Put
<1>3. D \cup {m} \in SUBSET Messages  OBVIOUS
<1>4. source' \in UNION {[E -> {"user", "program"}] : E \in SUBSET Messages}
  BY <1>2, <1>3, Zenon
<1> QED  BY <1>1, <1>4 DEF Put

\* r is the gas after nodes for N, which are of the message m, were added.
Grown(r, N, m) ==
  /\ r \in GasRecords
  /\ DOMAIN r.purse = DOMAIN gas.purse \cup N
  /\ \A i \in DOMAIN gas.purse : r.purse[i] = gas.purse[i]
  /\ \A i \in N : r.purse[i][1] \in DOMAIN source \cup {m}
  /\ \A t \in pool : t.kind = "SendUserMessageToMailbox" =>
       r.value[t.id] = gas.value[t.id] /\ \A i \in N : r.purse[i] # t.id
  /\ gas.deposits \subseteq r.deposits /\ r.deposits \subseteq gas.deposits \cup N
  /\ \A i \in Ids \ {<<m, "msg">>} : r.lock[i] = gas.lock[i]
  /\ r.ok = gas.ok

\* The message m was sent by s and "new", it or the reply to it, is stored now.
Sent(m, s, new, N) ==
  LET id == <<m, "msg">> IN
  /\ m \in Messages \ DOMAIN source /\ s \in {"user", "program"}
  /\ source' = Put(source, m, s)
  /\ new \in N /\ N \subseteq {id, Reply(id)} /\ (new = Reply(id) => N = {new})
  /\ Reply(id) \in N => s = "program"
  /\ Grown(gas', N, m)
  /\ UNCHANGED <<block, running, waitlist, active>>

\* What does not depend on where the message is stored.
LEMMA SentFacts ==
  ASSUME IInv, NEW m, NEW s, NEW new, NEW N, Sent(m, s, new, N), Stored' = Stored \cup {new},
         \A t \in pool' : t \in pool \/ t.id = new
  PROVE  /\ Control' /\ Known' /\ ReplyFollows' /\ Owned' /\ NoUnreachable'
         /\ gas'.deposits \subseteq DOMAIN gas'.purse
         /\ \A i \in DOMAIN gas'.purse : IsReply(i) => source'[i[1]] = "program"
         /\ \A i \in DOMAIN mailbox \cup DOMAIN stash : ~IsReply(i) /\ source'[i[1]] = "program"
<1> USE DEF IInv
<1> DEFINE id == <<m, "msg">>
<1>1. /\ m \in Messages \ DOMAIN source /\ s \in {"user", "program"}
      /\ source' = Put(source, m, s)
      /\ new \in N /\ N \subseteq {id, Reply(id)} /\ (new = Reply(id) => N = {new})
      /\ Reply(id) \in N => s = "program"
      /\ Grown(gas', N, m)
      /\ UNCHANGED <<block, running, waitlist, active>>
  BY DEF Sent
<1>2. /\ Unheard(id) /\ Unheard(Reply(id))
      /\ ~IsReply(id) /\ IsReply(Reply(id)) /\ Msg(id) = id /\ Msg(Reply(id)) = id
      /\ id # Reply(id) /\ id[1] = m /\ Reply(id)[1] = m
  BY <1>1, Fresh
<1>3. /\ DOMAIN source' = DOMAIN source \cup {m} /\ source'[m] = s
      /\ \A x \in DOMAIN source : source'[x] = source[x]
  BY <1>1, SourcePut
<1> HIDE DEF id
<1>4. Control'  BY <1>1 DEF Control, block
<1>5. \A i \in N : i[1] = m  BY <1>1, <1>2
<1>6. Known'  BY SMTT(90), <1>1, <1>3, <1>5 DEF Known, Grown
<1>7. Stored \subseteq Ids  BY HoldFields DEF Stored, Types, Control
<1>8. ReplyFollows'
  <2> SUFFICES ASSUME NEW i \in Stored', IsReply(i), Msg(i) \in Stored' PROVE FALSE
    BY DEF ReplyFollows
  <2>1. CASE i \in Stored /\ Msg(i) = new
    <3>1. i[1] \in DOMAIN source /\ i \in Ids  BY <1>7, <2>1 DEF Known
    <3>2. Msg(i)[1] = i[1]  BY <3>1, IdFacts
    <3> QED  BY <1>1, <1>5, <2>1, <3>1, <3>2
  <2>2. CASE i = new /\ Msg(i) \in Stored
    BY <1>1, <1>2, <2>2 DEF Unheard
  <2>3. CASE i = new /\ Msg(i) = new
    BY <1>1, <1>2, <2>3
  <2> QED  BY <2>1, <2>2, <2>3 DEF ReplyFollows
<1>9. Owned'
  <2>1. Stored' \subseteq DOMAIN gas'.purse  BY <1>1 DEF Owned, Grown
  <2>2. ASSUME active', NEW i \in DOMAIN gas'.purse
        PROVE  i \in Stored' \/ (IsReply(i) /\ Msg(i) \in Stored')
    <3>1. CASE i \in DOMAIN gas.purse  BY <1>1, <2>2, <3>1 DEF Owned
    <3>2. CASE i \in N
      <4>1. i = new \/ (i = Reply(id) /\ new = id)  BY <1>1, <3>2
      <4> QED  BY <1>2, <4>1
    <3> QED  BY <1>1, <3>1, <3>2 DEF Grown
  <2> QED  BY <2>1, <2>2 DEF Owned
<1>10. NoUnreachable'  BY <1>1 DEF NoUnreachable, Grown
<1>11. gas'.deposits \subseteq DOMAIN gas'.purse  BY <1>1 DEF Grown, ReplyNodes
<1>12. ASSUME NEW i \in DOMAIN gas'.purse, IsReply(i) PROVE source'[i[1]] = "program"
  <2>1. CASE i \in DOMAIN gas.purse  BY <1>3, <1>12, <2>1 DEF FromProgram, Known
  <2>2. CASE i \in N  BY <1>1, <1>2, <1>3, <1>12, <2>2
  <2> QED  BY <1>1, <2>1, <2>2 DEF Grown
<1>13. \A i \in DOMAIN mailbox \cup DOMAIN stash : ~IsReply(i) /\ source'[i[1]] = "program"
  BY <1>3 DEF FromProgram, Known, Stored
<1> QED  BY <1>4, <1>6, <1>8, <1>9, <1>10, <1>11, <1>12, <1>13

\* The messages that were stashed for the mailbox keep their gas.
LEMMA SentKeepsMailboxGas ==
  ASSUME IInv, NEW m, NEW s, NEW new, NEW N, Sent(m, s, new, N),
         NEW t \in pool, t.kind = "SendUserMessageToMailbox"
  PROVE  /\ gas'.purse[t.id] = t.id /\ gas'.value[t.id] >= MailboxThreshold
         /\ \A j \in DOMAIN gas'.purse \ {t.id} : gas'.purse[j] # t.id
<1>1. Grown(gas', N, m)  BY DEF Sent
<1>2. t.id \in DOMAIN gas.purse  BY DEF IInv, Scheduled, StashKinds, Owned, Stored
<1>3. /\ gas.purse[t.id] = t.id /\ gas.value[t.id] >= MailboxThreshold
      /\ \A j \in DOMAIN gas.purse \ {t.id} : gas.purse[j] # t.id
  BY DEF IInv, ForMailbox
<1>4. gas'.purse[t.id] = t.id /\ gas'.value[t.id] >= MailboxThreshold  BY <1>1, <1>2, <1>3 DEF Grown
<1>5. ASSUME NEW j \in DOMAIN gas'.purse \ {t.id} PROVE gas'.purse[j] # t.id
  <2>1. CASE j \in DOMAIN gas.purse  BY <1>1, <1>3, <1>5, <2>1 DEF Grown
  <2>2. CASE j \in N  BY <1>1, <2>2 DEF Grown
  <2> QED  BY <1>1, <2>1, <2>2 DEF Grown
<1> QED  BY <1>4, <1>5

\* A new message that enters the queue keeps the invariant.
LEMMA NewInQueue ==
  ASSUME IInv, NEW m, NEW s, NEW new, NEW N, Sent(m, s, new, N), NEW id, id = <<m, "msg">>,
         Reply(id) \in N \ {new} => Reply(id) \in gas'.deposits,
         gas'.lock[id] = gas.lock[id],
         queue' = queue \cup {new}, UNCHANGED <<pool, mailbox, stash>>
  PROVE  IInv'
<1> USE DEF IInv
<1>1. /\ m \in Messages \ DOMAIN source /\ s \in {"user", "program"}
      /\ source' = Put(source, m, s) /\ new \in N /\ N \subseteq {id, Reply(id)}
      /\ Grown(gas', N, m)
      /\ running' = running /\ waitlist' = waitlist /\ active' = active
  BY DEF Sent
<1>2. /\ Unheard(id) /\ Unheard(Reply(id))
      /\ ~IsReply(id) /\ IsReply(Reply(id)) /\ Msg(id) = id /\ Msg(Reply(id)) = id
      /\ id # Reply(id) /\ id[1] = m /\ Reply(id)[1] = m
  BY <1>1, Fresh
<1>3. source' \in UNION {[D -> {"user", "program"}] : D \in SUBSET Messages}  BY <1>1, SourcePut
<1>4. Unheard(new)  BY <1>1, <1>2
<1>5. Stored' = Stored \cup {new}  BY <1>1 DEF Stored
<1>6. /\ Control' /\ Known' /\ ReplyFollows' /\ Owned' /\ NoUnreachable'
      /\ gas'.deposits \subseteq DOMAIN gas'.purse
      /\ \A i \in DOMAIN gas'.purse : IsReply(i) => source'[i[1]] = "program"
      /\ \A i \in DOMAIN mailbox \cup DOMAIN stash : ~IsReply(i) /\ source'[i[1]] = "program"
  BY <1>5, SentFacts
<1>7. Types'  BY <1>1, <1>3, <1>4 DEF Types, Grown, Unheard
<1>8. Places'  BY SMTT(90), <1>1, <1>4 DEF Places, Unheard
<1>9. FromProgram'  BY <1>6 DEF FromProgram
<1>10. SentUser' = SentUser  BY DEF SentUser
<1>11. ReplyNodes'
  <2>1. ASSUME NEW i \in DOMAIN gas'.purse, IsReply(i), i \notin Stored'
        PROVE  i \in gas'.deposits \/ Msg(i) \in SentUser
    <3>1. CASE i \in DOMAIN gas.purse  BY <1>1, <1>5, <2>1, <3>1 DEF ReplyNodes, Grown
    <3>2. CASE i \in N  BY <1>1, <1>2, <1>5, <2>1, <3>2
    <3> QED  BY <1>1, <3>1, <3>2 DEF Grown
  <2>2. \A i \in SentUser : Reply(i) \in DOMAIN gas'.purse  BY <1>1 DEF ReplyNodes, Grown
  <2> QED  BY <1>6, <1>10, <2>1, <2>2 DEF ReplyNodes
<1>12. \A i \in Ids : gas'.lock[i] = gas.lock[i]  BY <1>1 DEF Grown
<1>13. LocksAreHolds'  BY <1>1, <1>12 DEF LocksAreHolds
<1>14. OneStashTask'  BY DEF OneStashTask
<1>15. Paid'
  <2>1. DOMAIN waitlist \subseteq Ids /\ DOMAIN mailbox \subseteq Ids /\ DOMAIN stash \subseteq Ids
    BY HoldFields DEF Types
  <2> QED  BY <1>1, <1>12, <2>1 DEF Paid
<1>16. ForMailbox'
  <2> SUFFICES ASSUME NEW t \in pool, t.kind = "SendUserMessageToMailbox"
               PROVE /\ gas'.purse[t.id] = t.id /\ gas'.value[t.id] >= MailboxThreshold
                     /\ \A j \in DOMAIN gas'.purse \ {t.id} : gas'.purse[j] # t.id
    BY DEF ForMailbox
  <2> QED  BY SentKeepsMailboxGas
<1>17. Scheduled'  BY <1>1 DEF Scheduled
<1> QED  BY <1>6, <1>7, <1>8, <1>9, <1>11, <1>13, <1>14, <1>15, <1>16, <1>17

\* A new message that enters the mailbox, paid for and scheduled, keeps the invariant.
LEMMA NewInMailbox ==
  ASSUME IInv, NEW m, NEW N, NEW id, id = <<m, "msg">>, Sent(m, "program", id, N),
         Reply(id) \in N => Reply(id) \in gas'.deposits,
         NEW end \in Nat, end > bn, mailbox' = Put(mailbox, id, [start |-> bn, finish |-> end]),
         pool' = pool \cup {Task(end, "RemoveFromMailbox", id)},
         gas'.lock[id]["Waitlist"] = 0, gas'.lock[id]["DispatchStash"] = 0,
         (end + ReserveFor - bn) * MailboxCost <= gas'.lock[id]["Mailbox"],
         UNCHANGED <<queue, stash>>
  PROVE  IInv'
<1> USE DEF IInv
<1> DEFINE new == Task(end, "RemoveFromMailbox", id)
<1>1. /\ m \in Messages \ DOMAIN source
      /\ source' = Put(source, m, "program") /\ id \in N /\ N \subseteq {id, Reply(id)}
      /\ Grown(gas', N, m)
      /\ running' = running /\ waitlist' = waitlist /\ active' = active
  BY DEF Sent
<1>2. /\ Unheard(id) /\ Unheard(Reply(id))
      /\ ~IsReply(id) /\ IsReply(Reply(id)) /\ Msg(id) = id /\ Msg(Reply(id)) = id
      /\ id # Reply(id) /\ id[1] = m /\ Reply(id)[1] = m
  BY <1>1, Fresh
<1>3. /\ source' \in UNION {[D -> {"user", "program"}] : D \in SUBSET Messages}
      /\ source'[m] = "program"
  BY <1>1, SourcePut
<1>4. new.id = id /\ new.kind = "RemoveFromMailbox" /\ new.at = end /\ new \in Tasks
  BY SMTT(90), <1>2, TaskIs DEF Kinds, Unheard
<1>a. pool' = pool \cup {new}  OBVIOUS
<1>5. WithHold(mailbox', mailbox, id, bn, end)
  BY <1>2, PutHold DEF Types, Control, Unheard
<1>b. DOMAIN mailbox' = DOMAIN mailbox \cup {id}  BY <1>5 DEF WithHold
<1>c. new = Task(end, "RemoveFromMailbox", id)  OBVIOUS
<1> HIDE DEF new
<1>6. Stored' = Stored \cup {id}  BY <1>1, <1>b DEF Stored
<1>7. \A t \in pool' : t \in pool \/ t.id = id  BY <1>4, <1>a
<1>8. /\ Control' /\ Known' /\ ReplyFollows' /\ Owned' /\ NoUnreachable'
      /\ gas'.deposits \subseteq DOMAIN gas'.purse
      /\ \A i \in DOMAIN gas'.purse : IsReply(i) => source'[i[1]] = "program"
      /\ \A i \in DOMAIN mailbox \cup DOMAIN stash : ~IsReply(i) /\ source'[i[1]] = "program"
  BY <1>6, <1>7, SentFacts
<1>9. Types'  BY <1>1, <1>3, <1>4, <1>5, <1>a DEF Types, Grown, WithHold
<1>10. Places'  BY SMTT(90), <1>1, <1>2, <1>b DEF Places, Unheard
<1>11. FromProgram'  BY <1>2, <1>3, <1>8, <1>b DEF FromProgram
<1>12. SentUser' = SentUser  BY <1>4, <1>a DEF SentUser
<1>13. ReplyNodes'
  <2>1. ASSUME NEW i \in DOMAIN gas'.purse, IsReply(i), i \notin Stored'
        PROVE  i \in gas'.deposits \/ Msg(i) \in SentUser
    <3>1. CASE i \in DOMAIN gas.purse  BY <1>1, <1>6, <2>1, <3>1 DEF ReplyNodes, Grown
    <3>2. CASE i \in N  BY <1>1, <1>2, <1>6, <2>1, <3>2
    <3> QED  BY <1>1, <3>1, <3>2 DEF Grown
  <2>2. \A i \in SentUser : Reply(i) \in DOMAIN gas'.purse  BY <1>1 DEF ReplyNodes, Grown
  <2> QED  BY <1>8, <1>12, <2>1, <2>2 DEF ReplyNodes
<1>14. \A i \in Ids \ {id} : gas'.lock[i] = gas.lock[i]  BY <1>1 DEF Grown
<1>15. LocksAreHolds'  BY <1>1, <1>14, <1>b DEF LocksAreHolds
<1>16. OneStashTask'  BY <1>4, <1>a DEF OneStashTask, StashKinds
<1>17. Paid'
  <2>1. DOMAIN waitlist \subseteq Ids /\ DOMAIN mailbox \subseteq Ids /\ DOMAIN stash \subseteq Ids
    BY HoldFields DEF Types
  <2>2. IsPaid(mailbox'[id], MailboxCost, gas'.lock[id]["Mailbox"])
    BY SMTT(90), <1>5 DEF WithHold, IsPaid, Control
  <2> QED  BY <1>1, <1>2, <1>5, <1>14, <2>1, <2>2 DEF Paid, WithHold, Unheard
<1>18. ForMailbox'
  <2> SUFFICES ASSUME NEW t \in pool, t.kind = "SendUserMessageToMailbox"
               PROVE /\ gas'.purse[t.id] = t.id /\ gas'.value[t.id] >= MailboxThreshold
                     /\ \A j \in DOMAIN gas'.purse \ {t.id} : gas'.purse[j] # t.id
    BY <1>4, <1>a DEF ForMailbox
  <2> QED  BY SentKeepsMailboxGas
<1>19. Scheduled'
  <2>1. \A i \in DOMAIN mailbox' : Task(mailbox'[i].finish, "RemoveFromMailbox", i) \in pool'
    BY SMTT(90), <1>2, <1>5, <1>a, <1>c DEF WithHold, Scheduled, Unheard
  <2>2. \A t \in pool' : t.kind = "RemoveFromMailbox" =>
          t.id \in DOMAIN mailbox' /\ mailbox'[t.id].finish = t.at
    BY SMTT(90), <1>2, <1>4, <1>5, <1>a DEF WithHold, Scheduled, Unheard
  <2> QED  BY <1>1, <1>4, <1>a, <2>1, <2>2 DEF Scheduled, StashKinds
<1> QED  BY <1>8, <1>9, <1>10, <1>11, <1>13, <1>15, <1>16, <1>17, <1>18, <1>19

\* A new message that enters the stash, paid for and scheduled, keeps the invariant.
LEMMA NewInStash ==
  ASSUME IInv, NEW m, NEW N, NEW id, id = <<m, "msg">>, Sent(m, "program", id, N),
         NEW kind \in StashKinds,
         Reply(id) \in N => Reply(id) \in gas'.deposits \/ kind = "SendUserMessage",
         kind = "SendUserMessage" => Reply(id) \in N,
         kind = "SendUserMessageToMailbox" =>
           /\ gas'.purse[id] = id /\ gas'.value[id] >= MailboxThreshold
           /\ \A j \in DOMAIN gas'.purse \ {id} : gas'.purse[j] # id,
         NEW end \in Nat, end > bn, stash' = Put(stash, id, [start |-> bn, finish |-> end]),
         pool' = pool \cup {Task(end, kind, id)},
         gas'.lock[id]["Waitlist"] = 0, gas'.lock[id]["Mailbox"] = 0,
         (end + ReserveFor - bn) * StashCost <= gas'.lock[id]["DispatchStash"],
         UNCHANGED <<queue, mailbox>>
  PROVE  IInv'
<1> USE DEF IInv
<1> DEFINE new == Task(end, kind, id)
<1>1. /\ m \in Messages \ DOMAIN source
      /\ source' = Put(source, m, "program") /\ id \in N /\ N \subseteq {id, Reply(id)}
      /\ Grown(gas', N, m)
      /\ running' = running /\ waitlist' = waitlist /\ active' = active
  BY DEF Sent
<1>2. /\ Unheard(id) /\ Unheard(Reply(id))
      /\ ~IsReply(id) /\ IsReply(Reply(id)) /\ Msg(id) = id /\ Msg(Reply(id)) = id
      /\ id # Reply(id) /\ id[1] = m /\ Reply(id)[1] = m
  BY <1>1, Fresh
<1>3. /\ source' \in UNION {[D -> {"user", "program"}] : D \in SUBSET Messages}
      /\ source'[m] = "program"
  BY <1>1, SourcePut
<1>4. new.id = id /\ new.kind = kind /\ new.at = end /\ new \in Tasks
  BY SMTT(90), <1>2, TaskIs DEF Kinds, StashKinds, Unheard
<1>a. pool' = pool \cup {new}  OBVIOUS
<1>5. WithHold(stash', stash, id, bn, end)
  BY <1>2, PutHold DEF Types, Control, Unheard
<1>b. DOMAIN stash' = DOMAIN stash \cup {id}  BY <1>5 DEF WithHold
<1>c. stash'[id].start = bn /\ stash'[id].finish = end
  <2>1. stash'[id] = [start |-> bn, finish |-> end]  BY <1>5 DEF WithHold
  <2> QED  BY ONLY SMTT(90), <2>1
<1> HIDE DEF new
<1>6. Stored' = Stored \cup {id}  BY <1>1, <1>b DEF Stored
<1>7. \A t \in pool' : t \in pool \/ t.id = id  BY <1>4, <1>a
<1>8. /\ Control' /\ Known' /\ ReplyFollows' /\ Owned' /\ NoUnreachable'
      /\ gas'.deposits \subseteq DOMAIN gas'.purse
      /\ \A i \in DOMAIN gas'.purse : IsReply(i) => source'[i[1]] = "program"
      /\ \A i \in DOMAIN mailbox \cup DOMAIN stash : ~IsReply(i) /\ source'[i[1]] = "program"
  BY <1>6, <1>7, SentFacts
<1>9. Types'  BY <1>1, <1>3, <1>4, <1>5, <1>a DEF Types, Grown, WithHold
<1>10. Places'  BY SMTT(90), <1>1, <1>2, <1>b DEF Places, Unheard
<1>11. FromProgram'  BY <1>2, <1>3, <1>8, <1>b DEF FromProgram
<1>12. SentUser' = SentUser \cup (IF kind = "SendUserMessage" THEN {id} ELSE {})
  BY <1>4, <1>a DEF SentUser
<1>13. ReplyNodes'
  <2>1. ASSUME NEW i \in DOMAIN gas'.purse, IsReply(i), i \notin Stored'
        PROVE  i \in gas'.deposits \/ Msg(i) \in SentUser'
    <3>1. CASE i \in DOMAIN gas.purse  BY <1>1, <1>6, <1>12, <2>1, <3>1 DEF ReplyNodes, Grown
    <3>2. CASE i \in N  BY <1>1, <1>2, <1>6, <1>12, <2>1, <3>2
    <3> QED  BY <1>1, <3>1, <3>2 DEF Grown
  <2>2. \A i \in SentUser' : Reply(i) \in DOMAIN gas'.purse  BY <1>1, <1>12 DEF ReplyNodes, Grown
  <2> QED  BY <1>8, <2>1, <2>2 DEF ReplyNodes
<1>14. \A i \in Ids \ {id} : gas'.lock[i] = gas.lock[i]  BY <1>1 DEF Grown
<1>15. LocksAreHolds'  BY <1>1, <1>14, <1>b DEF LocksAreHolds
<1>16. OneStashTask'  BY <1>2, <1>4, <1>a DEF OneStashTask, Unheard
<1>17. Paid'
  <2>1. DOMAIN waitlist \subseteq Ids /\ DOMAIN mailbox \subseteq Ids /\ DOMAIN stash \subseteq Ids
    BY HoldFields DEF Types
  <2>2. IsPaid(stash'[id], StashCost, gas'.lock[id]["DispatchStash"])
    <3>1. bn < end  BY ONLY SMTT(90), end > bn
    <3> QED  BY <1>c, <3>1 DEF IsPaid
  <2> QED  BY <1>1, <1>2, <1>5, <1>14, <2>1, <2>2 DEF Paid, WithHold, Unheard
<1>18. ForMailbox'
  <2> SUFFICES ASSUME NEW t \in pool', t.kind = "SendUserMessageToMailbox"
               PROVE /\ gas'.purse[t.id] = t.id /\ gas'.value[t.id] >= MailboxThreshold
                     /\ \A j \in DOMAIN gas'.purse \ {t.id} : gas'.purse[j] # t.id
    BY DEF ForMailbox
  <2>1. CASE t \in pool  BY <2>1, SentKeepsMailboxGas
  <2>2. CASE t = new  BY <1>4, <2>2
  <2> QED  BY <1>a, <2>1, <2>2
<1>19. Scheduled'
  <2>1. \A i \in DOMAIN stash' :
          \E t \in pool' : t.id = i /\ t.at = stash'[i].finish /\ t.kind \in StashKinds
    <3>1. \A i \in DOMAIN stash : i # id /\ stash'[i] = stash[i]
      BY <1>2, <1>5 DEF WithHold, Unheard
    <3>2. \A i \in DOMAIN stash :
            \E t \in pool : t.id = i /\ t.at = stash[i].finish /\ t.kind \in StashKinds
      BY DEF Scheduled
    <3> QED  BY <1>4, <1>a, <1>b, <1>c, <3>1, <3>2
  <2>2. ASSUME NEW t \in pool', t.kind \in StashKinds
        PROVE  t.id \in DOMAIN stash' /\ stash'[t.id].finish = t.at
    <3>1. CASE t = new  BY <1>4, <1>b, <1>c, <3>1
    <3>2. CASE t \in pool
      <4>1. t.id \in DOMAIN stash /\ stash[t.id].finish = t.at /\ t.id # id
        BY <1>2, <2>2, <3>2 DEF Scheduled, Unheard
      <4> QED  BY <1>5, <4>1 DEF WithHold
    <3> QED  BY <1>a, <3>1, <3>2
  <2> QED  BY SMTT(90), <1>1, <1>4, <1>a, <2>1, <2>2 DEF Scheduled, StashKinds
<1> QED  BY <1>8, <1>9, <1>10, <1>11, <1>13, <1>15, <1>16, <1>17, <1>18, <1>19

\* The gas before any node was added.
LEMMA GrownNothing ==
  ASSUME IInv, NEW m
  PROVE  Grown(gas, {}, m)
BY DEF IInv, Types, Grown

\* What the gas handler asks of a new node and of the one who pays for it.
LEMMA GrownFacts ==
  ASSUME IInv, phase = "journal", NEW m \in Messages \ DOMAIN source, NEW id, id = <<m, "msg">>,
         NEW N, NEW g, Grown(g, N, m), NEW to \in {id, Reply(id)} \ N
  PROVE  /\ g \in GasRecords /\ running \in DOMAIN g.purse /\ g.purse[running] = gas.purse[running]
         /\ to \in Ids \ DOMAIN g.purse /\ to # g.purse[running] /\ to \notin g.deposits
         /\ gas.purse[running] \in Ids
         /\ Limit(g, running) = g.value[gas.purse[running]]
         /\ g.value[gas.purse[running]] \in Nat
<1>1. Unheard(to)  BY Fresh
<1>2. running \in DOMAIN gas.purse /\ gas.purse[running] \in Ids  BY RunningFacts
<1>3. g \in GasRecords /\ running \in DOMAIN g.purse /\ g.purse[running] = gas.purse[running]
  BY <1>2 DEF Grown
<1>4. to \in Ids \ DOMAIN g.purse /\ to # gas.purse[running] /\ to \notin g.deposits
  BY <1>1, <1>2 DEF Unheard, Grown
<1>5. g.value[gas.purse[running]] \in Nat  BY <1>2, <1>3, GasFields
<1> QED  BY <1>2, <1>3, <1>4, <1>5 DEF Limit, HasGas

\* The purse the program pays from is not one of a message stashed for the mailbox.
LEMMA NotForMailbox ==
  ASSUME IInv, phase = "journal", NEW t \in pool, t.kind = "SendUserMessageToMailbox"
  PROVE  t.id \in Ids /\ t.id # gas.purse[running]
<1>1. t.id \in DOMAIN stash  BY DEF IInv, Scheduled, StashKinds
<1>2. t.id \in Ids  BY <1>1, HoldFields DEF IInv, Types
<1>3. running \in DOMAIN gas.purse /\ running \notin DOMAIN stash  BY RunningFacts
<1> QED  BY <1>1, <1>2, <1>3 DEF IInv, ForMailbox

\* "to" is the new message m or the reply to it, and has no node among N yet.
NodeOf(to, N, m) ==
  m \in Messages \ DOMAIN source /\ to \in {<<m, "msg">>, Reply(<<m, "msg">>)} \ N

\* r is g with a node for "to" that holds what was taken from the program's purse.
Added(r, g, N, to, m, amount) ==
  /\ Grown(r, N \cup {to}, m) /\ r.purse[to] = to /\ r.value[to] = amount
  /\ r.value[gas.purse[running]] = g.value[gas.purse[running]] - amount
  /\ r.lock = g.lock /\ \A i \in DOMAIN g.purse : r.purse[i] = g.purse[i]
  /\ \A i \in Ids \ {to, gas.purse[running]} : r.value[i] = g.value[i]

\* A node made from the running message's gas is added; nothing else grows or shrinks.
LEMMA GrownByTaking ==
  ASSUME IInv, phase = "journal", NEW m, NEW N, NEW to, NodeOf(to, N, m), NEW g, Grown(g, N, m),
         NEW amount \in Nat, NEW r, TakesFrom(r, g, running, to, amount),
         g.deposits \subseteq r.deposits, r.deposits \subseteq g.deposits \cup {to}
  PROVE  Added(r, g, N, to, m, amount)
<1>0. m \in Messages \ DOMAIN source /\ to \in {<<m, "msg">>, Reply(<<m, "msg">>)} \ N
  BY DEF NodeOf
<1>1. /\ g \in GasRecords /\ running \in DOMAIN g.purse /\ g.purse[running] = gas.purse[running]
      /\ to \in Ids \ DOMAIN g.purse
  BY SMTT(90), <1>0, GrownFacts
<1>2. Unheard(to) /\ to[1] = m  BY <1>0, Fresh
<1>3. ASSUME NEW t \in pool, t.kind = "SendUserMessageToMailbox"
      PROVE  r.value[t.id] = gas.value[t.id] /\ \A i \in N \cup {to} : r.purse[i] # t.id
  <2>1. t.id \in Ids /\ t.id # gas.purse[running] /\ t.id # to
    BY <1>2, <1>3, NotForMailbox DEF Unheard
  <2>2. r.value[t.id] = g.value[t.id]  BY <1>1, <2>1 DEF TakesFrom
  <2>3. g.value[t.id] = gas.value[t.id] /\ \A i \in N : g.purse[i] # t.id  BY <1>3 DEF Grown
  <2>4. N \subseteq DOMAIN g.purse  BY DEF Grown
  <2> QED  BY <2>1, <2>2, <2>3, <2>4 DEF TakesFrom
<1>4. \A i \in N \cup {to} : r.purse[i][1] \in DOMAIN source \cup {m}
  BY <1>2 DEF Grown, TakesFrom
<1>5. /\ r \in GasRecords /\ DOMAIN r.purse = DOMAIN gas.purse \cup (N \cup {to})
      /\ \A i \in DOMAIN gas.purse : r.purse[i] = gas.purse[i]
      /\ r.lock = g.lock /\ r.ok = gas.ok
      /\ gas.deposits \subseteq r.deposits /\ r.deposits \subseteq gas.deposits \cup (N \cup {to})
  BY DEF Grown, TakesFrom
<1>6. Grown(r, N \cup {to}, m)  BY <1>3, <1>4, <1>5 DEF Grown
<1> QED  BY <1>1, <1>5, <1>6 DEF TakesFrom, Added

\* And it is no deposit.
AddedOnly(r, g, N, to, m, amount) == Added(r, g, N, to, m, amount) /\ r.deposits = g.deposits

\* A node for "to" can take the amount from the program's purse.
CanTake(to, N, m, g, amount) ==
  /\ phase = "journal" /\ NodeOf(to, N, m) /\ Grown(g, N, m)
  /\ amount \in Nat /\ amount <= g.value[gas.purse[running]]

\* cut adds the node of the message and no deposit.
LEMMA CutGrown ==
  ASSUME IInv, NEW m, NEW N, NEW to, NEW g, NEW amount, CanTake(to, N, m, g, amount)
  PROVE  AddedOnly(Cut(g, running, to, amount), g, N, to, m, amount)
<1> USE DEF CanTake
<1> DEFINE r == Cut(g, running, to, amount)
<1>1. m \in Messages \ DOMAIN source /\ to \in {<<m, "msg">>, Reply(<<m, "msg">>)} \ N
  BY DEF NodeOf
<1>2. /\ g \in GasRecords /\ running \in DOMAIN g.purse /\ g.purse[running] = gas.purse[running]
      /\ to \in Ids \ DOMAIN g.purse /\ to # g.purse[running]
  BY SMTT(90), <1>1, GrownFacts
<1>3. TakesFrom(r, g, running, to, amount) /\ r.deposits = g.deposits
  BY <1>2, CutIs
<1> HIDE DEF r
<1>4. Added(r, g, N, to, m, amount)
  <2>1. g.deposits \subseteq r.deposits /\ r.deposits \subseteq g.deposits \cup {to}  BY <1>3
  <2> QED  BY <1>3, <2>1, GrownByTaking
<1> QED  BY <1>3, <1>4 DEF r, AddedOnly

\* split_with_value adds the node of the message and no deposit.
LEMMA SplitWithValueGrown ==
  ASSUME IInv, NEW m, NEW N, NEW to, NEW g, NEW amount, CanTake(to, N, m, g, amount)
  PROVE  AddedOnly(SplitWithValue(g, running, to, amount, FALSE), g, N, to, m, amount)
<1> USE DEF CanTake
<1> DEFINE r == SplitWithValue(g, running, to, amount, FALSE)
<1>1. m \in Messages \ DOMAIN source /\ to \in {<<m, "msg">>, Reply(<<m, "msg">>)} \ N
  BY DEF NodeOf
<1>2. /\ g \in GasRecords /\ running \in DOMAIN g.purse /\ g.purse[running] = gas.purse[running]
      /\ to \in Ids \ DOMAIN g.purse /\ to # g.purse[running] /\ to \notin g.deposits
  BY SMTT(90), <1>1, GrownFacts
<1>3. /\ TakesFrom(r, g, running, to, amount) /\ r.deposits = g.deposits
      /\ SplitWithValue(g, running, to, amount, TRUE) = r
  BY <1>2, SplitWithValueIs
<1> HIDE DEF r
<1>4. Added(r, g, N, to, m, amount)
  <2>1. g.deposits \subseteq r.deposits /\ r.deposits \subseteq g.deposits \cup {to}  BY <1>3
  <2> QED  BY <1>3, <2>1, GrownByTaking
<1> QED  BY <1>3, <1>4 DEF r, AddedOnly

\* The node of a reply that has no deposit.
LEMMA SplitReplyGrown ==
  ASSUME IInv, NEW m, NEW N, NEW to, NEW g, NEW amount, CanTake(to, N, m, g, amount)
  PROVE  AddedOnly(SplitWithValue(g, running, to, amount, TRUE), g, N, to, m, amount)
<1>1. m \in Messages \ DOMAIN source /\ to \in {<<m, "msg">>, Reply(<<m, "msg">>)} \ N
      /\ phase = "journal" /\ Grown(g, N, m)
  BY DEF NodeOf, CanTake
<1>2. ~ExistsAndDeposit(g, to)  BY <1>1, GrownFacts DEF ExistsAndDeposit
<1>3. SplitWithValue(g, running, to, amount, TRUE) = SplitWithValue(g, running, to, amount, FALSE)
  BY <1>2 DEF SplitWithValue
<1>4. AddedOnly(SplitWithValue(g, running, to, amount, FALSE), g, N, to, m, amount)
  BY ONLY IInv, CanTake(to, N, m, g, amount), SplitWithValueGrown
<1> QED  BY ONLY <1>3, <1>4

\* r is g with a node for "to" that shares the program's purse.
Shares(r, g, N, to, m) ==
  /\ Grown(r, N \cup {to}, m) /\ r.purse[to] = gas.purse[running]
  /\ r.value = g.value /\ r.lock = g.lock /\ r.deposits = g.deposits

\* split adds a node that spends from the running message's purse.
LEMMA GrownBySplit ==
  ASSUME IInv, phase = "journal", NEW m, NEW N, NEW to, NodeOf(to, N, m), NEW g, Grown(g, N, m)
  PROVE  Shares(Split(g, running, to, FALSE), g, N, to, m)
<1> DEFINE r == Split(g, running, to, FALSE)
<1>0. m \in Messages \ DOMAIN source /\ to \in {<<m, "msg">>, Reply(<<m, "msg">>)} \ N
  BY DEF NodeOf
<1>1. /\ g \in GasRecords /\ running \in DOMAIN g.purse /\ g.purse[running] = gas.purse[running]
      /\ to \in Ids \ DOMAIN g.purse /\ to \notin g.deposits
  BY SMTT(90), <1>0, GrownFacts
<1>2. /\ r \in GasRecords
      /\ DOMAIN r.purse = DOMAIN g.purse \cup {to} /\ r.purse[to] = g.purse[running]
      /\ \A i \in DOMAIN g.purse : r.purse[i] = g.purse[i]
      /\ r.value = g.value /\ r.lock = g.lock /\ r.deposits = g.deposits /\ r.ok = g.ok
  BY <1>1, SplitIs
<1> HIDE DEF r
<1>3. ASSUME NEW t \in pool, t.kind = "SendUserMessageToMailbox"
      PROVE  r.value[t.id] = gas.value[t.id] /\ \A i \in N \cup {to} : r.purse[i] # t.id
  <2>1. t.id \in Ids /\ t.id # gas.purse[running]  BY <1>3, NotForMailbox
  <2>2. g.value[t.id] = gas.value[t.id] /\ \A i \in N : g.purse[i] # t.id  BY <1>3 DEF Grown
  <2>3. N \subseteq DOMAIN g.purse  BY DEF Grown
  <2> QED  BY <1>1, <1>2, <2>1, <2>2, <2>3
<1>4. \A i \in N \cup {to} : r.purse[i][1] \in DOMAIN source \cup {m}
  <2>1. gas.purse[running][1] \in DOMAIN source  BY RunningFacts DEF IInv, Known
  <2> QED  BY <1>1, <1>2, <2>1 DEF Grown
<1>5. /\ DOMAIN r.purse = DOMAIN gas.purse \cup (N \cup {to})
      /\ \A i \in DOMAIN gas.purse : r.purse[i] = gas.purse[i]
      /\ r.ok = gas.ok
      /\ gas.deposits \subseteq r.deposits /\ r.deposits \subseteq gas.deposits \cup (N \cup {to})
  BY <1>2 DEF Grown
<1>6. Grown(r, N \cup {to}, m)  BY <1>2, <1>3, <1>4, <1>5 DEF Grown
<1> QED  BY <1>1, <1>2, <1>6 DEF r, Shares

\* The amount can be locked at the new message.
CanLock(g, N, m, id, lock, amount) ==
  /\ m \in Messages \ DOMAIN source /\ id = <<m, "msg">> /\ id \in N
  /\ Grown(g, N, m) /\ g.lock = gas.lock /\ lock \in LockIds
  /\ amount \in Nat /\ amount <= g.value[g.purse[id]]

\* r is g with the amount locked at the new message.
Locked(r, g, N, m, id, lock, amount) ==
  /\ Grown(r, N, m) /\ r.purse = g.purse /\ r.deposits = g.deposits
  /\ r.value[g.purse[id]] = g.value[g.purse[id]] - amount
  /\ r.lock[id][lock] = amount /\ \A l \in LockIds \ {lock} : r.lock[id][l] = 0

\* Locking rent for the new message takes it from the message's purse.
LEMMA GrownByLocking ==
  ASSUME IInv, NEW m, NEW id, NEW N, NEW g, NEW lock, NEW amount, CanLock(g, N, m, id, lock, amount)
  PROVE  Locked(LockGas(g, id, lock, amount), g, N, m, id, lock, amount)
<1> USE DEF CanLock
<1> DEFINE r == LockGas(g, id, lock, amount)
<1>1. g \in GasRecords /\ id \in DOMAIN g.purse  BY DEF Grown
<1>2. id \in Ids /\ g.purse[id] \in Ids /\ g.value \in [Ids -> Nat]
      /\ g.lock \in [Ids -> [LockIds -> Nat]]
  BY <1>1, GasFields
<1>3. /\ r \in GasRecords /\ r.purse = g.purse
      /\ r.value = [g.value EXCEPT ![g.purse[id]] = @ - amount]
      /\ r.lock = [g.lock EXCEPT ![id][lock] = @ + amount]
      /\ r.deposits = g.deposits /\ r.ok = g.ok
  <2>1. amount \in Nat /\ lock \in LockIds /\ amount <= g.value[g.purse[id]]  OBVIOUS
  <2> QED  BY ONLY <1>1, <2>1, LockGasIs
<1> HIDE DEF r
<1>4. \A l \in LockIds : g.lock[id][l] = 0  BY SMTT(90), Fresh DEF Unheard
<1>5. /\ r.lock[id][lock] = amount /\ \A l \in LockIds \ {lock} : r.lock[id][l] = 0
      /\ \A i \in Ids \ {id} : r.lock[i] = gas.lock[i]
  <2>1. r.lock[id] = [g.lock[id] EXCEPT ![lock] = @ + amount]  BY <1>2, <1>3
  <2>2. g.lock[id] \in [LockIds -> Nat] /\ g.lock[id][lock] = 0  BY <1>2, <1>4
  <2>3. r.lock[id][lock] = amount /\ \A l \in LockIds \ {lock} : r.lock[id][l] = 0
    BY SMTT(90), <1>4, <2>1, <2>2
  <2>4. \A i \in Ids \ {id} : r.lock[i] = g.lock[i]  BY <1>2, <1>3
  <2> QED  BY <2>3, <2>4
<1>6. ASSUME NEW t \in pool, t.kind = "SendUserMessageToMailbox"
      PROVE  r.value[t.id] = gas.value[t.id] /\ \A i \in N : r.purse[i] # t.id
  <2>1. g.value[t.id] = gas.value[t.id] /\ \A i \in N : g.purse[i] # t.id  BY <1>6 DEF Grown
  <2>2. t.id \in Ids  BY DEF IInv, Types, Tasks
  <2> QED  BY <1>2, <1>3, <2>1, <2>2
<1>7. r.value[g.purse[id]] = g.value[g.purse[id]] - amount  BY <1>2, <1>3
<1>8. Grown(r, N, m)
  <2>1. r \in GasRecords /\ r.purse = g.purse /\ r.deposits = g.deposits /\ r.ok = g.ok  BY <1>3
  <2> QED  BY <1>5, <1>6, <2>1 DEF Grown
<1> QED  BY <1>3, <1>5, <1>7, <1>8 DEF r, Locked

\* A user's send_message keeps the invariant.
LEMMA SendMessageStep ==
  ASSUME IInv, NEW m \in Messages, NEW limit \in GasLimits, SendMessage(m, limit)
  PROVE  IInv'
<1> USE DEF IInv
<1> DEFINE id == <<m, "msg">>
           line == <<>>
           r == NewNode(gas, id, limit, line)
<1>1. /\ m \in Messages \ DOMAIN source /\ source' = Put(source, m, "user")
      /\ gas' = Expect(r, id \notin queue) /\ queue' = queue \cup {id}
      /\ UNCHANGED <<block, pool, running, held, active>>
  BY DEF SendMessage, Create
<1>2. line \in Seq(Ids) /\ limit \in Nat  BY SMTT(90), BoundsAssumption
<1>3. /\ Unheard(id) /\ id # Reply(id) /\ id[1] = m  BY <1>1, Fresh
<1>i. id = <<m, "msg">>  OBVIOUS
<1> HIDE DEF id, line
<1>4. gas \in GasRecords /\ id \in Ids /\ id \notin DOMAIN gas.purse /\ gas.value \in [Ids -> Nat]
  BY <1>3, GasFields DEF Types, Unheard
<1>5. /\ r \in GasRecords
      /\ DOMAIN r.purse = DOMAIN gas.purse \cup {id} /\ r.purse[id] = id
      /\ \A i \in DOMAIN gas.purse \ {id} : r.purse[i] = gas.purse[i]
      /\ r.value = [gas.value EXCEPT ![id] = limit]
      /\ r.lock = gas.lock /\ r.deposits = gas.deposits
      /\ r.ok = (gas.ok /\ id \notin DOMAIN gas.purse)
  <2>1. gas \in GasRecords /\ id \in Ids /\ limit \in Nat /\ line \in Seq(Ids)  BY <1>2, <1>4
  <2> QED  BY ONLY <2>1, NewNodeIs
<1> HIDE DEF r
<1>6. gas' = r
  <2>1. (id \notin queue) = TRUE  BY <1>3 DEF Unheard
  <2>2. gas' = Expect(r, TRUE)  BY <1>1, <2>1
  <2> QED  BY <1>5, <2>2, ExpectTrue
<1>7. r.ok = gas.ok  BY <1>4, <1>5 DEF NoUnreachable
<1>8. Grown(r, {id}, m)
  <2>1. \A t \in pool : r.value[t.id] = gas.value[t.id] /\ t.id # id
    BY <1>3, <1>4, <1>5 DEF Unheard, Types, Tasks
  <2> QED  BY <1>3, <1>4, <1>5, <1>7, <2>1 DEF Grown
<1>9. Sent(m, "user", id, {id})
  <2>1. Reply(id) \notin {id}  BY <1>3
  <2> QED  BY <1>1, <1>6, <1>8, <2>1 DEF Sent, held, id
<1>10. Reply(id) \notin {id} \ {id} /\ gas'.lock[id] = gas.lock[id]  BY <1>5, <1>6
<1> QED  BY <1>1, <1>9, <1>10, <1>i, NewInQueue DEF held

\* The gas of a reply deposit.
Deposited(deposit) == IF deposit = None THEN 0 ELSE deposit

\* The reply deposit that a program gives along adds at most the node of the reply.
LEMMA WithDepositIs ==
  ASSUME IInv, phase = "journal", NEW m \in Messages \ DOMAIN source, NEW id, id = <<m, "msg">>,
         NEW deposit \in Limits, Deposited(deposit) <= Limit(gas, running)
  PROVE  \E N \in {{}, {Reply(id)}} :
         LET g == WithDeposit(id, deposit) IN
         /\ Grown(g, N, m) /\ g.lock = gas.lock /\ N \subseteq g.deposits
         /\ g.value[gas.purse[running]] = gas.value[gas.purse[running]] - Deposited(deposit)
         /\ \A i \in N : g.purse[i] = Reply(id)
<1> DEFINE re == Reply(id)
           p == gas.purse[running]
<1>1. p \in Ids /\ gas.value[p] \in Nat /\ Limit(gas, running) = gas.value[p]
  BY RunningFacts
<1>2. CASE deposit = None
  <2>1. Grown(gas, {}, m)  BY GrownNothing
  <2>2. WithDeposit(id, deposit) = gas /\ Deposited(deposit) = 0  BY <1>2 DEF WithDeposit, Deposited
  <2>3. gas.value[p] = gas.value[p] - 0  BY SMTT(90), <1>1
  <2> WITNESS {} \in {{}, {Reply(id)}}
  <2> QED  BY <2>1, <2>2, <2>3
<1>3. CASE deposit # None
  <2>0. PICK d \in Nat : d = deposit  BY <1>3, BoundsAssumption DEF Limits
  <2> DEFINE g == CreateDeposit(gas, running, re, d)
             none == {}
  <2>1. WithDeposit(id, deposit) = g /\ Deposited(deposit) = d
    BY <1>3, <2>0 DEF WithDeposit, Deposited
  <2>2. Grown(gas, none, m) /\ re \in {id, Reply(id)} \ none /\ none \cup {re} = {re}
    BY GrownNothing
  <2> HIDE DEF none
  <2>3. /\ gas \in GasRecords /\ running \in DOMAIN gas.purse
        /\ re \in Ids \ DOMAIN gas.purse /\ re # p
    BY SMTT(90), <2>2, GrownFacts
  <2>4. TakesFrom(g, gas, running, re, d) /\ g.deposits = gas.deposits \cup {re}
    BY SMTT(90), <1>1, <2>1, <2>3, CreateDepositIs
  <2> HIDE DEF g
  <2>5. Added(g, gas, none, re, m, d)
    <3>1. gas.deposits \subseteq g.deposits /\ g.deposits \subseteq gas.deposits \cup {re}  BY <2>4
    <3>2. NodeOf(re, none, m)  BY <2>2 DEF NodeOf
    <3> HIDE DEF re
    <3> QED  BY <2>2, <2>4, <3>1, <3>2, GrownByTaking
  <2>6. Grown(g, none \cup {re}, m)  BY <2>5 DEF Added
  <2>7. Grown(g, {re}, m)  BY <2>2, <2>6
  <2> WITNESS {Reply(id)} \in {{}, {Reply(id)}}
  <2> QED  BY <2>1, <2>4, <2>5, <2>7 DEF Added
<1> QED  BY <1>2, <1>3

\* The gas of a program that sends, when the reply deposit has been made: what the
\* message takes along and the rent of its delay are there.
Provided(g, N, m, id, limit, rent) ==
  /\ Grown(g, N, m) /\ g.lock = gas.lock /\ N \subseteq g.deposits
  /\ \A i \in N : g.purse[i] = Reply(id)
  /\ g.value[gas.purse[running]] \in Nat
  /\ Limit(g, running) = g.value[gas.purse[running]]
  /\ (IF limit = None THEN MailboxThreshold ELSE limit) + rent <= g.value[gas.purse[running]]

\* What a program that sends can afford, and the gas with the reply deposit.
LEMMA SendsFacts ==
  ASSUME IInv, NEW m \in Messages, NEW limit \in Limits, NEW deposit \in Limits, NEW rent \in Nat,
         Sends(m, limit, deposit, rent), NEW id, id = <<m, "msg">>
  PROVE  /\ phase = "journal" /\ m \in Messages \ DOMAIN source
         /\ source' = Put(source, m, "program")
         /\ limit # None => limit \in Nat
         /\ MailboxThreshold \in Nat /\ MailboxThreshold > 0
         /\ \E N \in {{}, {Reply(id)}} :
              Provided(WithDeposit(id, deposit), N, m, id, limit, rent)
<1> USE DEF IInv
<1>1. phase = "journal" /\ m \in Messages \ DOMAIN source /\ source' = Put(source, m, "program")
  BY DEF Sends, Journal
<1>2. (limit # None => limit \in Nat) /\ Deposited(deposit) \in Nat
  BY BoundsAssumption DEF Limits, Deposited
<1>3. MailboxThreshold \in Nat /\ MailboxThreshold > 0
  <2>1. (ReserveFor + 1) * MailboxCost \in Nat /\ (ReserveFor + 1) * MailboxCost > 0
    <3>1. (ReserveFor + 1) \in Nat /\ MailboxCost \in Nat /\ 1 <= MailboxCost
      BY SMTT(90), ReserveForAssumption, CostsAssumption
    <3>2. 1 * (ReserveFor + 1) <= MailboxCost * (ReserveFor + 1)  BY SMTT(90), <3>1, TimesMono
    <3>3. MailboxCost * (ReserveFor + 1) = (ReserveFor + 1) * MailboxCost  BY SMTT(90), <3>1
    <3> QED  BY SMTT(90), <3>1, <3>2, <3>3, ReserveForAssumption
  <2> QED  BY SMTT(90), <2>1, CostsAssumption DEF RentFor
<1> DEFINE own == IF limit = None THEN MailboxThreshold ELSE limit
<1>4. own \in Nat  BY <1>2, <1>3
<1>5. own + Deposited(deposit) + rent <= Limit(gas, running)
  BY DEF Sends, IsAffordable, Deposited
<1>6. Limit(gas, running) = gas.value[gas.purse[running]] /\ Limit(gas, running) \in Nat
  BY <1>1, RunningFacts
<1> HIDE DEF own
<1>7. Deposited(deposit) <= Limit(gas, running)  BY SMTT(90), <1>2, <1>4, <1>5, <1>6
<1> DEFINE g == WithDeposit(id, deposit)
<1>8. PICK N \in {{}, {Reply(id)}} :
        /\ Grown(g, N, m) /\ g.lock = gas.lock /\ N \subseteq g.deposits
        /\ g.value[gas.purse[running]] = gas.value[gas.purse[running]] - Deposited(deposit)
        /\ \A i \in N : g.purse[i] = Reply(id)
  BY <1>1, <1>7, WithDepositIs
<1> HIDE DEF g
<1>9. /\ g.value[gas.purse[running]] \in Nat /\ own + rent <= g.value[gas.purse[running]]
  <2>1. PICK a \in Nat, d \in Nat : a = Limit(gas, running) /\ d = Deposited(deposit)
    BY <1>2, <1>6
  <2>2. a - d \in Nat /\ own + rent <= a - d
    <3>1. own + d + rent <= a /\ d <= a  BY <1>5, <1>7, <2>1
    <3> QED  BY ONLY SMTT(90), a \in Nat, d \in Nat, rent \in Nat, <1>4, <3>1
  <2>3. g.value[gas.purse[running]] = a - d  BY <1>6, <1>8, <2>1
  <2> QED  BY <2>2, <2>3
<1>10. Limit(g, running) = g.value[gas.purse[running]]
  BY <1>1, <1>8, RunningFacts DEF Grown, Limit, HasGas
<1>11. Provided(g, N, m, id, limit, rent)  BY <1>8, <1>9, <1>10 DEF Provided, own
<1> QED  BY <1>1, <1>2, <1>3, <1>11 DEF g

\* A message to a program without a delay keeps the invariant.
LEMMA SendToProgramStep ==
  ASSUME IInv, NEW m \in Messages, NEW limit \in Limits, NEW deposit \in Limits,
         SendToProgram(m, limit, deposit)
  PROVE  IInv'
<1> DEFINE id == <<m, "msg">>
           g == WithDeposit(id, deposit)
           p == gas.purse[running]
           r == IF limit = None THEN Split(g, running, id, FALSE)
                ELSE SplitWithValue(g, running, id, limit, FALSE)
           own == IF limit = None THEN MailboxThreshold ELSE limit
<1>1. /\ Sends(m, limit, deposit, 0) /\ gas' = Expect(r, id \notin queue)
      /\ queue' = queue \cup {id} /\ UNCHANGED <<block, pool, running, held, active>>
  BY DEF SendToProgram
<1>i. id = <<m, "msg">> /\ 0 \in Nat  OBVIOUS
<1> HIDE DEF id
<1>2. /\ phase = "journal" /\ m \in Messages \ DOMAIN source
      /\ source' = Put(source, m, "program") /\ (limit # None => limit \in Nat)
  BY <1>1, <1>i, SendsFacts
<1>p. PICK N \in {{}, {Reply(id)}} : Provided(g, N, m, id, limit, 0)
  BY SMTT(90), <1>1, <1>i, SendsFacts
<1> HIDE DEF g
<1>3. /\ Grown(g, N, m) /\ g.lock = gas.lock /\ N \subseteq g.deposits
      /\ g.value[p] \in Nat /\ own + 0 <= g.value[p]
  BY <1>p DEF Provided
<1>4. /\ Unheard(id) /\ id # Reply(id)  BY <1>2, <1>i, Fresh
<1>5. NodeOf(id, N, m) /\ id \in {id, Reply(id)} \ N  BY <1>2, <1>4, <1>i DEF NodeOf
<1>6. Grown(r, N \cup {id}, m) /\ r.lock = g.lock /\ r.deposits = g.deposits
  <2>1. CASE limit = None
    <3>1. r = Split(g, running, id, FALSE)  BY <2>1
    <3> HIDE DEF r
    <3>2. IInv /\ phase = "journal" /\ NodeOf(id, N, m) /\ Grown(g, N, m)  BY <1>2, <1>3, <1>5
    <3>3. Shares(r, g, N, id, m)  BY ONLY <3>1, <3>2, GrownBySplit
    <3> QED  BY <3>3 DEF Shares
  <2>2. CASE limit # None
    <3>1. PICK l \in Nat : l = limit  BY <1>2, <2>2
    <3>2. l <= g.value[p]  BY SMTT(90), <1>3, <2>2, <3>1
    <3>3. r = SplitWithValue(g, running, id, l, FALSE)  BY <2>2, <3>1
    <3> HIDE DEF r
    <3>4. CanTake(id, N, m, g, l)  BY <1>2, <1>3, <1>5, <3>2 DEF CanTake
    <3>5. AddedOnly(SplitWithValue(g, running, id, l, FALSE), g, N, id, m, l)
      BY ONLY IInv, <3>4, SplitWithValueGrown
    <3>6. Added(r, g, N, id, m, l) /\ r.deposits = g.deposits
      BY ONLY <3>3, <3>5 DEF AddedOnly
    <3> QED  BY <3>6 DEF Added
  <2> QED  BY <2>1, <2>2
<1> HIDE DEF r
<1>7. gas' = r
  <2>1. (id \notin queue) = TRUE  BY <1>4 DEF Unheard
  <2>2. gas' = Expect(r, TRUE)  BY <1>1, <2>1
  <2> QED  BY <1>6, <2>2, ExpectTrue DEF Grown
<1>8. Sent(m, "program", id, N \cup {id})
  <2>1. Grown(gas', N \cup {id}, m)  BY <1>6, <1>7
  <2>2. N \cup {id} \subseteq {id, Reply(id)} /\ id \in N \cup {id}  BY <1>3
  <2> QED  BY <1>1, <1>2, <1>4, <2>1, <2>2 DEF Sent, held, id
<1>9. /\ Reply(id) \in (N \cup {id}) \ {id} => Reply(id) \in gas'.deposits
      /\ gas'.lock[id] = gas.lock[id]
  BY <1>3, <1>6, <1>7
<1> QED  BY <1>1, <1>8, <1>9, <1>i, NewInQueue DEF held

\* What a message to a user takes along is there.
LEMMA UserLimitIs ==
  ASSUME NEW g, NEW limit, NEW kept \in Nat, Limit(g, running) \in Nat, MailboxThreshold \in Nat,
         limit # None => limit \in Nat,
         (IF limit = None THEN MailboxThreshold ELSE limit) + kept <= Limit(g, running)
  PROVE  /\ UserLimit(g, limit, kept) \in Nat
         /\ UserLimit(g, limit, kept) + kept <= Limit(g, running)
<1>1. CASE limit # None  BY <1>1 DEF UserLimit
<1>2. CASE limit = None
  <2>1. UserLimit(g, limit, kept) \in {0, MailboxThreshold}  BY <1>2 DEF UserLimit
  <2> QED  BY SMTT(90), <1>2, <2>1
<1> QED  BY <1>1, <1>2

\* The node of the automatic reply, unless there is a deposit for it.
AutoReply(r, g, M, m, re) ==
  /\ Grown(r, M \cup {re}, m) /\ r.lock = g.lock
  /\ \A i \in DOMAIN g.purse : r.purse[i] = g.purse[i]
  /\ \A i \in Ids \ {re, gas.purse[running]} : r.value[i] = g.value[i]

\* The automatic reply has a node, its deposit or a new one without gas.
LEMMA AutoReplyGrown ==
  ASSUME IInv, phase = "journal", NEW m \in Messages \ DOMAIN source, NEW id, id = <<m, "msg">>,
         NEW M, NEW g, Grown(g, M, m), Reply(id) \in M => Reply(id) \in g.deposits
  PROVE  AutoReply(SplitWithValue(g, running, Reply(id), 0, TRUE), g, M, m, Reply(id))
<1> DEFINE re == Reply(id)
           r == SplitWithValue(g, running, re, 0, TRUE)
<1>1. CASE re \in M
  <2>1. r = g  BY <1>1 DEF SplitWithValue, ExistsAndDeposit
  <2>2. M \cup {re} = M  BY <1>1
  <2> HIDE DEF re, r
  <2> QED  BY <2>1, <2>2 DEF AutoReply, re, r
<1>2. CASE re \notin M
  <2>1. re \in {id, Reply(id)} \ M  BY <1>2
  <2>2. g.value[gas.purse[running]] \in Nat  BY SMTT(90), <2>1, GrownFacts
  <2>3. NodeOf(re, M, m)  BY <1>2 DEF NodeOf
  <2> DEFINE zero == 0
  <2>4. CanTake(re, M, m, g, zero)  BY SMTT(90), <2>2, <2>3 DEF CanTake
  <2> HIDE DEF re, zero
  <2>5. AddedOnly(SplitWithValue(g, running, re, zero, TRUE), g, M, re, m, zero)
    BY ONLY IInv, <2>4, SplitReplyGrown
  <2> QED  BY <2>5 DEF AddedOnly, Added, AutoReply, zero, re
<1> QED  BY <1>1, <1>2

\* The mailbox and the stash take a message for which the gas handler did its part.
LEMMA MessageIsSent ==
  ASSUME IInv, NEW m \in Messages \ DOMAIN source, NEW id, id = <<m, "msg">>,
         source' = Put(source, m, "program"), NEW N \in {{}, {Reply(id)}},
         Grown(gas', N \cup {id}, m), UNCHANGED <<block, running, waitlist, active>>
  PROVE  Sent(m, "program", id, N \cup {id})
<1>1. id # Reply(id)  BY Fresh
<1>2. N \cup {id} \subseteq {id, Reply(id)} /\ id \in N \cup {id}  OBVIOUS
<1> QED  BY <1>1, <1>2 DEF Sent

\* A message to a user that can pay for the mailbox is kept there.
LEMMA SendUserKeptStep ==
  ASSUME IInv, phase = "journal", NEW m \in Messages \ DOMAIN source, NEW id, id = <<m, "msg">>,
         source' = Put(source, m, "program"), NEW N \in {{}, {Reply(id)}}, NEW g,
         Grown(g, N, m), g.lock = gas.lock, N \subseteq g.deposits,
         NEW taken \in Nat, taken <= g.value[gas.purse[running]], taken >= MailboxThreshold,
         EnterMailbox(Cut(g, running, id, taken), id, taken,
                      HoldMaximumFor(bn, taken, MailboxCost), pool),
         UNCHANGED <<block, queue, running, waitlist, stash, active>>
  PROVE  IInv'
<1> DEFINE c == Cut(g, running, id, taken)
           M == N \cup {id}
           box == "Mailbox"
           r == LockGas(c, id, box, taken)
           end == HoldMaximumFor(bn, taken, MailboxCost)
<1>1. /\ mailbox' = Put(mailbox, id, [start |-> bn, finish |-> end])
      /\ pool' = pool \cup {Task(end, "RemoveFromMailbox", id)}
      /\ gas' = Expect(r, /\ end > bn /\ id \notin DOMAIN mailbox
                          /\ Task(end, "RemoveFromMailbox", id) \notin pool)
  BY DEF EnterMailbox
<1>2. Unheard(id) /\ id # Reply(id)  BY Fresh
<1>3. NodeOf(id, N, m)  BY <1>2 DEF NodeOf
<1>4. CanTake(id, N, m, g, taken)  BY <1>3 DEF CanTake
<1>5. AddedOnly(c, g, N, id, m, taken)  BY ONLY IInv, <1>4, CutGrown
<1>6. bn \in Nat /\ end \in Nat /\ end > bn /\ (end + ReserveFor - bn) * MailboxCost <= taken
  <2>1. bn \in Nat  BY DEF IInv, Control
  <2>2. RentFor(1, MailboxCost) <= taken /\ MailboxCost \in Nat \ {0}
    <3>1. (ReserveFor + 1) * MailboxCost \in Int  BY SMTT(90), ReserveForAssumption, CostsAssumption
    <3> QED  BY SMTT(90), <3>1, CostsAssumption DEF RentFor
  <2> QED  BY SMTT(90), <2>1, <2>2, MaximumPays
<1> HIDE DEF c, end
<1>7. /\ Grown(c, M, m) /\ c.purse[id] = id /\ c.value[id] = taken /\ c.lock = gas.lock
      /\ c.deposits = g.deposits
  BY <1>5 DEF AddedOnly, Added
<1>8. CanLock(c, M, m, id, box, taken)
  <2>1. taken <= taken  BY ONLY SMTT(90), taken \in Nat
  <2> QED  BY <1>7, <2>1 DEF CanLock, LockIds
<1> HIDE DEF M, box
<1>9. Locked(r, c, M, m, id, box, taken)  BY ONLY IInv, <1>8, GrownByLocking
<1> HIDE DEF r
<1>10. /\ Grown(r, M, m) /\ r.deposits = g.deposits /\ r.lock[id]["Mailbox"] = taken
       /\ r.lock[id]["Waitlist"] = 0 /\ r.lock[id]["DispatchStash"] = 0
  BY <1>7, <1>9 DEF Locked, LockIds, box
<1>11. gas' = r
  <2>1. Task(end, "RemoveFromMailbox", id) \notin pool
    <3>1. Task(end, "RemoveFromMailbox", id).id = id  BY TaskIs
    <3> QED  BY <1>2, <3>1 DEF Unheard
  <2>2. (/\ end > bn /\ id \notin DOMAIN mailbox
         /\ Task(end, "RemoveFromMailbox", id) \notin pool) = TRUE
    BY <1>2, <1>6, <2>1 DEF Unheard
  <2>3. gas' = Expect(r, TRUE)  BY <1>1, <2>2
  <2> QED  BY <1>10, <2>3, ExpectTrue DEF Grown
<1>12. Sent(m, "program", id, M)  BY <1>10, <1>11, MessageIsSent DEF M
<1>13. Reply(id) \in M => Reply(id) \in gas'.deposits  BY <1>2, <1>10, <1>11 DEF M
<1> QED  BY <1>1, <1>6, <1>10, <1>11, <1>12, <1>13, NewInMailbox

\* A message to a user that cannot pay for the mailbox is answered at once.
LEMMA SendUserAnsweredStep ==
  ASSUME IInv, phase = "journal", NEW m \in Messages \ DOMAIN source, NEW id, id = <<m, "msg">>,
         source' = Put(source, m, "program"), NEW N \in {{}, {Reply(id)}}, NEW g,
         Grown(g, N, m), g.lock = gas.lock, N \subseteq g.deposits,
         gas' = Expect(SplitWithValue(g, running, Reply(id), 0, TRUE), Reply(id) \notin queue),
         queue' = queue \cup {Reply(id)},
         UNCHANGED <<block, pool, running, waitlist, mailbox, stash, active>>
  PROVE  IInv'
<1> DEFINE re == Reply(id)
           r == SplitWithValue(g, running, Reply(id), 0, TRUE)
<1>1. Unheard(id) /\ Unheard(re) /\ id # re  BY Fresh
<1>2. AutoReply(r, g, N, m, re)
  <2>1. re \in N => re \in g.deposits  OBVIOUS
  <2> QED  BY <2>1, AutoReplyGrown
<1> HIDE DEF r
<1>3. N \cup {re} = {re}  OBVIOUS
<1>4. Grown(r, {re}, m) /\ r.lock = gas.lock  BY <1>2, <1>3 DEF AutoReply
<1>5. gas' = r
  <2>1. (re \notin queue) = TRUE  BY <1>1 DEF Unheard
  <2>2. gas' = Expect(r, TRUE)  BY <2>1 DEF r
  <2> QED  BY <1>4, <2>2, ExpectTrue DEF Grown
<1>6. Sent(m, "program", re, {re})  BY <1>1, <1>4, <1>5 DEF Sent
<1>7. (Reply(id) \in {re} \ {re} => Reply(id) \in gas'.deposits) /\ gas'.lock[id] = gas.lock[id]
  BY <1>4, <1>5
<1>8. queue' = queue \cup {re}  OBVIOUS
<1>9. UNCHANGED <<pool, mailbox, stash>>  OBVIOUS
<1> HIDE DEF re
<1> QED  BY ONLY IInv, id = <<m, "msg">>, <1>6, <1>7, <1>8, <1>9, NewInQueue

\* A program sends to a user: what can pay for the mailbox is kept there, the rest is
\* answered at once.
LEMMA SendUserStep ==
  ASSUME IInv, NEW m \in Messages, NEW limit \in Limits, NEW deposit \in Limits,
         SendUserMessage(m, limit, deposit)
  PROVE  IInv'
<1> DEFINE id == <<m, "msg">>
           g == WithDeposit(id, deposit)
           taken == UserLimit(g, limit, 0)
           own == IF limit = None THEN MailboxThreshold ELSE limit
<1>1. /\ Sends(m, limit, deposit, 0)
      /\ IF taken >= MailboxThreshold
         THEN /\ EnterMailbox(Cut(g, running, id, taken), id, taken,
                              HoldMaximumFor(bn, taken, MailboxCost), pool)
              /\ queue' = queue
         ELSE /\ gas' = Expect(SplitWithValue(g, running, Reply(id), 0, TRUE), Reply(id) \notin queue)
              /\ queue' = queue \cup {Reply(id)} /\ UNCHANGED <<mailbox, pool>>
      /\ UNCHANGED <<block, running, waitlist, stash, active>>
  BY DEF SendUserMessage
<1>i. id = <<m, "msg">> /\ 0 \in Nat  OBVIOUS
<1> HIDE DEF id
<1>2. /\ phase = "journal" /\ m \in Messages \ DOMAIN source
      /\ source' = Put(source, m, "program") /\ (limit # None => limit \in Nat)
      /\ MailboxThreshold \in Nat
  BY <1>1, <1>i, SendsFacts
<1>p. PICK N \in {{}, {Reply(id)}} : Provided(g, N, m, id, limit, 0)
  BY SMTT(90), <1>1, <1>i, SendsFacts
<1> HIDE DEF g
<1>3. /\ Grown(g, N, m) /\ g.lock = gas.lock /\ N \subseteq g.deposits
      /\ g.value[gas.purse[running]] \in Nat /\ Limit(g, running) = g.value[gas.purse[running]]
      /\ own + 0 <= g.value[gas.purse[running]]
  BY <1>p DEF Provided
<1>4. taken \in Nat /\ taken <= g.value[gas.purse[running]]
  <2>1. taken \in Nat /\ taken + 0 <= Limit(g, running)  BY <1>2, <1>3, <1>i, UserLimitIs
  <2>2. PICK a \in Nat : a = Limit(g, running)  BY <1>3
  <2>3. taken + 0 <= a  BY <2>1, <2>2
  <2>4. taken <= a  BY ONLY SMTT(90), a \in Nat, <2>1, <2>3
  <2> QED  BY <1>3, <2>1, <2>2, <2>4
<1> HIDE DEF taken
<1>5. CASE taken >= MailboxThreshold
  BY <1>1, <1>2, <1>3, <1>4, <1>5, <1>i, SendUserKeptStep
<1>6. CASE ~(taken >= MailboxThreshold)
  BY <1>1, <1>2, <1>3, <1>6, <1>i, SendUserAnsweredStep
<1> QED  BY <1>5, <1>6

\* A message enters the stash with the rent of its delay locked.
LEMMA EnterStashStep ==
  ASSUME IInv, NEW m \in Messages \ DOMAIN source, NEW id, id = <<m, "msg">>,
         source' = Put(source, m, "program"), NEW M, NEW c, Grown(c, M, m), c.lock = gas.lock,
         M \subseteq {id, Reply(id)}, id \in M,
         NEW delay \in Delays, NEW rent \in Nat, rent = RentFor(delay, StashCost),
         rent <= c.value[c.purse[id]], NEW kind \in StashKinds,
         Reply(id) \in M => Reply(id) \in c.deposits \/ kind = "SendUserMessage",
         kind = "SendUserMessage" => Reply(id) \in M,
         kind = "SendUserMessageToMailbox" =>
           /\ c.purse[id] = id /\ c.value[id] - rent >= MailboxThreshold
           /\ \A j \in DOMAIN c.purse \ {id} : c.purse[j] # id,
         EnterStash(c, id, delay, rent, kind)
  PROVE  IInv'
<1> DEFINE lock == "DispatchStash"
           r == LockGas(c, id, lock, rent)
           end == HoldDuration(bn, delay)
<1>0. end = bn + delay /\ bn \in Nat /\ delay \in Nat /\ delay > 0
  <2>1. bn \in Nat  BY DEF IInv, Control
  <2> QED  BY SMTT(90), <2>1, BoundsAssumption DEF HoldDuration
<1>1. /\ stash' = Put(stash, id, [start |-> bn, finish |-> end])
      /\ pool' = pool \cup {Task(end, kind, id)}
      /\ gas' = Expect(r, id \notin DOMAIN stash /\ end > bn /\ Task(end, kind, id) \notin pool)
      /\ UNCHANGED <<block, queue, running, waitlist, mailbox, active>>
  BY <1>0 DEF EnterStash
<1>2. Unheard(id) /\ id # Reply(id)  BY Fresh
<1>3. end \in Nat /\ end > bn  BY SMTT(90), <1>0
<1>4. (end + ReserveFor - bn) * StashCost <= rent
  <2>1. (end + ReserveFor - bn) * StashCost = rent  BY SMTT(90), <1>0, DelayRent, CostsAssumption
  <2> QED  BY SMTT(90), <2>1
<1> HIDE DEF end
<1>5. CanLock(c, M, m, id, lock, rent)  BY DEF CanLock, LockIds
<1> HIDE DEF lock
<1>6. Locked(r, c, M, m, id, lock, rent)  BY ONLY IInv, <1>5, GrownByLocking
<1> HIDE DEF r
<1>7. /\ Grown(r, M, m) /\ r.deposits = c.deposits /\ r.purse = c.purse
      /\ r.value[c.purse[id]] = c.value[c.purse[id]] - rent
      /\ r.lock[id]["DispatchStash"] = rent
      /\ r.lock[id]["Waitlist"] = 0 /\ r.lock[id]["Mailbox"] = 0
  BY <1>6 DEF Locked, LockIds, lock
<1>8. gas' = r
  <2>1. Task(end, kind, id) \notin pool
    <3>1. Task(end, kind, id).id = id  BY TaskIs
    <3> QED  BY <1>2, <3>1 DEF Unheard
  <2>2. (id \notin DOMAIN stash /\ end > bn /\ Task(end, kind, id) \notin pool) = TRUE
    BY <1>2, <1>3, <2>1 DEF Unheard
  <2>3. gas' = Expect(r, TRUE)  BY <1>1, <2>2
  <2> QED  BY <1>7, <2>3, ExpectTrue DEF Grown
<1>9. Sent(m, "program", id, M)  BY <1>1, <1>2, <1>7, <1>8 DEF Sent
<1>10. kind = "SendUserMessageToMailbox" =>
         /\ gas'.purse[id] = id /\ gas'.value[id] >= MailboxThreshold
         /\ \A j \in DOMAIN gas'.purse \ {id} : gas'.purse[j] # id
  BY <1>7, <1>8
<1>11. /\ Reply(id) \in M => Reply(id) \in gas'.deposits \/ kind = "SendUserMessage"
       /\ (end + ReserveFor - bn) * StashCost <= gas'.lock[id]["DispatchStash"]
       /\ gas'.lock[id]["Waitlist"] = 0 /\ gas'.lock[id]["Mailbox"] = 0
  BY <1>4, <1>7, <1>8
<1> QED  BY <1>1, <1>3, <1>9, <1>10, <1>11, NewInStash

\* A delayed message to a program enters the stash, and the rent is reserved.
LEMMA SendDelayedToProgramStep ==
  ASSUME IInv, NEW m \in Messages, NEW limit \in Limits, NEW deposit \in Limits,
         NEW delay \in Delays, SendDelayedToProgram(m, limit, deposit, delay)
  PROVE  IInv'
<1> DEFINE id == <<m, "msg">>
           rent == RentFor(delay, StashCost)
           g == WithDeposit(id, deposit)
           p == gas.purse[running]
           c == IF limit = None THEN Split(g, running, id, FALSE)
                ELSE SplitWithValue(g, running, id, limit + rent, FALSE)
           own == IF limit = None THEN MailboxThreshold ELSE limit
<1>0. rent \in Nat /\ LockAmount(bn, HoldDuration(bn, delay), StashCost) = rent
  <2>1. bn \in Nat  BY DEF IInv, Control
  <2>2. delay \in Nat /\ StashCost \in Nat  BY BoundsAssumption, CostsAssumption
  <2> QED  BY ONLY <2>1, <2>2, DelayRent
<1>1. Sends(m, limit, deposit, rent) /\ EnterStash(c, id, delay, rent, "SendDispatch")
  BY <1>0 DEF SendDelayedToProgram
<1>i. id = <<m, "msg">> /\ rent = RentFor(delay, StashCost)  OBVIOUS
<1> HIDE DEF id, rent
<1>2. /\ phase = "journal" /\ m \in Messages \ DOMAIN source
      /\ source' = Put(source, m, "program") /\ (limit # None => limit \in Nat)
      /\ MailboxThreshold \in Nat
  BY <1>0, <1>1, <1>i, SendsFacts
<1>p. PICK N \in {{}, {Reply(id)}} : Provided(g, N, m, id, limit, rent)
  BY SMTT(90), <1>0, <1>1, <1>i, SendsFacts
<1> HIDE DEF g
<1>3. /\ Grown(g, N, m) /\ g.lock = gas.lock /\ N \subseteq g.deposits
      /\ g.value[p] \in Nat /\ own + rent <= g.value[p]
  BY <1>p DEF Provided
<1>4. Unheard(id) /\ id # Reply(id)  BY <1>2, <1>i, Fresh
<1>5. NodeOf(id, N, m)  BY <1>2, <1>3, <1>4, <1>i DEF NodeOf
<1> DEFINE M == N \cup {id}
<1>6. /\ Grown(c, M, m) /\ c.lock = g.lock /\ c.deposits = g.deposits
      /\ rent <= c.value[c.purse[id]]
  <2>1. CASE limit = None
    <3>1. c = Split(g, running, id, FALSE)  BY <2>1
    <3> HIDE DEF c, M
    <3>2. IInv /\ phase = "journal" /\ NodeOf(id, N, m) /\ Grown(g, N, m)  BY <1>2, <1>3, <1>5
    <3>3. Shares(c, g, N, id, m)  BY ONLY <3>1, <3>2, GrownBySplit
    <3>4. rent <= g.value[p]  BY SMTT(90), <1>0, <1>2, <1>3, <2>1
    <3> QED  BY <3>3, <3>4 DEF Shares, M
  <2>2. CASE limit # None
    <3>1. PICK l \in Nat : l = limit + rent  BY SMTT(90), <1>0, <1>2, <2>2
    <3>2. l <= g.value[p] /\ rent <= l  BY SMTT(90), <1>0, <1>2, <1>3, <2>2, <3>1
    <3>3. c = SplitWithValue(g, running, id, l, FALSE)  BY <2>2, <3>1
    <3> HIDE DEF c, M
    <3>4. CanTake(id, N, m, g, l)  BY <1>2, <1>3, <1>5, <3>2 DEF CanTake
    <3>5. AddedOnly(SplitWithValue(g, running, id, l, FALSE), g, N, id, m, l)
      BY ONLY IInv, <3>4, SplitWithValueGrown
    <3>6. Added(c, g, N, id, m, l) /\ c.deposits = g.deposits
      BY ONLY <3>3, <3>5 DEF AddedOnly
    <3> QED  BY <3>2, <3>6 DEF Added, M
  <2> QED  BY <2>1, <2>2
<1> HIDE DEF c
<1>7. /\ M \subseteq {id, Reply(id)} /\ id \in M
      /\ Reply(id) \in M => Reply(id) \in c.deposits
  BY <1>3, <1>4, <1>6
<1>8. c.lock = gas.lock  BY <1>3, <1>6
<1> DEFINE kind == "SendDispatch"
<1>9. /\ kind \in StashKinds /\ kind # "SendUserMessage" /\ kind # "SendUserMessageToMailbox"
      /\ EnterStash(c, id, delay, rent, kind)
  BY <1>1 DEF StashKinds
<1> HIDE DEF M, kind
<1> QED  BY <1>0, <1>2, <1>6, <1>7, <1>8, <1>9, <1>i, EnterStashStep

\* A delayed message to a user enters the stash, with the gas for the mailbox or with
\* the node of the automatic reply.
LEMMA SendDelayedToUserStep ==
  ASSUME IInv, NEW m \in Messages, NEW limit \in Limits, NEW deposit \in Limits,
         NEW delay \in Delays, SendDelayedToUser(m, limit, deposit, delay)
  PROVE  IInv'
<1> DEFINE id == <<m, "msg">>
           rent == RentFor(delay, StashCost)
           g == WithDeposit(id, deposit)
           p == gas.purse[running]
           taken == UserLimit(g, limit, rent)
           own == IF limit = None THEN MailboxThreshold ELSE limit
           c == Cut(g, running, id, rent)
           d == SplitWithValue(c, running, Reply(id), 0, TRUE)
<1>0. rent \in Nat /\ LockAmount(bn, HoldDuration(bn, delay), StashCost) = rent
  <2>1. bn \in Nat  BY DEF IInv, Control
  <2>2. delay \in Nat /\ StashCost \in Nat  BY BoundsAssumption, CostsAssumption
  <2> QED  BY ONLY <2>1, <2>2, DelayRent
<1>1. /\ Sends(m, limit, deposit, rent)
      /\ IF taken >= MailboxThreshold
         THEN EnterStash(Cut(g, running, id, rent + taken), id, delay, rent,
                         "SendUserMessageToMailbox")
         ELSE EnterStash(d, id, delay, rent, "SendUserMessage")
  BY <1>0 DEF SendDelayedToUser
<1>i. id = <<m, "msg">> /\ rent = RentFor(delay, StashCost)  OBVIOUS
<1> HIDE DEF id, rent
<1>2. /\ phase = "journal" /\ m \in Messages \ DOMAIN source
      /\ source' = Put(source, m, "program") /\ (limit # None => limit \in Nat)
      /\ MailboxThreshold \in Nat
  BY <1>0, <1>1, <1>i, SendsFacts
<1>p. PICK N \in {{}, {Reply(id)}} : Provided(g, N, m, id, limit, rent)
  BY SMTT(90), <1>0, <1>1, <1>i, SendsFacts
<1> HIDE DEF g
<1>3. /\ Grown(g, N, m) /\ g.lock = gas.lock /\ N \subseteq g.deposits
      /\ \A i \in N : g.purse[i] = Reply(id)
      /\ g.value[p] \in Nat /\ Limit(g, running) = g.value[p] /\ own + rent <= g.value[p]
  BY <1>p DEF Provided
<1>4. taken \in Nat /\ taken + rent <= g.value[p]
  <2>1. taken \in Nat /\ taken + rent <= Limit(g, running)  BY <1>0, <1>2, <1>3, UserLimitIs
  <2> QED  BY <1>3, <2>1
<1> HIDE DEF taken
<1>5. Unheard(id) /\ id # Reply(id) /\ id \in Ids  BY <1>2, <1>i, Fresh DEF Unheard
<1>6. NodeOf(id, N, m)  BY <1>2, <1>3, <1>5, <1>i DEF NodeOf
<1> DEFINE M == N \cup {id}
<1>7. M \subseteq {id, Reply(id)} /\ id \in M  BY <1>3
<1>8. CASE taken >= MailboxThreshold
  <2>1. PICK l \in Nat : l = rent + taken  BY SMTT(90), <1>0, <1>4
  <2> DEFINE e == Cut(g, running, id, l)
             kind == "SendUserMessageToMailbox"
  <2>2. CanTake(id, N, m, g, l)
    <3>1. l <= g.value[p]
      <4>1. l = taken + rent  BY ONLY SMTT(90), <1>0, <1>4, <2>1
      <4> QED  BY <1>4, <4>1
    <3> QED  BY <1>2, <1>3, <1>6, <3>1 DEF CanTake
  <2>3. AddedOnly(e, g, N, id, m, l)  BY ONLY IInv, <2>2, CutGrown
  <2>4. EnterStash(e, id, delay, rent, kind)  BY <1>1, <1>8, <2>1
  <2> HIDE DEF e
  <2>5. /\ Grown(e, M, m) /\ e.lock = gas.lock /\ e.deposits = g.deposits
        /\ e.purse[id] = id /\ e.value[id] = l
        /\ \A i \in DOMAIN g.purse : e.purse[i] = g.purse[i]
    BY <1>3, <2>3 DEF AddedOnly, Added
  <2>6. rent <= e.value[e.purse[id]] /\ e.value[id] - rent >= MailboxThreshold
    BY SMTT(90), <1>0, <1>2, <1>4, <1>8, <2>1, <2>5
  <2>7. ASSUME NEW j \in DOMAIN e.purse \ {id} PROVE e.purse[j] # id
    <3>1. CASE j \in DOMAIN gas.purse  BY <1>5, <2>5, <3>1 DEF Unheard, Grown
    <3>2. CASE j \in N
      <4>1. j \in DOMAIN g.purse  BY <1>3, <3>2 DEF Grown
      <4> QED  BY <1>3, <1>5, <2>5, <3>2, <4>1
    <3> QED  BY <2>5, <3>1, <3>2 DEF Grown
  <2>8. Reply(id) \in M => Reply(id) \in e.deposits  BY <1>3, <1>5, <2>5
  <2>9. kind \in StashKinds /\ kind # "SendUserMessage"  BY DEF StashKinds
  <2> HIDE DEF M, kind
  <2> QED  BY <1>0, <1>2, <1>7, <1>i, <2>4, <2>5, <2>6, <2>7, <2>8, <2>9, EnterStashStep
<1>9. CASE ~(taken >= MailboxThreshold)
  <2>1. CanTake(id, N, m, g, rent)
    <3>1. rent <= g.value[p]
      <4>1. PICK a \in Nat : a = g.value[p]  BY <1>3
      <4>2. taken + rent <= a  BY <1>4, <4>1
      <4>3. rent <= a  BY ONLY SMTT(90), a \in Nat, <1>0, <1>4, <4>2
      <4> QED  BY <4>1, <4>3
    <3> QED  BY <1>0, <1>2, <1>3, <1>6, <3>1 DEF CanTake
  <2>2. AddedOnly(c, g, N, id, m, rent)  BY ONLY IInv, <2>1, CutGrown
  <2>3. EnterStash(d, id, delay, rent, "SendUserMessage")  BY <1>1, <1>9
  <2> HIDE DEF c
  <2>4. /\ Grown(c, M, m) /\ c.lock = gas.lock /\ c.deposits = g.deposits
        /\ c.purse[id] = id /\ c.value[id] = rent
    BY <1>3, <2>2 DEF AddedOnly, Added
  <2>5. Reply(id) \in M => Reply(id) \in c.deposits  BY <1>3, <1>5, <2>4
  <2> HIDE DEF M
  <2>6. AutoReply(d, c, M, m, Reply(id))
    BY <1>2, <1>i, <2>4, <2>5, AutoReplyGrown
  <2> DEFINE R == M \cup {Reply(id)}
             kind == "SendUserMessage"
  <2> HIDE DEF d
  <2>7. id # p  BY <1>2, <1>5, RunningFacts DEF Unheard
  <2>8. /\ Grown(d, R, m) /\ d.lock = gas.lock /\ d.purse[id] = id /\ d.value[id] = rent
    BY <1>5, <1>7, <2>4, <2>6, <2>7 DEF AutoReply, Grown
  <2>9. rent <= d.value[d.purse[id]]  BY SMTT(90), <1>0, <2>8
  <2>10. /\ R \subseteq {id, Reply(id)} /\ id \in R /\ Reply(id) \in R
         /\ kind \in StashKinds /\ kind = "SendUserMessage" /\ kind # "SendUserMessageToMailbox"
         /\ EnterStash(d, id, delay, rent, kind)
    BY <1>7, <2>3 DEF StashKinds
  <2> HIDE DEF R, kind
  <2> QED  BY <1>0, <1>2, <1>i, <2>8, <2>9, <2>10, EnterStashStep
<1> QED  BY <1>8, <1>9

-----------------------------------------------------------------------------
(* The invariant is inductive. *)

\* No task finds its message gone: each arm of process_tasks.
LEMMA ProcessTaskStep ==
  ASSUME IInv, NEW task \in pool, ProcessTask(task)
  PROVE  IInv'
<1>1. task.kind \in Kinds  BY DEF IInv, Types, Tasks
<1>2. CASE task.kind = "RemoveFromMailbox"
  BY <1>2, RemoveFromMailboxStep DEF ProcessTask
<1>3. CASE task.kind = "RemoveFromWaitlist"
  <2>1. RemoveFromWaitlist(task.id, task)  BY <1>3 DEF ProcessTask
  <2> QED  BY <1>3, <2>1, RemoveFromWaitlistStep
<1>4. CASE task.kind = "WakeMessage"
  <2>1. WakeMessage(task.id, task)  BY <1>4 DEF ProcessTask
  <2> QED  BY <1>4, <2>1, WakeMessageStep
<1>5. CASE task.kind = "SendDispatch"
  <2>1. SendDispatchTask(task.id, task)  BY <1>5 DEF ProcessTask
  <2> QED  BY <1>5, <2>1, SendDispatchStep
<1>6. CASE task.kind = "SendUserMessage"
  <2>1. SendUserMessageTask(task.id, task)  BY <1>6 DEF ProcessTask
  <2> QED  BY <1>6, <2>1, SendUserMessageStep
<1>7. CASE task.kind = "SendUserMessageToMailbox"
  <2>1. SendUserMessageTask(task.id, task)  BY <1>7 DEF ProcessTask
  <2> QED  BY <1>7, <2>1, ToMailboxStep
<1> QED  BY <1>1, <1>2, <1>3, <1>4, <1>5, <1>6, <1>7 DEF Kinds

\* Every kind of send_dispatch keeps the invariant.
LEMMA SendSteps ==
  ASSUME IInv, Send
  PROVE  IInv'
<1>1. ASSUME NEW m \in Messages, NEW limit \in Limits, NEW deposit \in Limits,
             SendToProgram(m, limit, deposit) \/ SendUserMessage(m, limit, deposit)
      PROVE  IInv'
  BY <1>1, SendToProgramStep, SendUserStep
<1>2. ASSUME NEW m \in Messages, NEW limit \in Limits, NEW deposit \in Limits, NEW delay \in Delays,
             \/ SendDelayedToProgram(m, limit, deposit, delay)
             \/ SendDelayedToUser(m, limit, deposit, delay)
      PROVE  IInv'
  BY <1>2, SendDelayedToProgramStep, SendDelayedToUserStep
<1> QED  BY <1>1, <1>2 DEF Send

\* A program wakes a message of its own, or exits and all its messages are woken.
LEMMA WakeSteps ==
  ASSUME IInv, NEW id \in DOMAIN waitlist, WakeNow(id) \/ ExitDrain(id)
  PROVE  IInv'
<1>1. /\ LeaveWaitlist(id, None) /\ gas' = Expect(GasAfterWake(id), id \notin queue)
      /\ queue' = queue \cup {id} /\ UNCHANGED <<block, running, mailbox, stash, source, active>>
  BY DEF WakeNow, ExitDrain
<1> QED  BY <1>1, Woken

\* Every note of the journal keeps the invariant.
LEMMA ExecutionSteps ==
  ASSUME IInv, Execution
  PROVE  IInv'
<1>1. CASE StopProcessing  BY <1>1, StopProcessingStep
<1>2. CASE \E amount \in Burns : GasBurned(amount)  BY <1>2, GasBurnedStep
<1>3. CASE Send  BY <1>3, SendSteps
<1>4. CASE \E id \in DOMAIN waitlist : WakeNow(id) \/ ExitDrain(id)  BY <1>4, WakeSteps
<1>5. CASE \E id \in DOMAIN waitlist, delay \in Delays : WakeLater(id, delay)
  BY <1>5, WakeLaterStep
<1>6. CASE Wait \/ (\E d \in Delays : WaitFor(d)) \/ (\E d \in Delays : WaitUpTo(d))
  BY <1>6, WaitSteps
<1>7. CASE MessageConsumed
  <2>1. active \in BOOLEAN  BY DEF IInv, Types
  <2> QED  BY <1>7, <2>1, HandledStep DEF MessageConsumed
<1>8. CASE ExitDispatch  BY <1>8, BlockSteps DEF BlockStep
<1>9. CASE Exited  BY <1>9, HandledStep DEF Exited
<1> QED  BY <1>1, <1>2, <1>3, <1>4, <1>5, <1>6, <1>7, <1>8, <1>9 DEF Execution

\* Every step keeps the invariant.
LEMMA StepKeepsIInv ==
  ASSUME IInv, [Next]_vars
  PROVE  IInv'
<1>1. CASE UNCHANGED vars
  <2>1. Control' /\ Types' /\ Places'
    BY <1>1 DEF vars, block, held, IInv, Control, Types, Places
  <2>2. Known' /\ ReplyFollows' /\ FromProgram' /\ NoUnreachable'
    BY <1>1 DEF vars, block, held, IInv, Known, ReplyFollows, FromProgram, NoUnreachable, Stored
  <2>3. ReplyNodes' /\ LocksAreHolds' /\ OneStashTask'
    BY <1>1 DEF vars, block, held, IInv, ReplyNodes, SentUser, LocksAreHolds, OneStashTask, Stored
  <2>4. Paid'  BY <1>1 DEF vars, block, held, IInv, Paid
  <2>5. ForMailbox'  BY <1>1 DEF vars, block, held, IInv, ForMailbox, Stored
  <2>6. Owned'  BY <1>1 DEF vars, block, held, IInv, Owned, Stored
  <2>7. Scheduled'  BY <1>1 DEF vars, block, held, IInv, Scheduled, Stored
  <2> QED  BY <2>1, <2>2, <2>3, <2>4, <2>5, <2>6, <2>7 DEF IInv
<1>2. CASE OnInitialize \/ OnFinalize \/ Run \/ TasksNextBlock \/ TasksStop \/ EndOfQueue
  BY <1>2, BlockSteps DEF BlockStep
<1>3. CASE Extrinsic
  <2>1. CASE \E value \in BOOLEAN : SetExecuteInherent(value)  BY <2>1, BlockSteps DEF BlockStep
  <2>2. CASE \E m \in Messages, limit \in GasLimits : SendMessage(m, limit)
    BY <2>2, SendMessageStep
  <2>3. CASE \E id \in DOMAIN mailbox : ClaimValue(id)  BY <2>3, ClaimValueStep
  <2>4. CASE \E id \in DOMAIN mailbox, limit \in GasLimits : SendReply(id, limit)
    BY <2>4, SendReplyStep
  <2> QED  BY <1>3, <2>1, <2>2, <2>3, <2>4 DEF Extrinsic
<1>4. CASE \E task \in pool : ProcessTask(task)  BY <1>4, ProcessTaskStep
<1>5. CASE \E id \in queue : Dequeue(id)  BY <1>5, DequeueStep
<1>6. CASE Execution  BY <1>6, ExecutionSteps
<1>7. CASE Over  BY <1>1, <1>7 DEF Over
<1> QED  BY <1>1, <1>2, <1>3, <1>4, <1>5, <1>6, <1>7 DEF Next

\* The invariant holds at genesis.
LEMMA InitIInv ==
  ASSUME Init
  PROVE  IInv
<1> USE DEF Init
<1>1. DOMAIN waitlist = {} /\ DOMAIN mailbox = {} /\ DOMAIN stash = {} /\ DOMAIN source = {}
  BY SMTT(90)
<1>2. waitlist \in [{} -> [start : Nat, finish : Nat]] /\ source \in [{} -> {"user", "program"}]
  BY SMTT(90), <1>1
<1>3. waitlist \in Holds /\ mailbox \in Holds /\ stash \in Holds
  <2>1. {} \in SUBSET Ids /\ mailbox = waitlist /\ stash = waitlist  OBVIOUS
  <2> QED  BY <1>2, <2>1, Zenon DEF Holds
<1>4. source \in UNION {[D -> {"user", "program"}] : D \in SUBSET Messages}
  <2>1. {} \in SUBSET Messages  OBVIOUS
  <2> QED  BY <1>2, <2>1, Zenon
<1>5. gas.purse = <<>> /\ DOMAIN gas.purse = {} /\ gas.deposits = {} /\ gas.ok = TRUE
  BY SMTT(90)
<1>6. gas \in GasRecords
  <2>1. gas.purse \in [{} -> Ids]  BY SMTT(90), <1>5
  <2>2. {} \in SUBSET Ids  OBVIOUS
  <2>3. gas.purse \in Purses  BY <2>1, <2>2, Zenon DEF Purses
  <2>4. gas.line \in [Ids -> Seq(Ids)]
    <3> DEFINE none == <<>>
    <3>1. none \in Seq(Ids) /\ gas.line = [i \in Ids |-> none]  BY SMTT(90)
    <3> HIDE DEF none
    <3> QED  BY ONLY <3>1
  <2>5. gas.value \in [Ids -> Nat] /\ gas.lock \in [Ids -> [LockIds -> Nat]]
    OBVIOUS
  <2>6. gas = [purse |-> gas.purse, value |-> gas.value, line |-> gas.line, lock |-> gas.lock,
               deposits |-> gas.deposits, ok |-> gas.ok]
    OBVIOUS
  <2> HIDE DEF Init
  <2> QED  BY <1>5, <2>3, <2>4, <2>5, <2>6 DEF GasRecords
<1>7. \A i \in Ids : \A l \in LockIds : gas.lock[i][l] = 0  OBVIOUS
<1>8. Stored = {}  BY <1>1 DEF Stored
<1>9. SentUser = {}  BY DEF SentUser
<1>10. Control /\ Types  BY <1>3, <1>4, <1>6 DEF Control, Types, Phases
<1>11. Places /\ Known /\ ReplyFollows /\ FromProgram
  BY <1>1, <1>5, <1>8 DEF Places, Known, ReplyFollows, FromProgram
<1>12. ReplyNodes /\ Owned  BY <1>5, <1>8, <1>9 DEF ReplyNodes, Owned
<1>13. LocksAreHolds  BY <1>7 DEF LocksAreHolds, LockIds
<1>14. OneStashTask /\ Paid /\ ForMailbox /\ Scheduled /\ NoUnreachable
  BY <1>1, <1>5 DEF OneStashTask, Paid, ForMailbox, Scheduled, NoUnreachable
<1> QED  BY <1>10, <1>11, <1>12, <1>13, <1>14 DEF IInv

\* The invariant of the blocks, the pool, the storages and the gas holds in every state.
THEOREM IInvHolds == Spec => []IInv
<1>1. Init => IInv  BY InitIInv
<1>2. IInv /\ [Next]_vars => IInv'  BY StepKeepsIInv
<1> QED  BY <1>1, <1>2, PTL DEF Spec

\* No handler of pallet-gear reaches code marked unreachable, whatever the costs, the
\* limits and the delays: each task finds its message, no message or task is stored
\* twice, no hold is empty, and the gas handler refuses nothing.
THEOREM NoUnreachableHolds == Spec => []NoUnreachable
<1>1. IInv => NoUnreachable  BY DEF IInv
<1> QED  BY <1>1, IInvHolds, PTL

\* A message is in one of the queue, the execution, the waitlist, the mailbox and the
\* stash, never in two of them.
THEOREM OnePlaceHolds == Spec => []OnePlace
<1>1. IInv => OnePlace
  <2> SUFFICES ASSUME IInv PROVE OnePlace  OBVIOUS
  <2> DEFINE places == <<queue, {running} \ {None}, DOMAIN waitlist, DOMAIN mailbox, DOMAIN stash>>
  <2>1. DOMAIN places = 1..5  BY SMTT(90)
  <2>2. /\ places[1] = queue /\ places[2] = {running} \ {None} /\ places[3] = DOMAIN waitlist
        /\ places[4] = DOMAIN mailbox /\ places[5] = DOMAIN stash
    OBVIOUS
  <2> HIDE DEF places
  <2>3. ASSUME NEW i \in 1..5, NEW j \in 1..5, i # j PROVE places[i] \cap places[j] = {}
    BY SMTT(90), <2>2, <2>3 DEF IInv, Places
  <2> QED  BY <2>1, <2>3 DEF OnePlace, places
<1> QED  BY <1>1, IInvHolds, PTL

\* Whatever is stored has a gas node, and while the program is active each node belongs
\* to a stored message or was made for the reply to one.
THEOREM GasHasOwnerHolds == Spec => []GasHasOwner
<1>1. IInv => GasHasOwner  BY DEF IInv, Owned, GasHasOwner, Msg
<1> QED  BY <1>1, IInvHolds, PTL

\* Each hold of the waitlist, the mailbox and the stash has its task in the pool, and no
\* task but a wake-up outlives its hold.
THEOREM HoldsAreScheduledHolds == Spec => []HoldsAreScheduled
<1>1. IInv => HoldsAreScheduled
  <2> SUFFICES ASSUME IInv PROVE HoldsAreScheduled  OBVIOUS
  <2>1. Scheduled /\ \A t \in pool : t.kind \in Kinds  BY DEF IInv, Types, Tasks
  <2>2. ASSUME NEW t \in pool
        PROVE  CASE t.kind = "RemoveFromWaitlist" ->
                      t.id \in DOMAIN waitlist /\ waitlist[t.id].finish = t.at
                 [] t.kind = "RemoveFromMailbox" ->
                      t.id \in DOMAIN mailbox /\ mailbox[t.id].finish = t.at
                 [] t.kind = "WakeMessage" -> TRUE
                 [] OTHER -> t.id \in DOMAIN stash /\ stash[t.id].finish = t.at
    BY <2>1 DEF Scheduled, Kinds, StashKinds
  <2> QED  BY <2>1, <2>2 DEF Scheduled, StashKinds, HoldsAreScheduled
<1> QED  BY <1>1, IInvHolds, PTL

\* charge_for_hold never cuts a price: at any block the rent due for a hold is covered by
\* what was locked when the hold began.
THEOREM RentIsPrepaidHolds == Spec => []RentIsPrepaid
<1>1. IInv => RentIsPrepaid
  <2> SUFFICES ASSUME IInv PROVE RentIsPrepaid  OBVIOUS
  <2>1. bn \in Nat /\ WaitlistCost \in Nat /\ MailboxCost \in Nat /\ StashCost \in Nat
    BY CostsAssumption DEF IInv, Control
  <2>2. /\ \A i \in DOMAIN waitlist : i \in Ids /\ waitlist[i] \in [start : Nat, finish : Nat]
        /\ \A i \in DOMAIN mailbox : i \in Ids /\ mailbox[i] \in [start : Nat, finish : Nat]
        /\ \A i \in DOMAIN stash : i \in Ids /\ stash[i] \in [start : Nat, finish : Nat]
    BY HoldFields DEF IInv, Types
  <2>3. \A i \in Ids, l \in LockIds : gas.lock[i][l] \in Nat  BY SMTT(90), GasFields DEF IInv, Types
  <2>4. Paid  BY DEF IInv
  <2>5. ASSUME NEW i \in DOMAIN waitlist
        PROVE  DueFor(bn, waitlist[i], WaitlistCost) <= gas.lock[i]["Waitlist"]
    BY <2>1, <2>2, <2>3, <2>4, DueIsCovered DEF Paid, LockIds
  <2>6. ASSUME NEW i \in DOMAIN mailbox
        PROVE  DueFor(bn, mailbox[i], MailboxCost) <= gas.lock[i]["Mailbox"]
    BY <2>1, <2>2, <2>3, <2>4, DueIsCovered DEF Paid, LockIds
  <2>7. ASSUME NEW i \in DOMAIN stash
        PROVE  DueFor(bn, stash[i], StashCost) <= gas.lock[i]["DispatchStash"]
    BY <2>1, <2>2, <2>3, <2>4, DueIsCovered DEF Paid, LockIds
  <2> QED  BY <2>5, <2>6, <2>7 DEF RentIsPrepaid
<1> QED  BY <1>1, IInvHolds, PTL

-----------------------------------------------------------------------------
(* No task is left behind. *)

\* The parts of a block in which no task is due.
AfterTasks == {"idle", "queue", "execute", "journal", "exit", "done"}

\* The steps that do not move the control from one part of a block to the next.
Works ==
  /\ UNCHANGED <<bn, first, cursor>>
  /\ phase' = phase \/ (phase \in AfterTasks /\ phase' \in AfterTasks)

\* Processing a task leaves the control where it is.
LEMMA TaskWorks ==
  ASSUME NEW task \in pool, ProcessTask(task)
  PROVE  Works
<1>1. UNCHANGED block
  BY DEF ProcessTask, RemoveFromMailbox, RemoveFromWaitlist, WakeMessage, SendDispatchTask,
         SendUserMessageTask, Panic
<1> QED  BY <1>1 DEF block, Works

\* Sending leaves the control where it is.
LEMMA SendWorks ==
  ASSUME Send
  PROVE  Works
<1>1. ASSUME NEW m, NEW limit, NEW deposit, SendToProgram(m, limit, deposit)
      PROVE  UNCHANGED block
  BY <1>1 DEF SendToProgram
<1>2. ASSUME NEW m, NEW limit, NEW deposit, SendUserMessage(m, limit, deposit)
      PROVE  UNCHANGED block
  BY <1>2 DEF SendUserMessage
<1>3. ASSUME NEW g, NEW id, NEW delay, NEW rent, NEW kind, EnterStash(g, id, delay, rent, kind)
      PROVE  UNCHANGED block
  BY <1>3 DEF EnterStash
<1>4. ASSUME NEW m, NEW limit, NEW deposit, NEW delay,
             \/ SendDelayedToProgram(m, limit, deposit, delay)
             \/ SendDelayedToUser(m, limit, deposit, delay)
      PROVE  UNCHANGED block
  BY <1>3, <1>4 DEF SendDelayedToProgram, SendDelayedToUser
<1>5. UNCHANGED block  BY <1>1, <1>2, <1>4 DEF Send
<1> QED  BY <1>5 DEF block, Works

\* Executing a message moves the control within the queue's part of the block.
LEMMA ExecutionWorks ==
  ASSUME Execution
  PROVE  Works
<1>1. CASE Send  BY <1>1, SendWorks
<1>2. CASE StopProcessing \/ (\E amount \in Burns : GasBurned(amount)) \/ ExitDispatch
  BY <1>2 DEF StopProcessing, GasBurned, ExitDispatch, Journal, Works, AfterTasks
<1>3. CASE Wait \/ (\E d \in Delays : WaitFor(d)) \/ (\E d \in Delays : WaitUpTo(d))
  BY <1>3 DEF Wait, WaitFor, WaitUpTo, EnterWaitlist, Journal, Works, AfterTasks
<1>4. CASE MessageConsumed \/ Exited
  BY <1>4 DEF MessageConsumed, Exited, Handled, Works, AfterTasks
<1>5. CASE \/ \E id \in DOMAIN waitlist : WakeNow(id) \/ ExitDrain(id)
           \/ \E id \in DOMAIN waitlist, delay \in Delays : WakeLater(id, delay)
  BY <1>5 DEF WakeNow, ExitDrain, WakeLater, block, Works
<1> QED  BY <1>1, <1>2, <1>3, <1>4, <1>5 DEF Execution

\* A hold that begins ends in a later block.
LEMMA HoldEndsLater ==
  ASSUME Paid', NEW id, NEW end
  PROVE  /\ waitlist' = Put(waitlist, id, [start |-> bn, finish |-> end]) => bn < end
         /\ mailbox' = Put(mailbox, id, [start |-> bn, finish |-> end]) => bn < end
<1> DEFINE hold == [start |-> bn, finish |-> end]
<1>1. hold.start = bn /\ hold.finish = end  OBVIOUS
<1> HIDE DEF hold
<1>2. ASSUME waitlist' = Put(waitlist, id, hold) PROVE bn < end
  <2>1. id \in DOMAIN waitlist' /\ waitlist'[id] = hold  BY <1>2 DEF Put
  <2> QED  BY <1>1, <2>1 DEF Paid, IsPaid
<1>3. ASSUME mailbox' = Put(mailbox, id, hold) PROVE bn < end
  <2>1. id \in DOMAIN mailbox' /\ mailbox'[id] = hold  BY <1>3 DEF Put
  <2> QED  BY <1>1, <2>1 DEF Paid, IsPaid
<1> QED  BY <1>2, <1>3 DEF hold

\* The tasks a step adds are due in a later block.
Later == \A t \in pool' : t \in pool \/ bn < t.at

\* The task of a new stay in the mailbox is due after the current block.
LEMMA MailboxLater ==
  ASSUME Paid', NEW g, NEW id, NEW limit, NEW end, NEW tasks \in SUBSET pool,
         EnterMailbox(g, id, limit, end, tasks)
  PROVE  Later
<1>1. bn < end  BY HoldEndsLater DEF EnterMailbox
<1>2. Task(end, "RemoveFromMailbox", id).at = end  BY SMTT(90), TaskIs
<1> QED  BY <1>1, <1>2 DEF EnterMailbox, Later

\* The task of a delayed message is due after the current block.
LEMMA StashLater ==
  ASSUME bn \in Nat, NEW g, NEW id, NEW delay \in Delays, NEW rent, NEW kind,
         EnterStash(g, id, delay, rent, kind)
  PROVE  Later
<1>1. Task(bn + delay, kind, id).at = bn + delay  BY SMTT(90), TaskIs
<1>2. bn < bn + delay  BY SMTT(90), BoundsAssumption
<1> QED  BY <1>1, <1>2 DEF EnterStash, Later

\* What a task schedules is due after the current block.
LEMMA TaskLater ==
  ASSUME Paid', NEW task \in pool, ProcessTask(task)
  PROVE  Later
<1>1. CASE \/ RemoveFromMailbox(task.id) \/ RemoveFromWaitlist(task.id, task)
           \/ WakeMessage(task.id, task) \/ SendDispatchTask(task.id, task)
  BY <1>1 DEF RemoveFromMailbox, LeaveMailbox, RemoveFromWaitlist, LeaveWaitlist, WakeMessage,
              SendDispatchTask, Panic, Later
<1>2. CASE SendUserMessageTask(task.id, task)
  <2> DEFINE g == GasAfterStash(task.id)
             end == HoldMaximumFor(bn, Limit(g, task.id), MailboxCost)
             tasks == pool \ {task}
  <2>1. \/ pool' \subseteq pool
        \/ EnterMailbox(g, task.id, Limit(g, task.id), end, tasks)
    BY <1>2 DEF SendUserMessageTask, Panic
  <2>2. tasks \in SUBSET pool  OBVIOUS
  <2> HIDE DEF g, end, tasks
  <2> QED  BY <2>1, <2>2, MailboxLater DEF Later
<1> QED  BY <1>1, <1>2 DEF ProcessTask

\* What sending schedules is due after the current block.
LEMMA SendLater ==
  ASSUME IInv, Paid', Send
  PROVE  Later
<1>0. bn \in Nat  BY DEF IInv, Control
<1>1. ASSUME NEW m \in Messages, NEW limit \in Limits, NEW deposit \in Limits,
             SendToProgram(m, limit, deposit)
      PROVE  Later
  BY <1>1 DEF SendToProgram, Later
<1>2. ASSUME NEW m \in Messages, NEW limit \in Limits, NEW deposit \in Limits,
             SendUserMessage(m, limit, deposit)
      PROVE  Later
  <2> DEFINE id == <<m, "msg">>
             taken == UserLimit(WithDeposit(id, deposit), limit, 0)
             g == Cut(WithDeposit(id, deposit), running, id, taken)
             end == HoldMaximumFor(bn, taken, MailboxCost)
  <2>1. pool' = pool \/ EnterMailbox(g, id, taken, end, pool)
    BY <1>2 DEF SendUserMessage
  <2> HIDE DEF id, g, end, taken
  <2> QED  BY <2>1, MailboxLater DEF Later
<1>3. ASSUME NEW m \in Messages, NEW limit \in Limits, NEW deposit \in Limits, NEW delay \in Delays,
             \/ SendDelayedToProgram(m, limit, deposit, delay)
             \/ SendDelayedToUser(m, limit, deposit, delay)
      PROVE  Later
  <2>1. \E g, id, rent, kind : EnterStash(g, id, delay, rent, kind)
    <3>1. CASE SendDelayedToProgram(m, limit, deposit, delay)
      BY <3>1, Zenon DEF SendDelayedToProgram
    <3>2. CASE SendDelayedToUser(m, limit, deposit, delay)
      BY <3>2, Zenon DEF SendDelayedToUser
    <3> QED  BY <1>3, <3>1, <3>2
  <2> QED  BY <1>0, <2>1, StashLater
<1> QED  BY <1>1, <1>2, <1>3 DEF Send

\* What the journal schedules is due after the current block.
LEMMA ExecutionLater ==
  ASSUME IInv, Paid', Execution
  PROVE  Later
<1>0. bn \in Nat  BY DEF IInv, Control
<1>1. CASE Send  BY <1>1, SendLater
<1>2. CASE StopProcessing \/ (\E amount \in Burns : GasBurned(amount)) \/ ExitDispatch
  BY <1>2 DEF StopProcessing, GasBurned, ExitDispatch, Later
<1>3. ASSUME NEW end, NEW kind, EnterWaitlist(end, kind) PROVE Later
  <2>1. bn < end  BY <1>3, HoldEndsLater DEF EnterWaitlist
  <2>2. Task(end, kind, running).at = end  BY SMTT(90), TaskIs
  <2> QED  BY <1>3, <2>1, <2>2 DEF EnterWaitlist, Later
<1>4. CASE Wait \/ (\E d \in Delays : WaitFor(d)) \/ (\E d \in Delays : WaitUpTo(d))
  <2>1. \E end, kind : EnterWaitlist(end, kind)  BY <1>4, Zenon DEF Wait, WaitFor, WaitUpTo
  <2> QED  BY <1>3, <2>1
<1>5. CASE MessageConsumed \/ Exited  BY <1>5 DEF MessageConsumed, Exited, Handled, Later
<1>6. CASE \E id \in DOMAIN waitlist : WakeNow(id) \/ ExitDrain(id)
  BY <1>6 DEF WakeNow, ExitDrain, LeaveWaitlist, Later
<1>7. CASE \E id \in DOMAIN waitlist, delay \in Delays : WakeLater(id, delay)
  <2>1. PICK id \in DOMAIN waitlist, delay \in Delays : WakeLater(id, delay)  BY <1>7
  <2>2. Task(bn + delay, "WakeMessage", id).at = bn + delay  BY SMTT(90), TaskIs
  <2>3. bn < bn + delay  BY SMTT(90), <1>0, BoundsAssumption
  <2> QED  BY <2>1, <2>2, <2>3 DEF WakeLater, Later
<1> QED  BY <1>1, <1>2, <1>4, <1>5, <1>6, <1>7 DEF Execution

\* A step within a part of a block.
LEMMA WorksLeavesNone ==
  ASSUME IInv, IInv', Works, Later, NoneBehind
  PROVE  NoneBehind'
<1>1. Pending' = Pending
  BY DEF Works, Pending, AfterTasks, IInv, Control, Phases
<1>2. bn \in Nat /\ Pending \in Nat /\ Pending <= bn + 1
  BY SMTT(90) DEF Pending, IInv, Control, Phases
<1>3. \A t \in pool' : t.at \in Nat  BY DEF IInv, Types, Tasks
<1>4. ASSUME NEW t \in pool' PROVE t.at >= Pending
  BY SMTT(90), <1>2, <1>3 DEF Later, NoneBehind
<1> QED  BY <1>1, <1>4 DEF NoneBehind

\* The steps from one part of a block to the next.
LEMMA TurnsLeaveNone ==
  ASSUME IInv, enabled, NoneBehind,
         \/ OnInitialize \/ OnFinalize \/ (\E value \in BOOLEAN : SetExecuteInherent(value)) \/ Run
         \/ TasksNextBlock \/ TasksStop \/ EndOfQueue
  PROVE  NoneBehind'
<1>0. /\ bn \in Nat /\ cursor \in Nat /\ first \in Nat \cup {None} /\ None \notin Nat
      /\ phase = "tasks" => first = None /\ cursor <= bn
      /\ \A t \in pool : t.at \in Nat
  BY NoneAssumption DEF IInv, Control, Types, Tasks
<1> SUFFICES ASSUME NEW t \in pool' PROVE t.at >= Pending'  BY DEF NoneBehind
<1>1. CASE OnInitialize
  <2>1. Pending' = Pending  BY <1>0, <1>1 DEF OnInitialize, Pending
  <2> QED  BY <1>1, <2>1 DEF OnInitialize, NoneBehind
<1>2. CASE OnFinalize
  <2>1. Pending' = Pending  BY SMTT(90), <1>0, <1>2 DEF OnFinalize, Pending
  <2> QED  BY <1>2, <2>1 DEF OnFinalize, NoneBehind
<1>3. CASE \E value \in BOOLEAN : SetExecuteInherent(value)
  BY <1>0, <1>3 DEF SetExecuteInherent, NoneBehind, Pending
<1>4. CASE Run  BY <1>0, <1>4 DEF Run, NoneBehind, Pending
<1>5. CASE TasksNextBlock
  <2>1. t \in pool /\ t.at # cursor /\ t.at >= cursor
    BY <1>0, <1>5 DEF TasksNextBlock, DueTasks, NoneBehind, Pending
  <2>2. Pending' <= cursor + 1 /\ Pending' \in Nat
    BY SMTT(90), <1>0, <1>5 DEF TasksNextBlock, Pending
  <2> QED  BY SMTT(90), <1>0, <2>1, <2>2
<1>6. CASE TasksStop
  <2>1. Pending' = Pending  BY <1>0, <1>6 DEF TasksStop, Pending
  <2> QED  BY <1>6, <2>1 DEF TasksStop, NoneBehind
<1>7. CASE EndOfQueue  BY <1>0, <1>7 DEF EndOfQueue, NoneBehind, Pending
<1> QED  BY <1>1, <1>2, <1>3, <1>4, <1>5, <1>6, <1>7

\* No step leaves a task behind while processing is enabled.
LEMMA StepLeavesNone ==
  ASSUME IInv, IInv', [Next]_vars, enabled, NoneBehind
  PROVE  NoneBehind'
<1>0. Paid'  BY DEF IInv
<1>1. CASE UNCHANGED vars  BY <1>1 DEF vars, block, NoneBehind, Pending
<1>2. CASE \/ OnInitialize \/ OnFinalize \/ (\E value \in BOOLEAN : SetExecuteInherent(value)) \/ Run
           \/ TasksNextBlock \/ TasksStop \/ EndOfQueue
  BY <1>2, TurnsLeaveNone
<1>3. CASE \/ \E m \in Messages, limit \in GasLimits : SendMessage(m, limit)
           \/ \E id \in DOMAIN mailbox : ClaimValue(id)
           \/ \E id \in DOMAIN mailbox, limit \in GasLimits : SendReply(id, limit)
  <2>1. Works /\ Later
    BY <1>3 DEF SendMessage, ClaimValue, SendReply, LeaveMailbox, block, Works, Later
  <2> QED  BY <2>1, WorksLeavesNone
<1>4. CASE \E task \in pool : ProcessTask(task)
  BY <1>0, <1>4, TaskWorks, TaskLater, WorksLeavesNone
<1>5. CASE \E id \in queue : Dequeue(id)
  <2>1. Works /\ Later  BY <1>5 DEF Dequeue, Works, AfterTasks, Later
  <2> QED  BY <2>1, WorksLeavesNone
<1>6. CASE Execution  BY <1>0, <1>6, ExecutionWorks, ExecutionLater, WorksLeavesNone
<1>7. CASE Over  BY <1>1, <1>7 DEF Over
<1> QED  BY <1>1, <1>2, <1>3, <1>4, <1>5, <1>6, <1>7 DEF Next, Extrinsic

\* While the runs of the queue are switched on, process_tasks never starts after a block
\* that still has tasks: not when the gas allowance cuts it short, and not when blocks
\* pass without a run.
THEOREM NoTaskLeftBehindHolds == Spec => NoTaskLeftBehind
<1>1. IInv /\ IInv' /\ [Next]_vars => [enabled /\ NoneBehind => NoneBehind']_vars
  BY StepLeavesNone
<1> QED  BY <1>1, IInvHolds, PTL DEF Spec, NoTaskLeftBehind
=============================================================================
