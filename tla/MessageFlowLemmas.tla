------------------------- MODULE MessageFlowLemmas --------------------------
(***************************************************************************)
(* The inductive invariant of MessageFlow and the steps that keep it: the  *)
(* tasks of the pool, the user's calls, the waits and the steps that only  *)
(* move the control.  MessageFlowProofs has the steps that send a message, *)
(* and the theorems.                                                       *)
(*                                                                         *)
(* The checked properties are not inductive by themselves: that no handler *)
(* reaches unreachable code needs every hold to have its task, its gas     *)
(* node and its rent, and each of these needs the others.  A step is shown *)
(* to keep all of them by saying which message it moves, which node it     *)
(* makes or ends, and that nothing else changes (Leaves, Charged, Ended,   *)
(* Answered).                                                              *)
(***************************************************************************)
EXTENDS MessageFlow, WellFoundedInduction, TLAPS

\* First-order leaves first, then arithmetic and records.
USE ZenonT(5), SMTT(90)

\* The values the state is made of.
Kinds == {"RemoveFromMailbox", "RemoveFromWaitlist", "WakeMessage", "SendDispatch",
          "SendUserMessage", "SendUserMessageToMailbox"}
StashKinds == {"SendDispatch", "SendUserMessage", "SendUserMessageToMailbox"}
Phases == {"idle", "open", "tasks", "queue", "execute", "journal", "exit", "done"}
Tasks == [at : Nat, kind : Kinds, id : Ids]
Holds == UNION {[D -> [start : Nat, finish : Nat]] : D \in SUBSET Ids}
Purses == UNION {[D -> Ids] : D \in SUBSET Ids}
GasRecords == [purse : Purses, value : [Ids -> Nat], line : [Ids -> Seq(Ids)],
               lock : [Ids -> [LockIds -> Nat]], deposits : SUBSET Ids, ok : BOOLEAN]

\* The message that a reply answers.
Msg(i) == <<i[1], "msg">>

\* The block, its part and the message in execution.
Control ==
  /\ bn \in Nat /\ phase \in Phases /\ enabled \in BOOLEAN
  /\ first \in Nat \cup {None} /\ cursor \in Nat /\ running \in Ids \cup {None}
  /\ phase \in {"execute", "journal", "exit"} <=> running # None
  /\ phase = "tasks" => first = None /\ cursor <= bn
  /\ first # None => first <= bn /\ (phase = "open" => first < bn)
  /\ phase # "idle" => bn > 0

\* The pool, the storages and the gas.
Types ==
  /\ active \in BOOLEAN /\ pool \subseteq Tasks /\ queue \subseteq Ids
  /\ waitlist \in Holds /\ mailbox \in Holds /\ stash \in Holds
  /\ gas \in GasRecords
  /\ source \in UNION {[D -> {"user", "program"}] : D \in SUBSET Messages}

\* A message is in one place.
Places ==
  /\ queue \cap DOMAIN waitlist = {} /\ queue \cap DOMAIN mailbox = {} /\ queue \cap DOMAIN stash = {}
  /\ DOMAIN waitlist \cap DOMAIN mailbox = {} /\ DOMAIN waitlist \cap DOMAIN stash = {}
  /\ DOMAIN mailbox \cap DOMAIN stash = {}
  /\ running \notin queue \cup DOMAIN waitlist \cup DOMAIN mailbox \cup DOMAIN stash

\* Nothing refers to a message that was not sent yet.
Known ==
  /\ \A i \in Stored : i[1] \in DOMAIN source
  /\ \A i \in DOMAIN gas.purse : i[1] \in DOMAIN source /\ gas.purse[i][1] \in DOMAIN source
  /\ \A t \in pool : t.id[1] \in DOMAIN source

\* A reply is made when its message is gone.
ReplyFollows == \A i \in Stored : IsReply(i) => Msg(i) \notin Stored

\* What a program sends to a user is a message, no reply.
FromProgram ==
  /\ \A i \in DOMAIN mailbox \cup DOMAIN stash : ~IsReply(i) /\ source[i[1]] = "program"
  /\ \A i \in DOMAIN gas.purse : IsReply(i) => source[i[1]] = "program"

\* The delayed messages that a task will answer at once.
SentUser == {t.id : t \in {u \in pool : u.kind = "SendUserMessage"}}

\* The node of a reply that was not made yet.
ReplyNodes ==
  /\ gas.deposits \subseteq DOMAIN gas.purse
  /\ \A i \in DOMAIN gas.purse :
       IsReply(i) /\ i \notin Stored => i \in gas.deposits \/ Msg(i) \in SentUser
  /\ \A i \in SentUser : Reply(i) \in DOMAIN gas.purse

\* Gas is locked only for what is held.
LocksAreHolds ==
  \A i \in Ids :
    /\ gas.lock[i]["Waitlist"] # 0 => i \in DOMAIN waitlist
    /\ gas.lock[i]["Mailbox"] # 0 => i \in DOMAIN mailbox
    /\ gas.lock[i]["DispatchStash"] # 0 => i \in DOMAIN stash

\* A delayed message has one task.
OneStashTask ==
  \A t, u \in pool : t.kind \in StashKinds /\ u.kind \in StashKinds /\ t.id = u.id => t = u

\* A hold ends after it begins, and its lock pays for it to the end.
IsPaid(hold, cost, lock) ==
  hold.start < hold.finish /\ (hold.finish + ReserveFor - hold.start) * cost <= lock

\* Every hold is paid for.
Paid ==
  /\ \A i \in DOMAIN waitlist : IsPaid(waitlist[i], WaitlistCost, gas.lock[i]["Waitlist"])
  /\ \A i \in DOMAIN mailbox : IsPaid(mailbox[i], MailboxCost, gas.lock[i]["Mailbox"])
  /\ \A i \in DOMAIN stash : IsPaid(stash[i], StashCost, gas.lock[i]["DispatchStash"])

\* The gas for the mailbox that a delayed message took along is its own.
ForMailbox ==
  \A t \in pool : t.kind = "SendUserMessageToMailbox" =>
    /\ gas.purse[t.id] = t.id /\ gas.value[t.id] >= MailboxThreshold
    /\ \A j \in DOMAIN gas.purse \ {t.id} : gas.purse[j] # t.id

\* GasHasOwner and HoldsAreScheduled, in the form the proofs use.
Owned ==
  /\ Stored \subseteq DOMAIN gas.purse
  /\ active => \A i \in DOMAIN gas.purse : i \in Stored \/ (IsReply(i) /\ Msg(i) \in Stored)

\* Every hold has its task, and every task but a wake-up its hold.
Scheduled ==
  /\ \A i \in DOMAIN waitlist :
       \E t \in pool : t.id = i /\ t.at = waitlist[i].finish
                       /\ t.kind \in {"RemoveFromWaitlist", "WakeMessage"}
  /\ \A i \in DOMAIN mailbox : Task(mailbox[i].finish, "RemoveFromMailbox", i) \in pool
  /\ \A i \in DOMAIN stash :
       \E t \in pool : t.id = i /\ t.at = stash[i].finish /\ t.kind \in StashKinds
  /\ \A t \in pool :
       /\ t.kind = "RemoveFromWaitlist" => t.id \in DOMAIN waitlist /\ waitlist[t.id].finish = t.at
       /\ t.kind = "RemoveFromMailbox" => t.id \in DOMAIN mailbox /\ mailbox[t.id].finish = t.at
       /\ t.kind \in StashKinds => t.id \in DOMAIN stash /\ stash[t.id].finish = t.at

\* The inductive invariant.
IInv ==
  /\ Control /\ Types /\ Places /\ Known /\ ReplyFollows /\ FromProgram
  /\ ReplyNodes /\ LocksAreHolds /\ OneStashTask /\ Paid /\ ForMailbox
  /\ Owned /\ Scheduled /\ NoUnreachable

-----------------------------------------------------------------------------
(* Rents. *)

\* What division leaves out is less than the divisor.
LEMMA DivBounds ==
  ASSUME NEW a \in Nat, NEW c \in Nat \ {0}
  PROVE  a \div c \in Nat /\ (a \div c) * c <= a /\ a < (a \div c) * c + c
BY SMTT(90)

\* Multiplying a price by more blocks costs no less.
LEMMA TimesMono ==
  ASSUME NEW a \in Int, NEW b \in Int, NEW c \in Nat, a <= b
  PROVE  a * c <= b * c
BY SMTT(90)

\* The division of HoldMaximumFor keeps every whole block that is paid for.
LEMMA DivAtLeast ==
  ASSUME NEW a \in Nat, NEW c \in Nat \ {0}, NEW k \in Nat, k * c <= a
  PROVE  k <= a \div c
<1> DEFINE q == a \div c
<1>1. q \in Nat /\ q * c <= a /\ a < q * c + c  BY DivBounds
<1> HIDE DEF q
<1>2. SUFFICES ASSUME q + 1 <= k PROVE FALSE  BY SMTT(90), <1>1 DEF q
<1>3. (q + 1) * c <= k * c  BY SMTT(90), <1>1, <1>2, TimesMono
<1>4. (q + 1) * c = q * c + c  BY SMTT(90), <1>1
<1> QED  BY SMTT(90), <1>1, <1>3, <1>4

\* HoldBoundBuilder::maximum_for: gas for some blocks and the reserve buys a hold of at
\* least these blocks, and pays for all of it.
LEMMA MaximumPays ==
  ASSUME NEW now \in Nat, NEW g \in Nat, NEW cost \in Nat \ {0}, NEW blocks \in Nat,
         RentFor(blocks, cost) <= g
  PROVE  /\ HoldMaximumFor(now, g, cost) \in Nat
         /\ HoldMaximumFor(now, g, cost) >= now + blocks
         /\ (HoldMaximumFor(now, g, cost) + ReserveFor - now) * cost <= g
<1> DEFINE q == g \div cost
<1>1. q \in Nat /\ q * cost <= g  BY DivBounds
<1>2. ReserveFor + blocks <= q
  BY SMTT(90), DivAtLeast, ReserveForAssumption DEF RentFor
<1>3. HoldMaximumFor(now, g, cost) = SaturatingSub(now + q, ReserveFor)
  BY DEF HoldMaximumFor
<1> HIDE DEF q
<1>4. SaturatingSub(now + q, ReserveFor) = now + q - ReserveFor
  BY SMTT(90), <1>1, <1>2, ReserveForAssumption DEF SaturatingSub
<1>5. HoldMaximumFor(now, g, cost) + ReserveFor - now = q
  BY SMTT(90), <1>1, <1>3, <1>4, ReserveForAssumption
<1> QED  BY SMTT(90), <1>1, <1>2, <1>3, <1>4, <1>5, ReserveForAssumption

\* A shorter hold costs no more.
LEMMA LeastPays ==
  ASSUME NEW now \in Nat, NEW g \in Nat, NEW cost \in Nat \ {0}, NEW end \in Nat,
         NEW other \in Nat, now < end, now < other,
         (other + ReserveFor - now) * cost <= g
  PROVE  /\ Least(end, other) \in Nat /\ Least(end, other) > now
         /\ LockAmount(now, Least(end, other), cost) \in Nat
         /\ LockAmount(now, Least(end, other), cost) <= g
         /\ LockAmount(now, Least(end, other), cost)
              = (Least(end, other) + ReserveFor - now) * cost
<1> DEFINE e == Least(end, other)
<1>1. e \in Nat /\ e > now /\ e <= other  BY SMTT(90) DEF Least
<1> HIDE DEF e
<1>2. SaturatingSub(e + ReserveFor, now) = e + ReserveFor - now
  BY SMTT(90), <1>1, ReserveForAssumption DEF SaturatingSub
<1>3. (e + ReserveFor - now) * cost <= (other + ReserveFor - now) * cost
  BY SMTT(90), <1>1, TimesMono, ReserveForAssumption
<1>4. (e + ReserveFor - now) \in Nat  BY SMTT(90), <1>1, ReserveForAssumption
<1>5. (e + ReserveFor - now) * cost \in Nat  BY SMTT(90), <1>4
<1>6. LockAmount(now, e, cost) = (e + ReserveFor - now) * cost  BY <1>2 DEF LockAmount
<1>7. (other + ReserveFor - now) * cost \in Int  BY SMTT(90), ReserveForAssumption
<1>8. (e + ReserveFor - now) * cost <= g  BY SMTT(90), <1>3, <1>5, <1>7
<1> QED  BY <1>1, <1>5, <1>6, <1>8 DEF e

\* The rent of a delay.
LEMMA DelayRent ==
  ASSUME NEW now \in Nat, NEW delay \in Nat, NEW cost \in Nat
  PROVE  /\ LockAmount(now, HoldDuration(now, delay), cost) = RentFor(delay, cost)
         /\ RentFor(delay, cost) \in Nat
         /\ (HoldDuration(now, delay) + ReserveFor - now) * cost = RentFor(delay, cost)
<1>1. SaturatingSub(now + delay + ReserveFor, now) = ReserveFor + delay
  BY SMTT(90), ReserveForAssumption DEF SaturatingSub
<1>2. (now + delay) + ReserveFor - now = ReserveFor + delay  BY SMTT(90), ReserveForAssumption
<1>3. (ReserveFor + delay) \in Nat  BY SMTT(90), ReserveForAssumption
<1>4. (ReserveFor + delay) * cost \in Nat  BY SMTT(90), <1>3
<1> QED  BY <1>1, <1>2, <1>4 DEF LockAmount, HoldDuration, RentFor

\* charge_for_hold takes no more than was locked, and what is due never exceeds that.
LEMMA DueIsCovered ==
  ASSUME NEW now \in Nat, NEW hold \in [start : Nat, finish : Nat], NEW cost \in Nat,
         NEW lock \in Nat, IsPaid(hold, cost, lock)
  PROVE  DueFor(now, hold, cost) <= lock
<1> DEFINE d == SaturatingSub(Least(now, hold.finish + ReserveFor), hold.start)
           p == hold.finish + ReserveFor - hold.start
<1>1. d \in Nat /\ p \in Nat /\ d <= p
  BY SMTT(90), ReserveForAssumption DEF SaturatingSub, Least, IsPaid
<1> HIDE DEF d, p
<1>2. d * cost <= p * cost  BY SMTT(90), <1>1, TimesMono
<1>3. p * cost <= lock  BY DEF IsPaid, p
<1>4. d * cost \in Int /\ p * cost \in Int  BY SMTT(90), <1>1
<1>5. d * cost <= lock  BY SMTT(90), <1>2, <1>3, <1>4
<1> QED  BY <1>5 DEF DueFor, d

\* charge_for_hold charges a natural number and at most what is locked.
LEMMA ChargeBound ==
  ASSUME NEW now \in Nat, NEW hold \in [start : Nat, finish : Nat], NEW cost \in Nat,
         NEW lock \in Nat
  PROVE  ChargeFor(now, hold, cost, lock) \in Nat /\ ChargeFor(now, hold, cost, lock) <= lock
<1> DEFINE d == SaturatingSub(Least(now, hold.finish + ReserveFor), hold.start)
<1>1. d \in Nat
  BY SMTT(90), ReserveForAssumption DEF SaturatingSub, Least
<1> HIDE DEF d
<1>2. d * cost \in Nat  BY SMTT(90), <1>1
<1>3. DueFor(now, hold, cost) \in Nat  BY <1>2 DEF DueFor, d
<1> QED  BY SMTT(90), <1>3 DEF ChargeFor, Least


-----------------------------------------------------------------------------
(* The gas handler: what each operation leaves in the fields. *)

\* The fields of the gas state, by their types.
LEMMA GasFields ==
  ASSUME NEW g \in GasRecords
  PROVE  /\ DOMAIN g.purse \subseteq Ids /\ g.purse \in [DOMAIN g.purse -> Ids]
         /\ g.value \in [Ids -> Nat] /\ g.line \in [Ids -> Seq(Ids)]
         /\ g.lock \in [Ids -> [LockIds -> Nat]]
         /\ g.deposits \subseteq Ids /\ g.ok \in BOOLEAN
BY DEF GasRecords, Purses

\* Insertion into a storage map: the new key has its value, the others keep theirs.
LEMMA PutIs ==
  ASSUME NEW S, NEW T, NEW f \in [S -> T], NEW k, NEW v \in T
  PROVE  /\ Put(f, k, v) \in [S \cup {k} -> T] /\ DOMAIN Put(f, k, v) = S \cup {k}
         /\ Put(f, k, v)[k] = v
         /\ \A x \in S \ {k} : Put(f, k, v)[x] = f[x]
BY DEF Put

\* Removal from a storage map: the key is gone, the others keep their values.
LEMMA DropIs ==
  ASSUME NEW S, NEW T, NEW f \in [S -> T], NEW k
  PROVE  /\ Drop(f, k) \in [S \ {k} -> T] /\ DOMAIN Drop(f, k) = S \ {k}
         /\ \A x \in S \ {k} : Drop(f, k)[x] = f[x]
BY DEF Drop

\* A call the gas handler does not refuse changes nothing of the record.
LEMMA ExpectIs ==
  ASSUME NEW g \in GasRecords, NEW c \in BOOLEAN
  PROVE  /\ Expect(g, c) \in GasRecords
         /\ Expect(g, c).purse = g.purse /\ Expect(g, c).value = g.value
         /\ Expect(g, c).line = g.line /\ Expect(g, c).lock = g.lock
         /\ Expect(g, c).deposits = g.deposits /\ Expect(g, c).ok = (g.ok /\ c)
BY DEF Expect, GasRecords

\* Paying from a node takes the amount from the node it spends from.
LEMMA PayIs ==
  ASSUME NEW g \in GasRecords, NEW id \in DOMAIN g.purse, NEW amount \in Nat,
         amount <= g.value[g.purse[id]]
  PROVE  /\ Pay(g, id, amount) \in GasRecords
         /\ Pay(g, id, amount).purse = g.purse
         /\ Pay(g, id, amount).value = [g.value EXCEPT ![g.purse[id]] = @ - amount]
         /\ Pay(g, id, amount).line = g.line /\ Pay(g, id, amount).lock = g.lock
         /\ Pay(g, id, amount).deposits = g.deposits /\ Pay(g, id, amount).ok = g.ok
<1> DEFINE c == amount <= Limit(g, id)
           e == Expect(g, c)
           v == [g.value EXCEPT ![g.purse[id]] = @ - amount]
<1>1. c = TRUE  BY DEF Limit, HasGas
<1>2. /\ e \in GasRecords /\ e.purse = g.purse /\ e.value = g.value /\ e.line = g.line
      /\ e.lock = g.lock /\ e.deposits = g.deposits /\ e.ok = g.ok
  BY <1>1, ExpectIs, GasFields
<1>3. v \in [Ids -> Nat]  BY SMTT(90), GasFields
<1>4. Pay(g, id, amount) = [e EXCEPT !.value = v]  BY <1>2 DEF Pay
<1> HIDE DEF e, c, v
<1>5. /\ Pay(g, id, amount) \in GasRecords /\ Pay(g, id, amount).value = v
      /\ Pay(g, id, amount).purse = g.purse
      /\ Pay(g, id, amount).line = g.line /\ Pay(g, id, amount).lock = g.lock
      /\ Pay(g, id, amount).deposits = g.deposits /\ Pay(g, id, amount).ok = g.ok
  BY <1>2, <1>3, <1>4 DEF GasRecords
<1> QED  BY <1>5 DEF v

\* A new node holds its amount and spends from itself; the other nodes are as before.
LEMMA NewNodeIs ==
  ASSUME NEW g \in GasRecords, NEW id \in Ids, NEW amount \in Nat, NEW line \in Seq(Ids)
  PROVE  LET r == NewNode(g, id, amount, line) IN
         /\ r \in GasRecords
         /\ DOMAIN r.purse = DOMAIN g.purse \cup {id} /\ r.purse[id] = id
         /\ \A i \in DOMAIN g.purse \ {id} : r.purse[i] = g.purse[i]
         /\ r.value = [g.value EXCEPT ![id] = amount]
         /\ r.lock = g.lock /\ r.deposits = g.deposits
         /\ r.ok = (g.ok /\ id \notin DOMAIN g.purse)
<1> DEFINE c == ~HasGas(g, id)
           e == Expect(g, c)
           r == NewNode(g, id, amount, line)
           p == Put(g.purse, id, id)
<1>1. /\ e \in GasRecords /\ e.purse = g.purse /\ e.value = g.value /\ e.line = g.line
      /\ e.lock = g.lock /\ e.deposits = g.deposits /\ e.ok = (g.ok /\ c)
  BY ExpectIs DEF HasGas
<1>2. c = (id \notin DOMAIN g.purse)  BY DEF HasGas
<1>3. r = [e EXCEPT !.purse = Put(@, id, id), !.value[id] = amount, !.line[id] = line]
  BY DEF NewNode
<1>4. /\ p \in [DOMAIN g.purse \cup {id} -> Ids] /\ DOMAIN p = DOMAIN g.purse \cup {id}
      /\ p[id] = id /\ \A i \in DOMAIN g.purse \ {id} : p[i] = g.purse[i]
  <2>1. g.purse \in [DOMAIN g.purse -> Ids]  BY GasFields
  <2> QED  BY <2>1 DEF Put
<1> HIDE DEF e, c, p, r
<1>5. /\ r.purse = p /\ r.value = [g.value EXCEPT ![id] = amount]
      /\ r.line = [g.line EXCEPT ![id] = line]
      /\ r.lock = g.lock /\ r.deposits = g.deposits /\ r.ok = (g.ok /\ c)
      /\ r = [purse |-> r.purse, value |-> r.value, line |-> r.line, lock |-> r.lock,
              deposits |-> r.deposits, ok |-> r.ok]
  BY <1>1, <1>3 DEF GasRecords, p
<1>6. r.value \in [Ids -> Nat] /\ r.line \in [Ids -> Seq(Ids)]  BY SMTT(90), <1>5, GasFields
<1>7. p \in Purses
  <2>1. DOMAIN g.purse \cup {id} \in SUBSET Ids  BY GasFields
  <2> QED  BY <1>4, <2>1, Zenon DEF Purses
<1>8. r \in GasRecords  BY <1>1, <1>5, <1>6, <1>7, GasFields DEF GasRecords
<1> QED  BY <1>2, <1>4, <1>5, <1>8 DEF r

\* GasHandler::lock moves the amount from the node's purse to its lock.
LEMMA LockGasIs ==
  ASSUME NEW g \in GasRecords, NEW id \in DOMAIN g.purse, NEW amount \in Nat,
         NEW lock \in LockIds, amount <= g.value[g.purse[id]]
  PROVE  LET r == LockGas(g, id, lock, amount) IN
         /\ r \in GasRecords /\ r.purse = g.purse
         /\ r.value = [g.value EXCEPT ![g.purse[id]] = @ - amount]
         /\ r.lock = [g.lock EXCEPT ![id][lock] = @ + amount]
         /\ r.deposits = g.deposits /\ r.ok = g.ok
<1> DEFINE e == Pay(g, id, amount)
           r == LockGas(g, id, lock, amount)
<1>1. /\ e \in GasRecords /\ e.purse = g.purse /\ e.line = g.line /\ e.lock = g.lock
      /\ e.value = [g.value EXCEPT ![g.purse[id]] = @ - amount]
      /\ e.deposits = g.deposits /\ e.ok = g.ok
  BY PayIs
<1>2. r = [e EXCEPT !.lock[id][lock] = @ + amount]  BY DEF LockGas
<1>3. id \in Ids  BY GasFields
<1> HIDE DEF e, r
<1>4. [e.lock EXCEPT ![id][lock] = @ + amount] \in [Ids -> [LockIds -> Nat]]
  BY SMTT(90), <1>1, <1>3, GasFields
<1> QED  BY <1>1, <1>2, <1>4 DEF GasRecords, r

\* GasHandler::unlock_all returns what is locked to the node's purse.
LEMMA UnlockAllIs ==
  ASSUME NEW g \in GasRecords, NEW id \in DOMAIN g.purse, NEW lock \in LockIds
  PROVE  LET r == UnlockAll(g, id, lock) IN
         /\ r \in GasRecords /\ r.purse = g.purse
         /\ r.value = [g.value EXCEPT ![g.purse[id]] = @ + g.lock[id][lock]]
         /\ r.lock = [g.lock EXCEPT ![id][lock] = 0]
         /\ r.deposits = g.deposits /\ r.ok = g.ok
<1> DEFINE r == UnlockAll(g, id, lock)
<1>1. id \in Ids /\ g.purse[id] \in Ids  BY GasFields
<1>2. [g.value EXCEPT ![g.purse[id]] = @ + g.lock[id][lock]] \in [Ids -> Nat]
  BY SMTT(90), <1>1, GasFields
<1>3. [g.lock EXCEPT ![id][lock] = 0] \in [Ids -> [LockIds -> Nat]]
  BY <1>1, GasFields
<1> QED  BY <1>2, <1>3 DEF GasRecords, UnlockAll

\* charge_for_hold: the lock is gone, and the purse is no poorer than before the unlock.
LEMMA ChargeIs ==
  ASSUME NEW g \in GasRecords, NEW id \in DOMAIN g.purse, NEW lock \in LockIds,
         NEW hold \in [start : Nat, finish : Nat], NEW cost \in Nat, bn \in Nat
  PROVE  LET r == ChargeForHold(g, id, hold, lock, cost) IN
         /\ r \in GasRecords /\ r.purse = g.purse
         /\ r.value[g.purse[id]] >= g.value[g.purse[id]]
         /\ \A i \in Ids \ {g.purse[id]} : r.value[i] = g.value[i]
         /\ r.lock = [g.lock EXCEPT ![id][lock] = 0]
         /\ r.deposits = g.deposits /\ r.ok = g.ok
<1> DEFINE u == UnlockAll(g, id, lock)
           l == g.lock[id][lock]
           c == ChargeFor(bn, hold, cost, l)
           r == Pay(u, id, c)
<1>1. id \in Ids /\ g.purse[id] \in Ids /\ l \in Nat  BY SMTT(90), GasFields
<1>2. c \in Nat /\ c <= l  BY <1>1, ChargeBound
<1>3. /\ u \in GasRecords /\ u.purse = g.purse
      /\ u.value = [g.value EXCEPT ![g.purse[id]] = @ + l]
      /\ u.lock = [g.lock EXCEPT ![id][lock] = 0]
      /\ u.deposits = g.deposits /\ u.ok = g.ok
  BY UnlockAllIs
<1>4. u.value[u.purse[id]] = g.value[g.purse[id]] + l  BY <1>1, <1>3, GasFields
<1>5. g.value[g.purse[id]] \in Nat  BY <1>1, GasFields
<1> HIDE DEF u, l, c
<1>6. id \in DOMAIN u.purse /\ c <= u.value[u.purse[id]]  BY SMTT(90), <1>1, <1>2, <1>3, <1>4, <1>5
<1>7. /\ r \in GasRecords /\ r.purse = u.purse
      /\ r.value = [u.value EXCEPT ![u.purse[id]] = @ - c]
      /\ r.lock = u.lock /\ r.deposits = u.deposits /\ r.ok = u.ok
  <2>1. u \in GasRecords /\ id \in DOMAIN u.purse /\ c \in Nat /\ c <= u.value[u.purse[id]]
    BY <1>2, <1>3, <1>6
  <2> QED  BY ONLY <2>1, PayIs DEF r
<1> HIDE DEF r
<1>8. r.value[g.purse[id]] >= g.value[g.purse[id]]
  <2>1. u.value \in [Ids -> Nat]  BY <1>3, GasFields
  <2>2. r.value[g.purse[id]] = u.value[g.purse[id]] - c  BY <1>1, <1>3, <1>7, <2>1
  <2> QED  BY SMTT(90), <1>2, <1>1, <1>3, <1>4, <1>5, <2>2
<1>9. \A i \in Ids \ {g.purse[id]} : r.value[i] = g.value[i]
  BY SMTT(90), <1>1, <1>3, <1>7, GasFields
<1>10. ChargeForHold(g, id, hold, lock, cost) = r  BY DEF ChargeForHold, u, c, l, r
<1> QED  BY <1>3, <1>7, <1>8, <1>9, <1>10

\* r is g with a node for "to" that holds what was taken from the purse of "from".
TakesFrom(r, g, from, to, amount) ==
  /\ r \in GasRecords
  /\ DOMAIN r.purse = DOMAIN g.purse \cup {to} /\ r.purse[to] = to
  /\ \A i \in DOMAIN g.purse : r.purse[i] = g.purse[i]
  /\ r.value[to] = amount
  /\ r.value[g.purse[from]] = g.value[g.purse[from]] - amount
  /\ \A i \in Ids \ {to, g.purse[from]} : r.value[i] = g.value[i]
  /\ r.lock = g.lock /\ r.ok = g.ok

\* Paying for a new node and making it moves the amount from one to the other.
LEMMA PayNewNodeIs ==
  ASSUME NEW g \in GasRecords, NEW from \in DOMAIN g.purse, NEW to \in Ids \ DOMAIN g.purse,
         NEW amount \in Nat, amount <= g.value[g.purse[from]], to # g.purse[from],
         NEW line \in Seq(Ids)
  PROVE  LET r == NewNode(Pay(g, from, amount), to, amount, line) IN
         TakesFrom(r, g, from, to, amount) /\ r.deposits = g.deposits
<1> DEFINE e == Pay(g, from, amount)
           r == NewNode(e, to, amount, line)
<1>1. /\ e \in GasRecords /\ e.purse = g.purse /\ e.lock = g.lock
      /\ e.value = [g.value EXCEPT ![g.purse[from]] = @ - amount]
      /\ e.deposits = g.deposits /\ e.ok = g.ok
  BY PayIs
<1>2. from \in Ids /\ g.purse[from] \in Ids /\ g.value \in [Ids -> Nat] /\ g.ok \in BOOLEAN
  BY GasFields
<1> HIDE DEF e
<1>3. /\ r \in GasRecords
      /\ DOMAIN r.purse = DOMAIN e.purse \cup {to} /\ r.purse[to] = to
      /\ \A i \in DOMAIN e.purse \ {to} : r.purse[i] = e.purse[i]
      /\ r.value = [e.value EXCEPT ![to] = amount]
      /\ r.lock = e.lock /\ r.deposits = e.deposits
      /\ r.ok = (e.ok /\ to \notin DOMAIN e.purse)
  BY ONLY <1>1, NewNodeIs, to \in Ids, amount \in Nat, line \in Seq(Ids)
<1> HIDE DEF r
<1>4. /\ r.value[to] = amount
      /\ r.value[g.purse[from]] = g.value[g.purse[from]] - amount
      /\ \A i \in Ids \ {to, g.purse[from]} : r.value[i] = g.value[i]
  BY SMTT(90), <1>1, <1>2, <1>3
<1>5. r.ok = g.ok  BY <1>1, <1>2, <1>3
<1>6. /\ DOMAIN r.purse = DOMAIN g.purse \cup {to} /\ r.purse[to] = to
      /\ \A i \in DOMAIN g.purse : r.purse[i] = g.purse[i]
  BY <1>1, <1>3
<1>7. r.lock = g.lock /\ r.deposits = g.deposits  BY <1>1, <1>3
<1> QED  BY <1>3, <1>4, <1>5, <1>6, <1>7 DEF TakesFrom, r, e

\* GasHandler::cut takes the amount of the new node from the running one.
LEMMA CutIs ==
  ASSUME NEW g \in GasRecords, NEW from \in DOMAIN g.purse, NEW to \in Ids \ DOMAIN g.purse,
         NEW amount \in Nat, amount <= g.value[g.purse[from]], to # g.purse[from]
  PROVE  TakesFrom(Cut(g, from, to, amount), g, from, to, amount)
         /\ Cut(g, from, to, amount).deposits = g.deposits
<1>1. <<>> \in Seq(Ids)  BY SMTT(90)
<1> QED  BY <1>1, PayNewNodeIs DEF Cut

\* create_deposit takes the amount from the sender and records a deposit.
LEMMA CreateDepositIs ==
  ASSUME NEW g \in GasRecords, NEW from \in DOMAIN g.purse, NEW to \in Ids \ DOMAIN g.purse,
         NEW amount \in Nat, amount <= g.value[g.purse[from]], to # g.purse[from]
  PROVE  TakesFrom(CreateDeposit(g, from, to, amount), g, from, to, amount)
         /\ CreateDeposit(g, from, to, amount).deposits = g.deposits \cup {to}
<1> DEFINE c == Cut(g, from, to, amount)
           r == [c EXCEPT !.deposits = @ \cup {to}]
<1>1. TakesFrom(c, g, from, to, amount) /\ c.deposits = g.deposits  BY CutIs
<1>2. CreateDeposit(g, from, to, amount) = r  BY DEF CreateDeposit
<1> HIDE DEF c
<1>3. c \in GasRecords  BY <1>1 DEF TakesFrom
<1>4. /\ r \in GasRecords /\ r.purse = c.purse /\ r.value = c.value /\ r.lock = c.lock
      /\ r.ok = c.ok /\ r.deposits = c.deposits \cup {to}
  BY <1>3 DEF GasRecords
<1> HIDE DEF r
<1> QED  BY <1>1, <1>2, <1>4 DEF TakesFrom

\* split_with_value, for a message without a deposit, takes its value from the sender.
LEMMA SplitWithValueIs ==
  ASSUME NEW g \in GasRecords, NEW from \in DOMAIN g.purse, NEW to \in Ids \ DOMAIN g.purse,
         NEW amount \in Nat, amount <= g.value[g.purse[from]], to # g.purse[from],
         to \notin g.deposits
  PROVE  LET r == SplitWithValue(g, from, to, amount, FALSE) IN
         /\ TakesFrom(r, g, from, to, amount) /\ r.deposits = g.deposits
         /\ SplitWithValue(g, from, to, amount, TRUE) = r
<1> DEFINE line == <<g.purse[from]>> \o g.line[g.purse[from]]
<1>1. g.purse[from] \in Ids  BY GasFields
<1>2. g.line[g.purse[from]] \in Seq(Ids)  BY <1>1, GasFields
<1>3. line \in Seq(Ids)  BY SMTT(90), <1>1, <1>2
<1>4. /\ SplitWithValue(g, from, to, amount, FALSE)
           = NewNode(Pay(g, from, amount), to, amount, line)
      /\ SplitWithValue(g, from, to, amount, TRUE)
           = NewNode(Pay(g, from, amount), to, amount, line)
  BY DEF SplitWithValue, ExistsAndDeposit
<1> HIDE DEF line
<1> DEFINE n == NewNode(Pay(g, from, amount), to, amount, line)
<1>5. TakesFrom(n, g, from, to, amount) /\ n.deposits = g.deposits
  BY SMTT(90), <1>3, PayNewNodeIs
<1> HIDE DEF n
<1>6. /\ SplitWithValue(g, from, to, amount, FALSE) = n
      /\ SplitWithValue(g, from, to, amount, TRUE) = n
  BY <1>4 DEF n
<1> QED  BY <1>5, <1>6

\* GasHandler::split, for a message without a deposit, shares the purse of the sender.
LEMMA SplitIs ==
  ASSUME NEW g \in GasRecords, NEW from \in DOMAIN g.purse, NEW to \in Ids \ DOMAIN g.purse,
         NEW isReply \in BOOLEAN, to \notin g.deposits
  PROVE  LET r == Split(g, from, to, isReply) IN
         /\ r \in GasRecords
         /\ DOMAIN r.purse = DOMAIN g.purse \cup {to} /\ r.purse[to] = g.purse[from]
         /\ \A i \in DOMAIN g.purse : r.purse[i] = g.purse[i]
         /\ r.value = g.value /\ r.lock = g.lock /\ r.deposits = g.deposits /\ r.ok = g.ok
<1> DEFINE c == ~HasGas(g, to)
           e == Expect(g, c)
           p == Put(g.purse, to, g.purse[from])
           r == Split(g, from, to, isReply)
<1>1. c = TRUE  BY DEF HasGas
<1>2. g.purse \in [DOMAIN g.purse -> Ids] /\ g.purse[from] \in Ids /\ g.ok \in BOOLEAN
  BY GasFields
<1>3. /\ e \in GasRecords /\ e.purse = g.purse /\ e.value = g.value /\ e.line = g.line
      /\ e.lock = g.lock /\ e.deposits = g.deposits /\ e.ok = g.ok
  BY <1>1, <1>2, ExpectIs
<1>4. /\ p \in [DOMAIN g.purse \cup {to} -> Ids] /\ DOMAIN p = DOMAIN g.purse \cup {to}
      /\ p[to] = g.purse[from] /\ \A i \in DOMAIN g.purse : p[i] = g.purse[i]
  BY <1>2 DEF Put
<1>5. r = [e EXCEPT !.purse = p]
  BY <1>3 DEF Split, ExistsAndDeposit
<1> HIDE DEF e, c, p, r
<1>6. p \in Purses
  <2>1. DOMAIN g.purse \cup {to} \in SUBSET Ids  BY GasFields
  <2> QED  BY <1>4, <2>1, Zenon DEF Purses
<1>7. /\ r \in GasRecords /\ r.purse = p /\ r.value = e.value /\ r.lock = e.lock
      /\ r.deposits = e.deposits /\ r.ok = e.ok
  BY <1>3, <1>5, <1>6 DEF GasRecords
<1> QED  BY <1>3, <1>4, <1>7 DEF r

\* A set of naturals that is not empty has a least member.
LEMMA LeastNat ==
  ASSUME NEW T, T \subseteq Nat, T # {}
  PROVE  \E m \in T : \A n \in T : m <= n
<1>1. \E x \in T : \A y \in T : ~(<<y, x>> \in OpToRel(<, Nat))
  BY WFMin, NatLessThanWellFounded
<1>2. \E x \in T : \A y \in T : ~(y < x)  BY <1>1 DEF OpToRel
<1> QED  BY SMTT(90), <1>2

\* consume: the node of id is gone; a purse others pay from keeps its gas, and no other
\* purse is poorer.
Consumed(r, g, id) ==
  /\ r \in GasRecords
  /\ DOMAIN r.purse = DOMAIN g.purse \ {id}
  /\ \A i \in DOMAIN g.purse \ {id} : r.purse[i] = g.purse[i]
  /\ \A i \in Ids \ {g.purse[id]} : r.value[i] >= g.value[i]
  /\ r.lock = g.lock /\ r.deposits = g.deposits \ {id} /\ r.ok = g.ok

\* GasHandler::consume of a node without locks: the node is gone, and no purse that
\* others pay from is poorer.
LEMMA ConsumeIs ==
  ASSUME NEW g \in GasRecords, NEW id \in DOMAIN g.purse, \A l \in LockIds : g.lock[id][l] = 0
  PROVE  Consumed(Consume(g, id), g, id)
<1> DEFINE p == g.purse[id]
           users == {u \in DOMAIN g.purse \ {id} : g.purse[u] = p}
           payers == {g.purse[u] : u \in DOMAIN g.purse \ {id}}
           heirs == {i \in DOMAIN g.line[p] : g.line[p][i] \in payers}
           least == CHOOSE i \in heirs : \A j \in heirs : i <= j
           heir == g.line[p][least]
           c == \A l \in LockIds : g.lock[id][l] = 0
           e == Expect(g, c)
           d == Drop(g.purse, id)
           rest == [e EXCEPT !.purse = Drop(@, id), !.deposits = @ \ {id}]
           r1 == [rest EXCEPT !.value[p] = 0]
           r2 == [rest EXCEPT !.value[p] = 0, !.value[heir] = @ + g.value[p]]
<1>1. c = TRUE  OBVIOUS
<1>2. /\ g.purse \in [DOMAIN g.purse -> Ids] /\ p \in Ids /\ g.value \in [Ids -> Nat]
      /\ g.line[p] \in Seq(Ids) /\ g.value[p] \in Nat /\ g.ok \in BOOLEAN
  BY GasFields
<1>3. /\ e \in GasRecords /\ e.purse = g.purse /\ e.value = g.value /\ e.line = g.line
      /\ e.lock = g.lock /\ e.deposits = g.deposits /\ e.ok = g.ok
  BY <1>1, <1>2, ExpectIs
<1>4. /\ d \in [DOMAIN g.purse \ {id} -> Ids] /\ DOMAIN d = DOMAIN g.purse \ {id}
      /\ \A i \in DOMAIN g.purse \ {id} : d[i] = g.purse[i]
  BY <1>2 DEF Drop
<1>5. d \in Purses
  <2>1. DOMAIN g.purse \ {id} \in SUBSET Ids  BY GasFields
  <2> HIDE DEF d
  <2> QED  BY <1>4, <2>1, Zenon DEF Purses
<1>6. rest = [e EXCEPT !.purse = d, !.deposits = @ \ {id}]  BY <1>3
<1>7. Consume(g, id) = IF users # {} THEN rest ELSE IF heirs = {} THEN r1 ELSE r2
  BY DEF Consume
<1> HIDE DEF e, c, d, rest
<1>8. /\ rest \in GasRecords /\ rest.purse = d /\ rest.value = g.value /\ rest.lock = g.lock
      /\ rest.deposits = g.deposits \ {id} /\ rest.ok = g.ok
  BY <1>3, <1>5, <1>6 DEF GasRecords
<1>9. CASE users # {}
  <2>1. Consume(g, id) = rest  BY <1>7, <1>9
  <2> HIDE DEF users, heirs, r1, r2
  <2> QED  BY SMTT(90), <1>2, <1>4, <1>8, <2>1 DEF Consumed
<1>10. CASE users = {} /\ heirs = {}
  <2>1. Consume(g, id) = r1  BY <1>7, <1>10
  <2>2. [g.value EXCEPT ![p] = 0] \in [Ids -> Nat]  BY <1>2
  <2>3. /\ r1 \in GasRecords /\ r1.purse = rest.purse
        /\ r1.value = [g.value EXCEPT ![p] = 0] /\ r1.lock = rest.lock
        /\ r1.deposits = rest.deposits /\ r1.ok = rest.ok
    BY <1>8, <2>2 DEF GasRecords
  <2> HIDE DEF users, heirs, r1, r2
  <2>4. \A i \in Ids \ {p} : r1.value[i] >= g.value[i]  BY SMTT(90), <1>2, <2>3
  <2> QED  BY <1>4, <1>8, <2>1, <2>3, <2>4 DEF Consumed
<1>11. CASE users = {} /\ heirs # {}
  <2>1. Consume(g, id) = r2  BY <1>7, <1>11
  <2>2. heirs \subseteq Nat  BY SMTT(90), <1>2
  <2>3. \E i \in heirs : \A j \in heirs : i <= j
    <3> HIDE DEF heirs
    <3> QED  BY <1>11, <2>2, LeastNat
  <2>4. least \in heirs
    <3> HIDE DEF heirs
    <3> QED  BY <2>3
  <2>5. heir \in Ids /\ heir # p
    <3> HIDE DEF least
    <3>1. least \in DOMAIN g.line[p] /\ heir \in payers  BY <2>4
    <3> QED  BY <1>2, <1>11, <3>1
  <2> HIDE DEF heir, heirs, users, payers, least
  <2> DEFINE v == [i \in Ids |-> IF i = p THEN 0
                                 ELSE IF i = heir THEN g.value[heir] + g.value[p]
                                 ELSE g.value[i]]
  <2>6. v \in [Ids -> Nat]  BY SMTT(90), <1>2, <2>5
  <2>7. r2.value = v  BY <1>2, <1>8, <2>5 DEF GasRecords
  <2>8. /\ r2.purse = rest.purse /\ r2.lock = rest.lock
        /\ r2.deposits = rest.deposits /\ r2.ok = rest.ok
    BY <1>8 DEF GasRecords
  <2>9. r2 \in GasRecords
    BY <1>8, <2>6, <2>7 DEF GasRecords
  <2> HIDE DEF r2
  <2>10. \A i \in Ids \ {p} : r2.value[i] >= g.value[i]  BY SMTT(90), <1>2, <2>5, <2>7
  <2> QED  BY <1>4, <1>8, <2>1, <2>8, <2>9, <2>10 DEF Consumed
<1> HIDE DEF users, heirs
<1> QED  BY <1>9, <1>10, <1>11

-----------------------------------------------------------------------------
(* Messages, holds and tasks. *)

\* A message and its reply: one is told from the other, and both from None.
LEMMA IdFacts ==
  \A i \in Ids :
    /\ Reply(i) \in Ids /\ Msg(i) \in Ids /\ IsReply(Reply(i)) /\ ~IsReply(Msg(i))
    /\ Reply(i)[1] = i[1] /\ Msg(i)[1] = i[1] /\ i[1] \in Messages
    /\ Msg(Reply(i)) = Msg(i) /\ Reply(Msg(i)) = Reply(i)
    /\ IsReply(i) => Reply(i) = i
    /\ ~IsReply(i) => Msg(i) = i
    /\ IsReply(i) \in BOOLEAN
    /\ i # None
BY SMTT(90), NoneAssumption DEF Ids, Reply, Msg, IsReply

\* A storage of holds maps identifiers to intervals of blocks.
LEMMA HoldFields ==
  ASSUME NEW h \in Holds
  PROVE  DOMAIN h \subseteq Ids /\ \A i \in DOMAIN h : h[i] \in [start : Nat, finish : Nat]
BY DEF Holds

\* h1 is h without the hold of id.
Without(h1, h, id) ==
  h1 \in Holds /\ DOMAIN h1 = DOMAIN h \ {id} /\ \A i \in DOMAIN h \ {id} : h1[i] = h[i]

\* A hold that is removed: the storage has the others, as they were.
LEMMA DropHold ==
  ASSUME NEW h \in Holds, NEW id
  PROVE  Without(Drop(h, id), h, id)
<1>1. PICK D \in SUBSET Ids : h \in [D -> [start : Nat, finish : Nat]]  BY DEF Holds
<1>2. Drop(h, id) \in [D \ {id} -> [start : Nat, finish : Nat]]  BY <1>1 DEF Drop
<1>3. D \ {id} \in SUBSET Ids  OBVIOUS
<1>4. Drop(h, id) \in Holds  BY <1>2, <1>3, Zenon DEF Holds
<1> QED  BY <1>1, <1>4 DEF Without, Drop

\* A storage without the hold is the storage it was.
LEMMA KeepHold ==
  ASSUME NEW h \in Holds, NEW id, id \notin DOMAIN h
  PROVE  Without(h, h, id)
BY DEF Without

\* h1 is h with a hold of id from s to f.
WithHold(h1, h, id, s, f) ==
  /\ h1 \in Holds /\ DOMAIN h1 = DOMAIN h \cup {id} /\ h1[id] = [start |-> s, finish |-> f]
  /\ \A i \in DOMAIN h \ {id} : h1[i] = h[i]

\* A hold that is inserted: the storage has it, and the others as they were.
LEMMA PutHold ==
  ASSUME NEW h \in Holds, NEW id \in Ids, NEW s \in Nat, NEW f \in Nat
  PROVE  WithHold(Put(h, id, [start |-> s, finish |-> f]), h, id, s, f)
<1> DEFINE v == [start |-> s, finish |-> f]
<1>1. PICK D \in SUBSET Ids : h \in [D -> [start : Nat, finish : Nat]]  BY DEF Holds
<1>2. v \in [start : Nat, finish : Nat]  OBVIOUS
<1> HIDE DEF v
<1>3. Put(h, id, v) \in [D \cup {id} -> [start : Nat, finish : Nat]]  BY <1>1, <1>2 DEF Put
<1>4. D \cup {id} \in SUBSET Ids  OBVIOUS
<1>5. Put(h, id, v) \in Holds  BY <1>3, <1>4, Zenon DEF Holds
<1>6. /\ DOMAIN Put(h, id, v) = DOMAIN h \cup {id} /\ Put(h, id, v)[id] = v
      /\ \A i \in DOMAIN h \ {id} : Put(h, id, v)[i] = h[i]
  BY <1>1 DEF Put
<1> QED  BY <1>5, <1>6 DEF WithHold, v

\* A scheduled task is told by its block, its kind and its message.
LEMMA TaskIs ==
  ASSUME NEW at, NEW kind, NEW id
  PROVE  /\ Task(at, kind, id).at = at /\ Task(at, kind, id).kind = kind
         /\ Task(at, kind, id).id = id
         /\ at \in Nat /\ kind \in Kinds /\ id \in Ids => Task(at, kind, id) \in Tasks
         /\ \A t \in Tasks : t.at = at /\ t.kind = kind /\ t.id = id => t = Task(at, kind, id)
BY SMTT(90) DEF Task, Tasks

\* A message that a task will answer at once is stashed.
LEMMA SentIsStashed == ASSUME Scheduled PROVE SentUser \subseteq DOMAIN stash
<1> SUFFICES ASSUME NEW t \in pool, t.kind = "SendUserMessage" PROVE t.id \in DOMAIN stash
  BY DEF SentUser
<1>1. t.kind \in StashKinds  BY DEF StashKinds
<1> QED  BY <1>1 DEF Scheduled

\* The sender of every message that was sent is a user or the program.
LEMMA SourceFields ==
  ASSUME Types
  PROVE  DOMAIN source \subseteq Messages /\ \A m \in DOMAIN source : source[m] \in {"user", "program"}
BY DEF Types

-----------------------------------------------------------------------------
(* The ways a message moves. *)

\* The tasks of a message that ends its hold are gone but for wake-ups.
Unscheduled(id) ==
  /\ pool' \subseteq pool
  /\ \A t \in pool : t.id # id => t \in pool'
  /\ \A t \in pool' : t.id = id => t.kind = "WakeMessage"

\* The message id leaves where it is.
Leaves(id) ==
  /\ Without(waitlist', waitlist, id) /\ Without(mailbox', mailbox, id)
  /\ Without(stash', stash, id) /\ Unscheduled(id)
  /\ Control' /\ UNCHANGED source
  /\ running' = IF running = id THEN None ELSE running
  /\ active' \in BOOLEAN /\ (active' => active)

\* What is left has its task.
LEMMA LeavesScheduled == ASSUME Scheduled, NEW id, Leaves(id) PROVE Scheduled'
<1>1. ASSUME NEW h1, NEW h, NEW i, Without(h1, h, id), i \in DOMAIN h1
      PROVE  i \in DOMAIN h /\ i # id /\ h1[i] = h[i]
  BY <1>1 DEF Without
<1>2. ASSUME NEW h1, NEW h, NEW i, Without(h1, h, id), i \in DOMAIN h, i # id
      PROVE  i \in DOMAIN h1 /\ h1[i] = h[i]
  BY <1>2 DEF Without
<1>3. /\ Without(waitlist', waitlist, id) /\ Without(mailbox', mailbox, id)
      /\ Without(stash', stash, id) /\ pool' \subseteq pool
      /\ \A t \in pool : t.id # id => t \in pool'
      /\ \A t \in pool' : t.id = id => t.kind = "WakeMessage"
  BY DEF Leaves, Unscheduled
<1>4. ASSUME NEW i \in DOMAIN waitlist'
      PROVE  \E t \in pool' : t.id = i /\ t.at = waitlist'[i].finish
                              /\ t.kind \in {"RemoveFromWaitlist", "WakeMessage"}
  <2>1. i \in DOMAIN waitlist /\ i # id /\ waitlist'[i] = waitlist[i]  BY <1>1, <1>3, <1>4
  <2>2. PICK t \in pool : t.id = i /\ t.at = waitlist[i].finish
                         /\ t.kind \in {"RemoveFromWaitlist", "WakeMessage"}
    BY <2>1 DEF Scheduled
  <2> QED  BY <1>3, <2>1, <2>2
<1>5. ASSUME NEW i \in DOMAIN mailbox'
      PROVE  Task(mailbox'[i].finish, "RemoveFromMailbox", i) \in pool'
  <2>1. i \in DOMAIN mailbox /\ i # id /\ mailbox'[i] = mailbox[i]  BY <1>1, <1>3, <1>5
  <2>2. Task(mailbox[i].finish, "RemoveFromMailbox", i) \in pool  BY <2>1 DEF Scheduled
  <2>3. Task(mailbox[i].finish, "RemoveFromMailbox", i).id = i  BY TaskIs
  <2> QED  BY <1>3, <2>1, <2>2, <2>3
<1>6. ASSUME NEW i \in DOMAIN stash'
      PROVE  \E t \in pool' : t.id = i /\ t.at = stash'[i].finish /\ t.kind \in StashKinds
  <2>1. i \in DOMAIN stash /\ i # id /\ stash'[i] = stash[i]  BY <1>1, <1>3, <1>6
  <2>2. PICK t \in pool : t.id = i /\ t.at = stash[i].finish /\ t.kind \in StashKinds
    BY <2>1 DEF Scheduled
  <2> QED  BY <1>3, <2>1, <2>2
<1>7. ASSUME NEW t \in pool'
      PROVE /\ t.kind = "RemoveFromWaitlist" => t.id \in DOMAIN waitlist' /\ waitlist'[t.id].finish = t.at
            /\ t.kind = "RemoveFromMailbox" => t.id \in DOMAIN mailbox' /\ mailbox'[t.id].finish = t.at
            /\ t.kind \in StashKinds => t.id \in DOMAIN stash' /\ stash'[t.id].finish = t.at
  <2>1. t \in pool /\ (t.id = id => t.kind = "WakeMessage")  BY <1>3
  <2>2. CASE t.id = id  BY <2>1, <2>2 DEF StashKinds
  <2>3. CASE t.id # id
    <3>1. t.kind = "RemoveFromWaitlist" => t.id \in DOMAIN waitlist /\ waitlist[t.id].finish = t.at
      BY <2>1 DEF Scheduled
    <3>2. t.kind = "RemoveFromMailbox" => t.id \in DOMAIN mailbox /\ mailbox[t.id].finish = t.at
      BY <2>1 DEF Scheduled
    <3>3. t.kind \in StashKinds => t.id \in DOMAIN stash /\ stash[t.id].finish = t.at
      BY <2>1 DEF Scheduled
    <3> QED  BY <1>2, <1>3, <2>3, <3>1, <3>2, <3>3
  <2> QED  BY <2>2, <2>3
<1> QED  BY <1>4, <1>5, <1>6, <1>7 DEF Scheduled

\* r is g after the rent of id was charged.
Charged(r, g, id) ==
  /\ r \in GasRecords /\ r.purse = g.purse
  /\ \A i \in Ids : r.value[i] >= g.value[i]
  /\ \A i \in Ids \ {id} : r.lock[i] = g.lock[i]
  /\ \A l \in LockIds : r.lock[id][l] = 0
  /\ r.deposits = g.deposits /\ r.ok = g.ok

\* A message goes from a hold to the queue.
LEMMA Released ==
  ASSUME IInv, NEW id \in DOMAIN waitlist \cup DOMAIN stash, id \notin SentUser,
         Leaves(id), Charged(gas', gas, id), queue' = queue \cup {id}
  PROVE  IInv'
<1> USE DEF IInv
<1>1. /\ DOMAIN waitlist \subseteq Ids /\ DOMAIN mailbox \subseteq Ids /\ DOMAIN stash \subseteq Ids
      /\ queue \subseteq Ids
  BY HoldFields DEF Types
<1>2. /\ DOMAIN waitlist' = DOMAIN waitlist \ {id} /\ DOMAIN mailbox' = DOMAIN mailbox \ {id}
      /\ DOMAIN stash' = DOMAIN stash \ {id} /\ id \in Ids /\ id # None
  BY <1>1, IdFacts DEF Leaves, Without
<1>3. running # id /\ running' = running  BY DEF Places, Leaves
<1>4. Control'  BY DEF Leaves
<1>5. Types'
  BY <1>1 DEF Types, Leaves, Without, Charged, Unscheduled
<1>6. Places'  BY <1>2, <1>3 DEF Places
<1>7. Stored' = Stored  BY <1>2, <1>3, <1>6 DEF Stored, Places
<1>8. Known'  BY <1>7 DEF Known, Leaves, Charged, Unscheduled
<1>9. ReplyFollows'  BY <1>7 DEF ReplyFollows
<1>10. FromProgram'  BY <1>2 DEF FromProgram, Leaves, Charged
<1>11. SentUser' = SentUser  BY DEF SentUser, Leaves, Unscheduled
<1>12. ReplyNodes'  BY <1>7, <1>11 DEF ReplyNodes, Charged
<1>13. LocksAreHolds'
  BY <1>2 DEF LocksAreHolds, Charged, LockIds
<1>14. OneStashTask'  BY DEF OneStashTask, Leaves, Unscheduled
<1>15. Paid'
  BY <1>1, <1>2 DEF Paid, Charged, Leaves, Without
<1>16. ForMailbox'
  <2> SUFFICES ASSUME NEW t \in pool', t.kind = "SendUserMessageToMailbox"
               PROVE /\ gas'.purse[t.id] = t.id /\ gas'.value[t.id] >= MailboxThreshold
                     /\ \A j \in DOMAIN gas'.purse \ {t.id} : gas'.purse[j] # t.id
    BY DEF ForMailbox
  <2>1. t \in pool  BY DEF Leaves, Unscheduled
  <2>2. t.id \in Ids  BY <2>1 DEF Types, Tasks
  <2>3. gas'.value[t.id] \in Nat /\ gas.value[t.id] \in Nat /\ MailboxThreshold \in Nat
    BY <2>2, GasFields, CostsAssumption DEF Types, Charged
  <2> QED  BY SMTT(90), <2>1, <2>2, <2>3 DEF ForMailbox, Charged
<1>17. Owned'  BY <1>7 DEF Owned, Charged, Leaves
<1>18. Scheduled'  BY LeavesScheduled
<1>19. NoUnreachable'  BY DEF NoUnreachable, Charged
<1> QED  BY <1>4, <1>5, <1>6, <1>8, <1>9, <1>10, <1>12, <1>13, <1>14, <1>15, <1>16, <1>17, <1>18, <1>19

\* r is g after id was consumed and the locks of id released.
Ended(r, g, id) ==
  /\ r \in GasRecords
  /\ DOMAIN r.purse = DOMAIN g.purse \ {id}
  /\ \A i \in DOMAIN g.purse \ {id} : r.purse[i] = g.purse[i]
  /\ \A i \in Ids \ {g.purse[id]} : r.value[i] >= g.value[i]
  /\ \A i \in Ids \ {id} : r.lock[i] = g.lock[i]
  /\ \A l \in LockIds : r.lock[id][l] = 0
  /\ r.deposits = g.deposits \ {id} /\ r.ok = g.ok

\* A message is gone and nobody is told.
LEMMA Vanished ==
  ASSUME IInv, NEW id \in Stored, id \notin DOMAIN stash,
         ~active' \/ IsReply(id) \/ source[id[1]] = "user",
         Leaves(id), Ended(gas', gas, id), queue' = queue \ {id}
  PROVE  IInv'
<1> USE DEF IInv
<1>1. /\ DOMAIN waitlist \subseteq Ids /\ DOMAIN mailbox \subseteq Ids /\ DOMAIN stash \subseteq Ids
      /\ queue \subseteq Ids /\ running \in Ids \cup {None} /\ DOMAIN gas.purse \subseteq Ids
  BY HoldFields, GasFields DEF Types, Control
<1>2. /\ DOMAIN waitlist' = DOMAIN waitlist \ {id} /\ DOMAIN mailbox' = DOMAIN mailbox \ {id}
      /\ DOMAIN stash' = DOMAIN stash \ {id} /\ id \in Ids /\ id # None
  <2>1. id \in Ids  BY <1>1 DEF Stored
  <2> QED  BY <2>1, IdFacts DEF Leaves, Without
<1>3. running' \in {running, None} /\ running' # id  BY <1>2 DEF Leaves
<1>4. Control'  BY DEF Leaves
<1>5. Types'
  BY <1>1 DEF Types, Leaves, Without, Ended, Unscheduled
<1>6. Places'
  <2>1. None \notin Ids  BY IdFacts
  <2> QED  BY <1>1, <1>2, <1>3, <2>1 DEF Places
<1>7. Stored' = Stored \ {id}  BY <1>1, <1>2 DEF Stored, Places, Leaves
<1>8. Known'  BY <1>7 DEF Known, Leaves, Ended, Unscheduled
<1>9. ReplyFollows'  BY <1>7 DEF ReplyFollows
<1>10. FromProgram'  BY <1>2 DEF FromProgram, Leaves, Ended
<1>11. SentUser' = SentUser
  BY SMTT(90) DEF SentUser, Leaves, Unscheduled, Scheduled, StashKinds
<1>12. ReplyNodes'
  <2>1. id \notin SentUser  BY SMTT(90) DEF SentUser, Scheduled, StashKinds
  <2>2. \A i \in SentUser : i \in Ids /\ Reply(i) # id
    <3> SUFFICES ASSUME NEW i \in SentUser, Reply(i) = id PROVE FALSE
      BY SMTT(90), <1>1 DEF SentUser, Scheduled, StashKinds
    <3>1. i \in DOMAIN stash /\ i \in Ids /\ ~IsReply(i)
      BY SMTT(90), <1>1 DEF SentUser, Scheduled, StashKinds, FromProgram
    <3>2. Msg(id) = i /\ IsReply(id)  BY <3>1, IdFacts
    <3> QED  BY <3>1, <3>2 DEF ReplyFollows, Stored
  <2> QED  BY <1>7, <1>11, <2>1, <2>2 DEF ReplyNodes, Ended
<1>13. LocksAreHolds'
  BY <1>2 DEF LocksAreHolds, Ended, LockIds
<1>14. OneStashTask'  BY DEF OneStashTask, Leaves, Unscheduled
<1>15. Paid'
  BY <1>1, <1>2 DEF Paid, Ended, Leaves, Without
<1>16. ForMailbox'
  <2> SUFFICES ASSUME NEW t \in pool', t.kind = "SendUserMessageToMailbox"
               PROVE /\ gas'.purse[t.id] = t.id /\ gas'.value[t.id] >= MailboxThreshold
                     /\ \A j \in DOMAIN gas'.purse \ {t.id} : gas'.purse[j] # t.id
    BY DEF ForMailbox
  <2>1. t \in pool  BY DEF Leaves, Unscheduled
  <2>2. t.id \in DOMAIN stash /\ t.id # id /\ t.id \in Ids
    BY <1>1, <2>1 DEF Scheduled, StashKinds
  <2>3. t.id \in DOMAIN gas.purse /\ id \in DOMAIN gas.purse  BY <2>2 DEF Owned, Stored
  <2>4. gas.purse[id] # t.id  BY <2>1, <2>2, <2>3 DEF ForMailbox
  <2>5. gas'.value[t.id] \in Nat /\ gas.value[t.id] \in Nat /\ MailboxThreshold \in Nat
    BY SMTT(90), <2>2, GasFields, CostsAssumption DEF Types, Ended
  <2> QED  BY SMTT(90), <2>1, <2>2, <2>3, <2>4, <2>5 DEF ForMailbox, Ended
<1>17. Owned'
  <2>1. Stored' \subseteq DOMAIN gas'.purse  BY <1>7 DEF Owned, Ended
  <2>2. ASSUME active', NEW i \in DOMAIN gas'.purse
        PROVE  i \in Stored' \/ (IsReply(i) /\ Msg(i) \in Stored')
    <3>1. i \in DOMAIN gas.purse /\ i # id /\ active /\ i \in Ids
      BY <1>1, <2>2 DEF Ended, Leaves
    <3>2. CASE i \in Stored  BY <1>7, <3>1, <3>2
    <3>3. CASE IsReply(i) /\ Msg(i) \in Stored /\ Msg(i) = id
      <4>1. ~IsReply(id) /\ id[1] = i[1]  BY <3>1, <3>3, IdFacts
      <4>2. source[i[1]] = "program"  BY <3>1, <3>3 DEF FromProgram
      <4> QED  BY <2>2, <4>1, <4>2
    <3>4. CASE IsReply(i) /\ Msg(i) \in Stored /\ Msg(i) # id  BY <1>7, <3>4
    <3> QED  BY <3>1, <3>2, <3>3, <3>4 DEF Owned
  <2> QED  BY <2>1, <2>2 DEF Owned
<1>18. Scheduled'  BY LeavesScheduled
<1>19. NoUnreachable'  BY DEF NoUnreachable, Ended
<1> QED  BY <1>4, <1>5, <1>6, <1>8, <1>9, <1>10, <1>12, <1>13, <1>14, <1>15, <1>16, <1>17, <1>18, <1>19

\* r is g after id was consumed and its reply got a node, unless it had one.
Answered(r, g, id) ==
  /\ r \in GasRecords
  /\ DOMAIN r.purse = (DOMAIN g.purse \ {id}) \cup {Reply(id)}
  /\ \A i \in DOMAIN g.purse \ {id} : r.purse[i] = g.purse[i]
  /\ Reply(id) \notin DOMAIN g.purse => r.purse[Reply(id)] \in {Reply(id), g.purse[id]}
  /\ \A i \in Ids \ {g.purse[id], Reply(id)} : r.value[i] >= g.value[i]
  /\ \A i \in Ids \ {id} : r.lock[i] = g.lock[i]
  /\ \A l \in LockIds : r.lock[id][l] = 0
  /\ r.deposits = g.deposits \ {id} /\ r.ok = g.ok

\* A message is gone and the reply to it queued.
LEMMA Replied ==
  ASSUME IInv, NEW id \in Stored, ~IsReply(id), source[id[1]] = "program",
         Leaves(id), Answered(gas', gas, id), queue' = queue \cup {Reply(id)}, id \notin queue
  PROVE  IInv'
<1> USE DEF IInv
<1>1. /\ DOMAIN waitlist \subseteq Ids /\ DOMAIN mailbox \subseteq Ids /\ DOMAIN stash \subseteq Ids
      /\ queue \subseteq Ids /\ running \in Ids \cup {None} /\ DOMAIN gas.purse \subseteq Ids
  BY HoldFields, GasFields DEF Types, Control
<1>2. /\ DOMAIN waitlist' = DOMAIN waitlist \ {id} /\ DOMAIN mailbox' = DOMAIN mailbox \ {id}
      /\ DOMAIN stash' = DOMAIN stash \ {id} /\ id \in Ids /\ id # None
  <2>1. id \in Ids  BY <1>1 DEF Stored
  <2> QED  BY <2>1, IdFacts DEF Leaves, Without
<1> DEFINE re == Reply(id)
<1>a. /\ re \in Ids /\ re # None /\ IsReply(re) /\ re # id /\ Msg(re) = id /\ re[1] = id[1]
      /\ id[1] \in DOMAIN source
  <2>1. id[1] \in DOMAIN source  BY DEF Known
  <2> QED  BY <1>2, <2>1, IdFacts
<1>b. re \notin Stored  BY <1>a DEF ReplyFollows
<1> HIDE DEF re
<1>3. running' \in {running, None} /\ running' # id  BY <1>2 DEF Leaves
<1>4. Control'  BY DEF Leaves
<1>5. Types'
  BY <1>1, <1>a DEF Types, Leaves, Without, Answered, Unscheduled, re
<1>6. Places'
  <2>1. None \notin Ids  BY IdFacts
  <2>2. Places  OBVIOUS
  <2>3. queue' \subseteq queue \cup {re} /\ id \notin queue'  BY <1>a DEF Leaves, re
  <2>4. re \notin DOMAIN waitlist' /\ re \notin DOMAIN mailbox' /\ re \notin DOMAIN stash'
        /\ running' # re
    BY <1>2, <1>3, <1>a, <1>b DEF Stored
  <2> QED  BY ONLY SMTT(90), <1>1, <1>2, <1>3, <2>1, <2>2, <2>3, <2>4 DEF Places
<1>7. Stored' = (Stored \ {id}) \cup {re}  BY <1>1, <1>2, <1>a DEF Stored, Places, Leaves, re
<1>8. Known'
  <2>1. \A i \in Stored' : i[1] \in DOMAIN source'  BY <1>7, <1>a DEF Known, Leaves
  <2>2. \A t \in pool' : t.id[1] \in DOMAIN source'  BY DEF Known, Leaves, Unscheduled
  <2>3. ASSUME NEW i \in DOMAIN gas'.purse
        PROVE  i[1] \in DOMAIN source' /\ gas'.purse[i][1] \in DOMAIN source'
    <3>1. CASE i \in DOMAIN gas.purse \ {id}  BY <3>1 DEF Known, Answered, Leaves
    <3>2. CASE i = re /\ i \notin DOMAIN gas.purse
      <4>1. id \in DOMAIN gas.purse  BY DEF Owned
      <4> QED  BY <3>2, <4>1, <1>a DEF Known, Answered, Leaves, re
    <3> QED  BY <3>1, <3>2, <1>a DEF Answered, re
  <2> QED  BY <2>1, <2>2, <2>3 DEF Known
<1>9. ReplyFollows'
  <2> SUFFICES ASSUME NEW i \in Stored', IsReply(i) PROVE Msg(i) \notin Stored'
    BY DEF ReplyFollows
  <2>1. i \in Ids  BY <1>1, <1>7, <1>a DEF Stored
  <2>2. ~IsReply(Msg(i))  BY <2>1, IdFacts
  <2> QED  BY <1>7, <1>a, <2>2 DEF ReplyFollows
<1>10. FromProgram'  BY <1>2, <1>a DEF FromProgram, Leaves, Answered, re
<1>11. SentUser' = SentUser \ {id}
  BY DEF SentUser, Leaves, Unscheduled
<1>12. ReplyNodes'
  <2>1. gas'.deposits \subseteq DOMAIN gas'.purse  BY DEF ReplyNodes, Answered
  <2>2. ASSUME NEW i \in DOMAIN gas'.purse, IsReply(i), i \notin Stored'
        PROVE  i \in gas'.deposits \/ Msg(i) \in SentUser'
    <3>1. i # re /\ i # id /\ i \in DOMAIN gas.purse /\ i \notin Stored
      BY <1>7, <1>a, <2>2 DEF Answered, re
    <3>2. Msg(i) # id  BY SMTT(90), <1>1, <3>1, <2>2, <1>a, IdFacts
    <3> QED  BY <2>2, <3>1, <3>2, <1>11 DEF ReplyNodes, Answered
  <2>3. ASSUME NEW i \in SentUser' PROVE Reply(i) \in DOMAIN gas'.purse
    <3>1. i \in SentUser /\ i \in DOMAIN stash  BY <1>11, SentIsStashed
    <3>2. IsReply(Reply(i))  BY <1>1, <3>1, IdFacts
    <3> QED  BY <3>1, <3>2 DEF ReplyNodes, Answered
  <2> QED  BY <2>1, <2>2, <2>3 DEF ReplyNodes
<1>13. LocksAreHolds'
  BY <1>2 DEF LocksAreHolds, Answered, LockIds
<1>14. OneStashTask'  BY DEF OneStashTask, Leaves, Unscheduled
<1>15. Paid'
  BY <1>1, <1>2 DEF Paid, Answered, Leaves, Without
<1>16. ForMailbox'
  <2> SUFFICES ASSUME NEW t \in pool', t.kind = "SendUserMessageToMailbox"
               PROVE /\ gas'.purse[t.id] = t.id /\ gas'.value[t.id] >= MailboxThreshold
                     /\ \A j \in DOMAIN gas'.purse \ {t.id} : gas'.purse[j] # t.id
    BY DEF ForMailbox
  <2>1. t \in pool  BY DEF Leaves, Unscheduled
  <2>2. t.id \in DOMAIN stash /\ t.id # id /\ t.id \in Ids /\ t.id # re
    <3>1. t.kind \in StashKinds  BY DEF StashKinds
    <3>2. t.id \in DOMAIN stash  BY <2>1, <3>1 DEF Scheduled
    <3>3. ~IsReply(t.id)  BY <3>2 DEF FromProgram
    <3>4. t.id # id  BY <3>1 DEF Leaves, Unscheduled, StashKinds
    <3> QED  BY <1>1, <1>a, <3>2, <3>3, <3>4
  <2>3. t.id \in DOMAIN gas.purse /\ id \in DOMAIN gas.purse  BY <2>2 DEF Owned, Stored
  <2>4. gas.purse[id] # t.id  BY <2>1, <2>2, <2>3 DEF ForMailbox
  <2>5. gas'.value[t.id] \in Nat /\ gas.value[t.id] \in Nat /\ MailboxThreshold \in Nat
    BY SMTT(90), <2>2, GasFields, CostsAssumption DEF Types, Answered
  <2>6. gas.purse[t.id] = t.id /\ gas.value[t.id] >= MailboxThreshold  BY <2>1 DEF ForMailbox
  <2>7. gas'.purse[t.id] = t.id  BY <2>2, <2>3, <2>6 DEF Answered
  <2>8. gas'.value[t.id] >= MailboxThreshold
    <3>1. gas'.value[t.id] >= gas.value[t.id]  BY <2>2, <2>4 DEF Answered, re
    <3> QED  BY SMTT(90), <2>5, <2>6, <3>1
  <2>9. ASSUME NEW j \in DOMAIN gas'.purse \ {t.id} PROVE gas'.purse[j] # t.id
    <3>1. CASE j \in DOMAIN gas.purse \ {id}  BY SMTT(90), <2>1, <2>9, <3>1 DEF ForMailbox, Answered
    <3>2. CASE j = re /\ re \notin DOMAIN gas.purse  BY <2>2, <2>4, <3>2 DEF Answered, re
    <3> QED  BY <2>9, <3>1, <3>2, <1>a DEF Answered, re
  <2> QED  BY <2>7, <2>8, <2>9
<1>17. Owned'
  <2>1. Stored' \subseteq DOMAIN gas'.purse  BY <1>7 DEF Owned, Answered, re
  <2>2. ASSUME active', NEW i \in DOMAIN gas'.purse
        PROVE  i \in Stored' \/ (IsReply(i) /\ Msg(i) \in Stored')
    <3>1. CASE i = re  BY <1>7, <3>1
    <3>2. CASE i # re
      <4>1. i \in DOMAIN gas.purse /\ i # id /\ active /\ i \in Ids
        BY <1>1, <2>2, <3>2 DEF Answered, Leaves, re
      <4>2. IsReply(i) => Msg(i) # id  BY <3>2, <4>1, <1>2, IdFacts DEF re
      <4> QED  BY <1>7, <4>1, <4>2 DEF Owned
    <3> QED  BY <3>1, <3>2
  <2> QED  BY <2>1, <2>2 DEF Owned
<1>18. Scheduled'  BY LeavesScheduled
<1>19. NoUnreachable'  BY DEF NoUnreachable, Answered
<1> QED  BY <1>4, <1>5, <1>6, <1>8, <1>9, <1>10, <1>12, <1>13, <1>14, <1>15, <1>16, <1>17, <1>18, <1>19

-----------------------------------------------------------------------------
(* The handlers that end a hold. *)

\* A call whose condition holds leaves the gas record as it is.
LEMMA ExpectTrue ==
  ASSUME NEW g \in GasRecords
  PROVE  Expect(g, TRUE) = g
BY DEF Expect, GasRecords

\* charge_for_hold leaves the message without a lock and no node with less gas.
LEMMA ChargeHold ==
  ASSUME NEW g \in GasRecords, NEW id \in DOMAIN g.purse, NEW lock \in LockIds,
         NEW hold \in [start : Nat, finish : Nat], NEW cost \in Nat, bn \in Nat,
         \A l \in LockIds \ {lock} : g.lock[id][l] = 0
  PROVE  Charged(ChargeForHold(g, id, hold, lock, cost), g, id)
<1> DEFINE r == ChargeForHold(g, id, hold, lock, cost)
<1>1. /\ r \in GasRecords /\ r.purse = g.purse
      /\ r.value[g.purse[id]] >= g.value[g.purse[id]]
      /\ \A i \in Ids \ {g.purse[id]} : r.value[i] = g.value[i]
      /\ r.lock = [g.lock EXCEPT ![id][lock] = 0]
      /\ r.deposits = g.deposits /\ r.ok = g.ok
  BY ChargeIs
<1> HIDE DEF r
<1>2. id \in Ids /\ g.lock \in [Ids -> [LockIds -> Nat]] /\ g.value \in [Ids -> Nat]  BY GasFields
<1>3. \A i \in Ids : r.value[i] >= g.value[i]  BY SMTT(90), <1>1, <1>2
<1>4. /\ \A i \in Ids \ {id} : r.lock[i] = g.lock[i]
      /\ \A l \in LockIds : r.lock[id][l] = 0
  BY SMTT(90), <1>1, <1>2
<1> QED  BY <1>1, <1>3, <1>4 DEF Charged, r

\* Consuming the node of a message that was charged for its hold ends it.
LEMMA ConsumeCharged ==
  ASSUME NEW g \in GasRecords, NEW id \in DOMAIN g.purse, NEW c, Charged(c, g, id)
  PROVE  Ended(Consume(c, id), g, id)
<1> DEFINE r == Consume(c, id)
<1>1. c \in GasRecords /\ c.purse = g.purse /\ id \in DOMAIN c.purse
      /\ \A l \in LockIds : c.lock[id][l] = 0
  BY DEF Charged
<1>2. Consumed(r, c, id)  BY <1>1, ConsumeIs
<1> HIDE DEF r
<1>3. \A i \in Ids \ {g.purse[id]} : r.value[i] >= g.value[i]
  <2> SUFFICES ASSUME NEW i \in Ids \ {g.purse[id]} PROVE r.value[i] >= g.value[i]  OBVIOUS
  <2>1. r.value[i] \in Nat /\ c.value[i] \in Nat /\ g.value[i] \in Nat
    BY <1>1, <1>2, GasFields DEF Consumed
  <2>2. r.value[i] >= c.value[i] /\ c.value[i] >= g.value[i]
    BY <1>1, <1>2 DEF Consumed, Charged
  <2> QED  BY SMTT(90), <2>1, <2>2
<1> QED  BY <1>1, <1>2, <1>3 DEF Consumed, Charged, Ended, r

\* The reply has a node already.
LEMMA ReplyHasNode ==
  ASSUME NEW g, NEW id \in Ids, ~IsReply(id), NEW e, Ended(e, g, id), Reply(id) \in DOMAIN g.purse
  PROVE  Answered(e, g, id)
<1>1. Reply(id) # id  BY IdFacts
<1> QED  BY <1>1 DEF Ended, Answered

\* The node of the reply is made, unless a deposit was made for it.
LEMMA CreateReply ==
  ASSUME NEW g \in GasRecords, NEW id \in DOMAIN g.purse, ~IsReply(id), NEW e, Ended(e, g, id),
         Reply(id) \in DOMAIN g.purse <=> Reply(id) \in g.deposits, NEW amount \in Nat
  PROVE  Answered(Create(e, Reply(id), amount, TRUE), g, id)
<1> DEFINE re == Reply(id)
           r == Create(e, re, amount, TRUE)
<1>1. id \in Ids /\ re \in Ids /\ re # id  BY GasFields, IdFacts
<1>2. CASE re \in g.deposits
  <2>1. r = e  BY <1>1, <1>2 DEF Create, ExistsAndDeposit, Ended
  <2> QED  BY <1>1, <1>2, <2>1, ReplyHasNode
<1>3. CASE re \notin g.deposits
  <2> DEFINE line == <<>>
             n == NewNode(e, re, amount, line)
  <2>1. r = n  BY <1>1, <1>3 DEF Create, ExistsAndDeposit, Ended
  <2>2. e \in GasRecords /\ line \in Seq(Ids) /\ re \notin DOMAIN e.purse  BY SMTT(90), <1>3 DEF Ended
  <2>3. /\ n \in GasRecords
        /\ DOMAIN n.purse = DOMAIN e.purse \cup {re} /\ n.purse[re] = re
        /\ \A i \in DOMAIN e.purse \ {re} : n.purse[i] = e.purse[i]
        /\ n.value = [e.value EXCEPT ![re] = amount]
        /\ n.lock = e.lock /\ n.deposits = e.deposits
        /\ n.ok = (e.ok /\ re \notin DOMAIN e.purse)
    <3> HIDE DEF re, line, r
    <3>1. e \in GasRecords /\ re \in Ids /\ amount \in Nat /\ line \in Seq(Ids)  BY <1>1, <2>2
    <3> QED  BY ONLY <3>1, NewNodeIs
  <2> HIDE DEF n, r, re
  <2>4. e.value \in [Ids -> Nat] /\ e.ok \in BOOLEAN  BY <2>2, GasFields
  <2>5. \A i \in Ids \ {g.purse[id], re} : n.value[i] >= g.value[i]
    BY <2>3, <2>4 DEF Ended
  <2>6. n.ok = g.ok  BY <2>2, <2>3, <2>4 DEF Ended
  <2>7. Answered(n, g, id)
    BY <1>1, <2>2, <2>3, <2>5, <2>6 DEF Answered, Ended, re
  <2> QED  BY <2>1, <2>7 DEF r, re
<1> QED  BY <1>2, <1>3

\* The reply shares the purse of the message, unless a deposit was made for it.
LEMMA SplitReply ==
  ASSUME NEW g \in GasRecords, NEW id \in DOMAIN g.purse, ~IsReply(id), NEW c, Charged(c, g, id),
         Reply(id) \in DOMAIN g.purse <=> Reply(id) \in g.deposits
  PROVE  Answered(Consume(Split(c, id, Reply(id), TRUE), id), g, id)
<1> DEFINE re == Reply(id)
           s == Split(c, id, re, TRUE)
           r == Consume(s, id)
<1>1. id \in Ids /\ re \in Ids /\ re # id  BY GasFields, IdFacts
<1>2. CASE re \in g.deposits
  <2>1. s = c  BY <1>2 DEF Split, ExistsAndDeposit, Charged
  <2> QED  BY <1>1, <1>2, <2>1, ConsumeCharged, ReplyHasNode
<1>3. CASE re \notin g.deposits
  <2> HIDE DEF re
  <2>1. /\ c \in GasRecords /\ c.purse = g.purse /\ id \in DOMAIN c.purse
        /\ re \in Ids \ DOMAIN c.purse /\ re \notin c.deposits /\ TRUE \in BOOLEAN
    BY <1>1, <1>3 DEF Charged, re
  <2>2. /\ s \in GasRecords
        /\ DOMAIN s.purse = DOMAIN c.purse \cup {re} /\ s.purse[re] = c.purse[id]
        /\ \A i \in DOMAIN c.purse : s.purse[i] = c.purse[i]
        /\ s.value = c.value /\ s.lock = c.lock /\ s.deposits = c.deposits /\ s.ok = c.ok
    BY ONLY <2>1, SplitIs
  <2> HIDE DEF s
  <2>3. id \in DOMAIN s.purse /\ \A l \in LockIds : s.lock[id][l] = 0
    BY <2>1, <2>2 DEF Charged
  <2>4. Consumed(r, s, id)  BY <2>2, <2>3, ConsumeIs
  <2> HIDE DEF r
  <2>5. \A i \in Ids \ {g.purse[id], re} : r.value[i] >= g.value[i]
    <3> SUFFICES ASSUME NEW i \in Ids \ {g.purse[id]} PROVE r.value[i] >= g.value[i]  OBVIOUS
    <3>1. r.value[i] \in Nat /\ c.value[i] \in Nat /\ g.value[i] \in Nat
      BY <2>1, <2>4, GasFields DEF Consumed
    <3>2. s.purse[id] = g.purse[id]  BY <2>1, <2>2
    <3>3. r.value[i] >= c.value[i] /\ c.value[i] >= g.value[i]
      BY <2>2, <2>4, <3>2 DEF Consumed, Charged
    <3> QED  BY SMTT(90), <3>1, <3>3
  <2>6. /\ DOMAIN r.purse = (DOMAIN g.purse \ {id}) \cup {re}
        /\ \A i \in DOMAIN g.purse \ {id} : r.purse[i] = g.purse[i]
        /\ r.purse[re] = g.purse[id]
    BY <1>1, <2>1, <2>2, <2>4 DEF Consumed
  <2>7. /\ r \in GasRecords /\ r.lock = c.lock /\ r.deposits = c.deposits \ {id} /\ r.ok = c.ok
    BY <2>2, <2>4 DEF Consumed
  <2>8. Answered(r, g, id)  BY <2>5, <2>6, <2>7 DEF Answered, Charged, re
  <2> QED  BY <2>8 DEF r, s, re
<1> QED  BY <1>2, <1>3

\* remove_from_mailbox takes the hold and its task, and no other.
LEMMA LeavesMailbox ==
  ASSUME IInv, NEW id \in DOMAIN mailbox, LeaveMailbox(id),
         UNCHANGED <<block, running, waitlist, stash, source, active>>
  PROVE  Leaves(id)
<1> USE DEF IInv
<1>1. Control'  BY DEF Control, block
<1>2. Without(mailbox', mailbox, id)  BY DropHold DEF Types, LeaveMailbox
<1>3. Without(waitlist', waitlist, id) /\ Without(stash', stash, id)
  BY KeepHold DEF Types, Places
<1>4. running # id /\ active \in BOOLEAN  BY DEF Places, Types
<1>5. Unscheduled(id)
  <2> DEFINE task == Task(mailbox[id].finish, "RemoveFromMailbox", id)
  <2>1. pool' = pool \ {task} /\ task.id = id  BY TaskIs DEF LeaveMailbox
  <2>2. ASSUME NEW t \in pool', t.id = id PROVE t.kind = "WakeMessage"
    <3>1. t \in pool /\ t # task /\ t \in Tasks  BY <2>1 DEF Types
    <3>2. t.kind # "RemoveFromMailbox"  BY SMTT(90), <2>2, <3>1, TaskIs DEF Scheduled
    <3>3. t.kind # "RemoveFromWaitlist" /\ t.kind \notin StashKinds
      BY <2>2, <3>1 DEF Scheduled, Places
    <3> QED  BY <3>1, <3>2, <3>3 DEF Tasks, Kinds, StashKinds
  <2> HIDE DEF task
  <2> QED  BY <2>1, <2>2 DEF Unscheduled
<1> QED  BY <1>1, <1>2, <1>3, <1>4, <1>5 DEF Leaves

\* Leaving the waitlist takes the hold and its task, and no other.
LEMMA LeavesWaitlist ==
  ASSUME IInv, NEW id \in DOMAIN waitlist, NEW task, LeaveWaitlist(id, task),
         task = None \/ task.id = id,
         UNCHANGED <<block, running, mailbox, stash, source, active>>
  PROVE  Leaves(id)
<1> USE DEF IInv
<1>1. Control'  BY DEF Control, block
<1>2. Without(waitlist', waitlist, id)  BY DropHold DEF Types, LeaveWaitlist
<1>3. Without(mailbox', mailbox, id) /\ Without(stash', stash, id)
  BY KeepHold DEF Types, Places
<1>4. running # id /\ active \in BOOLEAN  BY DEF Places, Types
<1>5. Unscheduled(id)
  <2> DEFINE own == Task(waitlist[id].finish, "RemoveFromWaitlist", id)
  <2>1. pool' = pool \ {task, own} /\ own.id = id  BY SMTT(90), TaskIs DEF LeaveWaitlist
  <2>2. None \notin pool
    <3>1. Tasks = [at : Nat, kind : {TaskKinds[i] : i \in DOMAIN TaskKinds}, id : Ids]
      <4>1. {TaskKinds[i] : i \in DOMAIN TaskKinds} = Kinds  BY SMTT(90) DEF Kinds, TaskKinds
      <4> QED  BY <4>1 DEF Tasks
    <3>2. pool \subseteq Tasks  BY DEF Types
    <3> QED  BY ONLY <3>1, <3>2, NoneAssumption
  <2>3. ASSUME NEW t \in pool', t.id = id PROVE t.kind = "WakeMessage"
    <3>1. t \in pool /\ t # own /\ t \in Tasks  BY <2>1 DEF Types
    <3>2. t.kind # "RemoveFromWaitlist"  BY SMTT(90), <2>3, <3>1, TaskIs DEF Scheduled
    <3>3. t.kind # "RemoveFromMailbox" /\ t.kind \notin StashKinds
      BY <2>3, <3>1 DEF Scheduled, Places
    <3> QED  BY <3>1, <3>2, <3>3 DEF Tasks, Kinds, StashKinds
  <2> HIDE DEF own
  <2> QED  BY <2>1, <2>2, <2>3 DEF Unscheduled
<1> QED  BY <1>1, <1>2, <1>3, <1>4, <1>5 DEF Leaves

\* A delayed message leaves the stash with its task.
LEMMA LeavesStash ==
  ASSUME IInv, NEW task \in pool, task.kind \in StashKinds, NEW id, id = task.id,
         stash' = Drop(stash, id), pool' = pool \ {task},
         UNCHANGED <<block, running, waitlist, mailbox, source, active>>
  PROVE  Leaves(id)
<1> USE DEF IInv
<1>1. Control'  BY DEF Control, block
<1>a. id \in DOMAIN stash  BY DEF Scheduled
<1>2. Without(stash', stash, id)  BY DropHold DEF Types
<1>3. Without(mailbox', mailbox, id) /\ Without(waitlist', waitlist, id)
  BY <1>a, KeepHold DEF Types, Places
<1>4. running # id /\ active \in BOOLEAN  BY <1>a DEF Places, Types
<1>5. Unscheduled(id)
  <2>3. ASSUME NEW t \in pool', t.id = id PROVE t.kind = "WakeMessage"
    <3>1. t \in pool /\ t # task /\ t \in Tasks  BY DEF Types
    <3>2. t.kind \notin StashKinds  BY <2>3, <3>1 DEF OneStashTask
    <3>3. t.kind # "RemoveFromMailbox" /\ t.kind # "RemoveFromWaitlist"
      BY SMTT(90), <1>a, <2>3, <3>1 DEF Scheduled, Places
    <3> QED  BY <3>1, <3>2, <3>3 DEF Tasks, Kinds, StashKinds
  <2> QED  BY <2>3 DEF Unscheduled
<1> QED  BY <1>1, <1>2, <1>3, <1>4, <1>5 DEF Leaves

\* What a hold costs when it ends.
LEMMA HoldsCharged ==
  ASSUME IInv
  PROVE  /\ \A id \in DOMAIN mailbox :
              Charged(ChargeForHold(gas, id, mailbox[id], "Mailbox", MailboxCost), gas, id)
         /\ \A id \in DOMAIN waitlist : Charged(GasAfterWake(id), gas, id)
         /\ \A id \in DOMAIN stash : Charged(GasAfterStash(id), gas, id)
<1> USE DEF IInv
<1>1. gas \in GasRecords /\ bn \in Nat /\ WaitlistCost \in Nat /\ MailboxCost \in Nat /\ StashCost \in Nat
  BY CostsAssumption DEF Types, Control
<1>2. \A id \in Stored : id \in DOMAIN gas.purse  BY DEF Owned
<1>3. ASSUME NEW id \in DOMAIN mailbox
      PROVE Charged(ChargeForHold(gas, id, mailbox[id], "Mailbox", MailboxCost), gas, id)
  <2>1. mailbox[id] \in [start : Nat, finish : Nat] /\ id \in Ids  BY HoldFields DEF Types
  <2>2. id \in DOMAIN gas.purse  BY <1>2 DEF Stored
  <2>3. \A l \in LockIds \ {"Mailbox"} : gas.lock[id][l] = 0
    BY <2>1 DEF LocksAreHolds, LockIds, Places
  <2> QED  BY <1>1, <2>1, <2>2, <2>3, ChargeHold DEF LockIds
<1>4. ASSUME NEW id \in DOMAIN waitlist PROVE Charged(GasAfterWake(id), gas, id)
  <2>1. waitlist[id] \in [start : Nat, finish : Nat] /\ id \in Ids  BY HoldFields DEF Types
  <2>2. id \in DOMAIN gas.purse  BY <1>2 DEF Stored
  <2>3. \A l \in LockIds \ {"Waitlist"} : gas.lock[id][l] = 0
    BY <2>1 DEF LocksAreHolds, LockIds, Places
  <2> QED  BY <1>1, <2>1, <2>2, <2>3, ChargeHold DEF LockIds, GasAfterWake
<1>5. ASSUME NEW id \in DOMAIN stash PROVE Charged(GasAfterStash(id), gas, id)
  <2>1. stash[id] \in [start : Nat, finish : Nat] /\ id \in Ids  BY HoldFields DEF Types
  <2>2. id \in DOMAIN gas.purse  BY <1>2 DEF Stored
  <2>3. \A l \in LockIds \ {"DispatchStash"} : gas.lock[id][l] = 0
    BY <2>1 DEF LocksAreHolds, LockIds, Places
  <2> QED  BY <1>1, <2>1, <2>2, <2>3, ChargeHold DEF LockIds, GasAfterStash
<1> QED  BY <1>3, <1>4, <1>5

\* A reply that was not made yet has a node only if a deposit was made for it.
LEMMA ReplyNodeIsDeposit ==
  ASSUME IInv, NEW id \in Stored, ~IsReply(id), id \notin SentUser
  PROVE  /\ Reply(id) \in DOMAIN gas.purse <=> Reply(id) \in gas.deposits
         /\ Reply(id) \notin Stored
<1> USE DEF IInv
<1>1. id \in Ids  BY HoldFields DEF Stored, Types, Control
<1>2. IsReply(Reply(id)) /\ Msg(Reply(id)) = id  BY <1>1, IdFacts
<1>3. Reply(id) \notin Stored  BY <1>2 DEF ReplyFollows
<1> QED  BY <1>2, <1>3 DEF ReplyNodes

\* A message leaves the mailbox and is answered: claim_value, send_reply and the task
\* that removes it when its rent has run out.
LEMMA MailboxRead ==
  ASSUME IInv, NEW id \in DOMAIN mailbox, LeaveMailbox(id), NEW amount \in Nat,
         gas' = Expect(Create(GasAfterRead(id), Reply(id), amount, TRUE), Reply(id) \notin queue),
         queue' = queue \cup {Reply(id)},
         UNCHANGED <<block, running, waitlist, stash, source, active>>
  PROVE  IInv'
<1> USE DEF IInv
<1> DEFINE c == ChargeForHold(gas, id, mailbox[id], "Mailbox", MailboxCost)
           r == Create(Consume(c, id), Reply(id), amount, TRUE)
<1>1. id \in Stored /\ id \in Ids  BY HoldFields DEF Stored, Types
<1>2. ~IsReply(id) /\ source[id[1]] = "program" /\ id \notin queue
  BY DEF FromProgram, Places
<1>3. id \notin SentUser  BY SentIsStashed DEF Places
<1>4. gas \in GasRecords /\ id \in DOMAIN gas.purse  BY <1>1 DEF Types, Owned
<1>5. Ended(Consume(c, id), gas, id)  BY <1>4, HoldsCharged, ConsumeCharged
<1>6. /\ Reply(id) \in DOMAIN gas.purse <=> Reply(id) \in gas.deposits
      /\ Reply(id) \notin Stored
  BY <1>1, <1>2, <1>3, ReplyNodeIsDeposit
<1>7. Answered(r, gas, id)
  <2> HIDE DEF c
  <2> QED  BY <1>2, <1>4, <1>5, <1>6, CreateReply
<1>8. gas' = Expect(r, TRUE)
  <2>1. (Reply(id) \notin queue) = TRUE  BY <1>6 DEF Stored
  <2> QED  BY <2>1 DEF GasAfterRead
<1> HIDE DEF r
<1>9. gas' = r  BY <1>7, <1>8, ExpectTrue DEF Answered
<1> QED  BY <1>1, <1>2, <1>7, <1>9, LeavesMailbox, Replied

\* claim_value keeps the invariant.
LEMMA ClaimValueStep ==
  ASSUME IInv, NEW id \in DOMAIN mailbox, ClaimValue(id)
  PROVE  IInv'
<1> USE DEF IInv
<1>1. CASE active
  BY <1>1, MailboxRead DEF ClaimValue
<1>2. CASE ~active
  <2> DEFINE c == ChargeForHold(gas, id, mailbox[id], "Mailbox", MailboxCost)
  <2>1. id \in Stored /\ id \notin DOMAIN stash /\ id \notin queue /\ id \in DOMAIN gas.purse
        /\ gas \in GasRecords
    BY DEF Stored, Places, Owned, Types
  <2>2. Ended(Consume(c, id), gas, id)  BY <2>1, HoldsCharged, ConsumeCharged
  <2>3. gas' = Consume(c, id)  BY <1>2 DEF ClaimValue, GasAfterRead
  <2> HIDE DEF c
  <2>4. /\ LeaveMailbox(id) /\ UNCHANGED <<block, running, waitlist, stash, source, active>>
        /\ queue' = queue
    BY <1>2 DEF ClaimValue
  <2>5. Leaves(id)  BY <2>4, LeavesMailbox
  <2> QED  BY <1>2, <2>1, <2>2, <2>3, <2>4, <2>5, Vanished
<1> QED  BY <1>1, <1>2

\* send_reply keeps the invariant.
LEMMA SendReplyStep ==
  ASSUME IInv, NEW id \in DOMAIN mailbox, NEW limit \in GasLimits, SendReply(id, limit)
  PROVE  IInv'
<1> DEFINE amount == IF ExistsAndDeposit(GasAfterRead(id), Reply(id)) THEN 0 ELSE limit
<1>1. amount \in Nat  BY BoundsAssumption
<1>2. /\ LeaveMailbox(id) /\ queue' = queue \cup {Reply(id)}
      /\ gas' = Expect(Create(GasAfterRead(id), Reply(id), amount, TRUE), Reply(id) \notin queue)
      /\ UNCHANGED <<block, running, waitlist, stash, source, active>>
  BY DEF SendReply
<1> HIDE DEF amount
<1> QED  BY <1>1, <1>2, MailboxRead

\* wake_dispatch: a message goes from the waitlist to the queue.
LEMMA Woken ==
  ASSUME IInv, NEW id \in DOMAIN waitlist, NEW task, task = None \/ task.id = id,
         LeaveWaitlist(id, task), gas' = Expect(GasAfterWake(id), id \notin queue),
         queue' = queue \cup {id},
         UNCHANGED <<block, running, mailbox, stash, source, active>>
  PROVE  IInv'
<1> USE DEF IInv
<1>1. Leaves(id)  BY LeavesWaitlist
<1>2. id \notin SentUser  BY SentIsStashed DEF Places
<1>3. Charged(GasAfterWake(id), gas, id)  BY HoldsCharged
<1>4. gas' = Expect(GasAfterWake(id), TRUE)
  <2>1. (id \notin queue) = TRUE  BY DEF Places
  <2> QED  BY <2>1
<1>5. gas' = GasAfterWake(id)  BY <1>3, <1>4, ExpectTrue DEF Charged
<1> QED  BY <1>1, <1>2, <1>3, <1>5, Released

\* The task that wakes a message keeps the invariant, whether the message still waits
\* or was woken before.
LEMMA WakeMessageStep ==
  ASSUME IInv, NEW task \in pool, task.kind = "WakeMessage", WakeMessage(task.id, task)
  PROVE  IInv'
<1> USE DEF IInv
<1>1. CASE task.id \in DOMAIN waitlist
  BY <1>1, Woken DEF WakeMessage
<1>2. CASE task.id \notin DOMAIN waitlist
  <2>1. pool' = pool \ {task} /\ UNCHANGED <<block, queue, running, held, gas, source, active>>
    BY <1>2 DEF WakeMessage
  <2>2. \A t \in pool : t.kind # "WakeMessage" => t \in pool'  BY <2>1
  <2>3. Control' /\ Types' /\ Places' /\ Stored' = Stored
    BY <2>1 DEF Control, Types, Places, Stored, held, block
  <2>4. SentUser' = SentUser  BY <2>1, <2>2 DEF SentUser
  <2>5. Known' /\ ReplyFollows' /\ FromProgram' /\ ReplyNodes' /\ LocksAreHolds'
    BY <2>1, <2>3, <2>4 DEF Known, ReplyFollows, FromProgram, ReplyNodes, LocksAreHolds, held
  <2>6. OneStashTask' /\ Paid' /\ ForMailbox' /\ Owned' /\ NoUnreachable'
    BY <2>1, <2>3 DEF OneStashTask, Paid, ForMailbox, Owned, NoUnreachable, held
  <2>7. Scheduled'
    <3>1. UNCHANGED <<waitlist, mailbox, stash>>  BY <2>1 DEF held
    <3>2. \A i \in DOMAIN waitlist : i # task.id  BY <1>2
    <3>3. \A i \in DOMAIN mailbox : Task(mailbox[i].finish, "RemoveFromMailbox", i) # task
      BY TaskIs
    <3>4. "WakeMessage" \notin StashKinds  BY DEF StashKinds
    <3>5. Scheduled  OBVIOUS
    <3>6. task.kind = "WakeMessage"  OBVIOUS
    <3>7. ASSUME NEW i \in DOMAIN waitlist
          PROVE  \E t \in pool' : t.id = i /\ t.at = waitlist[i].finish
                                  /\ t.kind \in {"RemoveFromWaitlist", "WakeMessage"}
      <4>1. PICK t \in pool : t.id = i /\ t.at = waitlist[i].finish
                             /\ t.kind \in {"RemoveFromWaitlist", "WakeMessage"}
        BY <3>5 DEF Scheduled
      <4> QED  BY <2>1, <3>2, <4>1
    <3>8. \A i \in DOMAIN mailbox : Task(mailbox[i].finish, "RemoveFromMailbox", i) \in pool'
      BY <2>1, <3>3, <3>5 DEF Scheduled
    <3>9. ASSUME NEW i \in DOMAIN stash
          PROVE  \E t \in pool' : t.id = i /\ t.at = stash[i].finish /\ t.kind \in StashKinds
      <4>1. PICK t \in pool : t.id = i /\ t.at = stash[i].finish /\ t.kind \in StashKinds
        BY <3>5 DEF Scheduled
      <4> QED  BY <2>1, <3>4, <3>6, <4>1
    <3>10. pool' \subseteq pool  BY <2>1
    <3> QED  BY <3>1, <3>5, <3>7, <3>8, <3>9, <3>10 DEF Scheduled
  <2> QED  BY <2>3, <2>5, <2>6, <2>7
<1> QED  BY <1>1, <1>2

\* The task that ends a stay in the mailbox keeps the invariant.
LEMMA RemoveFromMailboxStep ==
  ASSUME IInv, NEW task \in pool, task.kind = "RemoveFromMailbox", RemoveFromMailbox(task.id)
  PROVE  IInv'
<1>1. task.id \in DOMAIN mailbox  BY DEF IInv, Scheduled
<1>2. 0 \in Nat  OBVIOUS
<1> QED  BY <1>1, <1>2, MailboxRead DEF RemoveFromMailbox

\* A message whose rent has run out leaves the waitlist; a program that sent it is told.
LEMMA RemoveFromWaitlistStep ==
  ASSUME IInv, NEW task \in pool, task.kind = "RemoveFromWaitlist",
         RemoveFromWaitlist(task.id, task)
  PROVE  IInv'
<1> USE DEF IInv
<1> DEFINE id == task.id
           c == GasAfterWake(id)
           told == ~IsReply(id) /\ source[id[1]] = "program"
           r == Consume(IF told THEN Split(c, id, Reply(id), TRUE) ELSE c, id)
<1>1. id \in DOMAIN waitlist  BY DEF Scheduled
<1>2. /\ LeaveWaitlist(id, task)
      /\ gas' = Expect(r, told => Reply(id) \notin queue)
      /\ queue' = queue \cup (IF told THEN {Reply(id)} ELSE {})
      /\ UNCHANGED <<block, running, mailbox, stash, source, active>>
  BY <1>1 DEF RemoveFromWaitlist
<1> HIDE DEF id
<1>3. Leaves(id)
  <2>1. task.id = id  BY DEF id
  <2> QED  BY <1>1, <1>2, <2>1, LeavesWaitlist
<1>4. /\ id \in Stored /\ id \in Ids /\ id \notin DOMAIN stash /\ id \notin queue
      /\ id \in DOMAIN gas.purse /\ gas \in GasRecords
  BY <1>1, HoldFields DEF Stored, Places, Owned, Types
<1>5. Charged(c, gas, id)  BY <1>1, HoldsCharged
<1>6. id \notin SentUser  BY <1>4, SentIsStashed
<1> HIDE DEF c
<1>7. CASE told
  <2>1. /\ Reply(id) \in DOMAIN gas.purse <=> Reply(id) \in gas.deposits
        /\ Reply(id) \notin Stored
    BY <1>4, <1>6, <1>7, ReplyNodeIsDeposit
  <2>2. r = Consume(Split(c, id, Reply(id), TRUE), id)  BY <1>7
  <2>3. Answered(r, gas, id)  BY <1>4, <1>5, <1>7, <2>1, <2>2, SplitReply
  <2>4. (told => Reply(id) \notin queue) = TRUE  BY <2>1 DEF Stored
  <2>5. gas' = Expect(r, TRUE) /\ queue' = queue \cup {Reply(id)}  BY <1>2, <1>7, <2>4
  <2> HIDE DEF r
  <2>6. gas' = r  BY <2>3, <2>5, ExpectTrue DEF Answered
  <2> QED  BY <1>3, <1>4, <1>7, <2>3, <2>5, <2>6, Replied
<1>8. CASE ~told
  <2>1. r = Consume(c, id)  BY <1>8
  <2>2. Ended(r, gas, id)  BY <1>4, <1>5, <2>1, ConsumeCharged
  <2>3. gas' = Expect(r, TRUE)
    <3>1. (told => Reply(id) \notin queue) = TRUE  BY <1>8
    <3> QED  BY <1>2, <3>1
  <2>4. queue' = queue \ {id}  BY <1>2, <1>4, <1>8
  <2>5. IsReply(id) \/ source[id[1]] = "user"
    <3>1. id[1] \in DOMAIN source  BY <1>4 DEF Known
    <3> QED  BY <1>8, <3>1, SourceFields
  <2> HIDE DEF r, told
  <2>6. gas' = r  BY <2>2, <2>3, ExpectTrue DEF Ended
  <2> QED  BY <1>3, <1>4, <2>2, <2>4, <2>5, <2>6, Vanished
<1> QED  BY <1>7, <1>8

\* The task that sends a delayed message to its program keeps the invariant.
LEMMA SendDispatchStep ==
  ASSUME IInv, NEW task \in pool, task.kind = "SendDispatch", SendDispatchTask(task.id, task)
  PROVE  IInv'
<1> USE DEF IInv
<1> DEFINE id == task.id
<1>1. id \in DOMAIN stash /\ task.kind \in StashKinds  BY DEF Scheduled, StashKinds
<1>2. /\ stash' = Drop(stash, id) /\ pool' = pool \ {task}
      /\ gas' = Expect(GasAfterStash(id), id \notin queue)
      /\ queue' = queue \cup {id}
      /\ UNCHANGED <<block, running, waitlist, mailbox, source, active>>
  BY <1>1 DEF SendDispatchTask
<1>3. id \notin SentUser  BY DEF SentUser, OneStashTask, StashKinds
<1>4. Leaves(id)  BY <1>1, <1>2, LeavesStash
<1> HIDE DEF id
<1>5. Charged(GasAfterStash(id), gas, id)  BY <1>1, HoldsCharged
<1>6. gas' = Expect(GasAfterStash(id), TRUE)
  <2>1. (id \notin queue) = TRUE  BY <1>1 DEF Places
  <2> QED  BY <1>2, <2>1
<1>7. gas' = GasAfterStash(id)  BY <1>5, <1>6, ExpectTrue DEF Charged
<1> QED  BY <1>1, <1>2, <1>3, <1>4, <1>5, <1>7, Released

\* A delayed message that is not kept for the user is answered at once.
LEMMA SendUserMessageStep ==
  ASSUME IInv, NEW task \in pool, task.kind = "SendUserMessage",
         SendUserMessageTask(task.id, task)
  PROVE  IInv'
<1> USE DEF IInv
<1> DEFINE id == task.id
           c == GasAfterStash(id)
           r == Consume(c, id)
<1>1. id \in DOMAIN stash /\ task.kind \in StashKinds  BY DEF Scheduled, StashKinds
<1>2. /\ stash' = Drop(stash, id) /\ mailbox' = mailbox /\ pool' = pool \ {task}
      /\ gas' = Expect(r, Reply(id) \notin queue)
      /\ queue' = queue \cup {Reply(id)}
      /\ UNCHANGED <<block, running, waitlist, source, active>>
  BY <1>1 DEF SendUserMessageTask
<1>3. id \in SentUser  BY DEF SentUser
<1>4. Leaves(id)  BY <1>1, <1>2, LeavesStash
<1> HIDE DEF id
<1>5. Charged(c, gas, id)  BY <1>1, HoldsCharged
<1>6. /\ id \in Stored /\ id \in Ids /\ id \notin queue /\ ~IsReply(id)
      /\ source[id[1]] = "program" /\ id \in DOMAIN gas.purse /\ gas \in GasRecords
      /\ Reply(id) \in DOMAIN gas.purse
  BY <1>1, <1>3, HoldFields DEF Stored, Places, Owned, Types, FromProgram, ReplyNodes
<1>7. Reply(id) \notin Stored
  <2>1. IsReply(Reply(id)) /\ Msg(Reply(id)) = id  BY <1>6, IdFacts
  <2> QED  BY <1>6, <2>1 DEF ReplyFollows
<1>8. gas' = Expect(r, TRUE)
  <2>1. (Reply(id) \notin queue) = TRUE  BY <1>7 DEF Stored
  <2> QED  BY <1>2, <2>1
<1> HIDE DEF c
<1>9. Ended(r, gas, id)  BY <1>5, <1>6, ConsumeCharged
<1> HIDE DEF r
<1>10. Answered(r, gas, id)  BY <1>6, <1>9, ReplyHasNode
<1>11. gas' = r  BY <1>8, <1>10, ExpectTrue DEF Answered
<1> QED  BY <1>2, <1>4, <1>6, <1>10, <1>11, Replied

\* A delayed message goes from the stash to the mailbox and stays for as long as the gas
\* it took along pays for.
LEMMA ToMailboxStep ==
  ASSUME IInv, NEW task \in pool, task.kind = "SendUserMessageToMailbox",
         SendUserMessageTask(task.id, task)
  PROVE  IInv'
<1> USE DEF IInv
<1> DEFINE id == task.id
           c == GasAfterStash(id)
           l == Limit(c, id)
           end == HoldMaximumFor(bn, l, MailboxCost)
           r == LockGas(c, id, "Mailbox", l)
           new == Task(end, "RemoveFromMailbox", id)
<1>1. id \in DOMAIN stash /\ task.kind \in StashKinds  BY DEF Scheduled, StashKinds
<1>2. /\ stash' = Drop(stash, id)
      /\ mailbox' = Put(mailbox, id, [start |-> bn, finish |-> end])
      /\ pool' = (pool \ {task}) \cup {new}
      /\ gas' = Expect(r, end > bn /\ id \notin DOMAIN mailbox /\ new \notin (pool \ {task}))
      /\ queue' = queue
      /\ UNCHANGED <<block, running, waitlist, source, active>>
  BY <1>1 DEF SendUserMessageTask, EnterMailbox
<1>3. \A t \in pool \ {task} : t.id = id => t.kind = "WakeMessage"
  <2> SUFFICES ASSUME NEW t \in pool \ {task}, t.id = id PROVE t.kind = "WakeMessage"  OBVIOUS
  <2>1. t.kind \notin StashKinds  BY <1>1 DEF OneStashTask
  <2>2. t.kind # "RemoveFromMailbox" /\ t.kind # "RemoveFromWaitlist"
    BY <1>1 DEF Scheduled, Places
  <2> QED  BY <2>1, <2>2 DEF Tasks, Kinds, StashKinds, Types
<1>4. id \notin SentUser  BY <1>1 DEF SentUser, OneStashTask, StashKinds
<1>5. /\ gas.purse[id] = id /\ gas.value[id] >= MailboxThreshold
      /\ \A j \in DOMAIN gas.purse \ {id} : gas.purse[j] # id
  BY DEF ForMailbox
<1>6. task.id = id  OBVIOUS
<1> HIDE DEF id
<1>7. /\ id \in Stored /\ id \in Ids /\ id \notin queue /\ ~IsReply(id) /\ running # id
      /\ source[id[1]] = "program" /\ id \in DOMAIN gas.purse /\ gas \in GasRecords
      /\ id \notin DOMAIN mailbox /\ id \notin DOMAIN waitlist
  BY <1>1, HoldFields DEF Stored, Places, Owned, Types, FromProgram
<1>8. Charged(c, gas, id)  BY <1>1, HoldsCharged
<1> HIDE DEF c
<1>9. l = c.value[id] /\ l \in Nat /\ l >= MailboxThreshold
  <2>1. c.value[id] \in Nat /\ gas.value[id] \in Nat /\ MailboxThreshold \in Nat
    BY <1>7, <1>8, GasFields, CostsAssumption DEF Charged
  <2>2. l = c.value[id]  BY <1>5, <1>7, <1>8 DEF Limit, HasGas, Charged
  <2>3. c.value[id] >= gas.value[id]  BY <1>7, <1>8 DEF Charged
  <2> QED  BY SMTT(90), <1>5, <2>1, <2>2, <2>3
<1> HIDE DEF l
<1>10. /\ end \in Nat /\ end > bn /\ (end + ReserveFor - bn) * MailboxCost <= l
  <2>1. RentFor(1, MailboxCost) \in Nat /\ MailboxCost \in Nat \ {0} /\ bn \in Nat
    BY SMTT(90), CostsAssumption, ReserveForAssumption DEF RentFor, Control
  <2>2. RentFor(1, MailboxCost) <= l
    <3>1. MailboxThreshold \in Nat /\ MailboxThreshold >= RentFor(1, MailboxCost)
      BY CostsAssumption
    <3> QED  BY ONLY SMTT(90), <1>9, <2>1, <3>1
  <2>3. end >= bn + 1 /\ end \in Nat /\ (end + ReserveFor - bn) * MailboxCost <= l
    BY <1>9, <2>1, <2>2, MaximumPays
  <2> QED  BY SMTT(90), <2>1, <2>3
<1> HIDE DEF end
<1>11. /\ r \in GasRecords /\ r.purse = c.purse
       /\ r.value = [c.value EXCEPT ![c.purse[id]] = @ - l]
       /\ r.lock = [c.lock EXCEPT ![id]["Mailbox"] = @ + l]
       /\ r.deposits = c.deposits /\ r.ok = c.ok
  <2>1. /\ c \in GasRecords /\ id \in DOMAIN c.purse /\ l \in Nat /\ "Mailbox" \in LockIds
        /\ l <= c.value[c.purse[id]]
    <3>1. "Mailbox" \in LockIds  BY DEF LockIds
    <3>2. c \in GasRecords /\ c.purse = gas.purse  BY <1>8 DEF Charged
    <3>3. c.value[c.purse[id]] = l  BY <1>5, <1>9, <3>2
    <3> QED  BY ONLY SMTT(90), <1>7, <1>9, <3>1, <3>2, <3>3
  <2> QED  BY ONLY <2>1, LockGasIs
<1> HIDE DEF r
<1>12. c.lock \in [Ids -> [LockIds -> Nat]] /\ c.value \in [Ids -> Nat]
  BY <1>8, GasFields DEF Charged
<1>13. /\ r.lock[id]["Mailbox"] = l /\ r.lock[id]["Waitlist"] = 0
       /\ r.lock[id]["DispatchStash"] = 0
       /\ \A i \in Ids \ {id} : r.lock[i] = gas.lock[i]
  BY SMTT(90), <1>7, <1>8, <1>9, <1>11, <1>12 DEF Charged, LockIds
<1>14. \A i \in Ids \ {id} : r.value[i] >= gas.value[i]
  BY SMTT(90), <1>5, <1>8, <1>11, <1>12 DEF Charged
<1>15. r.purse = gas.purse /\ r.deposits = gas.deposits /\ r.ok = gas.ok
  BY <1>8, <1>11 DEF Charged
<1>16. /\ new.id = id /\ new.kind = "RemoveFromMailbox" /\ new.at = end /\ new \in Tasks
  BY SMTT(90), <1>7, <1>10, TaskIs DEF Kinds
<1>17. gas' = r
  <2>1. new \notin (pool \ {task})  BY <1>3, <1>16
  <2>2. (end > bn /\ id \notin DOMAIN mailbox /\ new \notin (pool \ {task})) = TRUE
    BY <1>7, <1>10, <2>1
  <2>3. gas' = Expect(r, TRUE)  BY <1>2, <2>2
  <2> QED  BY <1>11, <2>3, ExpectTrue
<1>18. WithHold(mailbox', mailbox, id, bn, end)
  BY <1>2, <1>7, <1>10, PutHold DEF Types, Control
<1>19. Without(stash', stash, id)  BY <1>2, DropHold DEF Types
<1>20. waitlist' = waitlist /\ running' = running /\ source' = source /\ active' = active
       /\ Control'
  BY <1>2 DEF Control, block
<1>21. new = Task(end, "RemoveFromMailbox", id)  OBVIOUS
<1> HIDE DEF new
<1>22. DOMAIN mailbox' = DOMAIN mailbox \cup {id} /\ DOMAIN stash' = DOMAIN stash \ {id}
  BY <1>18, <1>19 DEF WithHold, Without
<1>23. Types'
  BY <1>2, <1>11, <1>16, <1>17, <1>18, <1>19, <1>20 DEF Types, WithHold, Without
<1>24. Places'
  <2>1. Places /\ queue' = queue  BY <1>2
  <2> QED  BY ONLY SMTT(90), <1>7, <1>20, <1>22, <2>1 DEF Places
<1>25. Stored' = Stored  BY <1>1, <1>2, <1>20, <1>22 DEF Stored
<1>26. Known'
  BY <1>2, <1>7, <1>15, <1>16, <1>17, <1>20, <1>25 DEF Known
<1>27. ReplyFollows'  BY <1>25 DEF ReplyFollows
<1>28. FromProgram'  BY <1>7, <1>15, <1>17, <1>20, <1>22 DEF FromProgram
<1>29. SentUser' = SentUser  BY <1>2, <1>4, <1>6, <1>16 DEF SentUser
<1>30. ReplyNodes'  BY <1>15, <1>17, <1>25, <1>29 DEF ReplyNodes
<1>31. LocksAreHolds'
  BY <1>13, <1>17, <1>20, <1>22 DEF LocksAreHolds
<1>32. OneStashTask'  BY <1>2, <1>16 DEF OneStashTask, StashKinds
<1>33. Paid'
  <2>1. IsPaid(mailbox'[id], MailboxCost, gas'.lock[id]["Mailbox"])
    BY SMTT(90), <1>10, <1>13, <1>17, <1>18 DEF WithHold, IsPaid
  <2>2. DOMAIN waitlist \subseteq Ids /\ DOMAIN mailbox \subseteq Ids /\ DOMAIN stash \subseteq Ids
    BY HoldFields DEF Types
  <2> QED  BY <1>7, <1>13, <1>17, <1>18, <1>19, <1>20, <2>1, <2>2 DEF Paid, WithHold, Without
<1>34. ForMailbox'
  <2> SUFFICES ASSUME NEW t \in pool', t.kind = "SendUserMessageToMailbox"
               PROVE /\ gas'.purse[t.id] = t.id /\ gas'.value[t.id] >= MailboxThreshold
                     /\ \A j \in DOMAIN gas'.purse \ {t.id} : gas'.purse[j] # t.id
    BY DEF ForMailbox
  <2>1. t \in pool \ {task} /\ t.id # id /\ t.id \in Ids  BY <1>2, <1>3, <1>16 DEF Types, Tasks
  <2>2. r.value[t.id] \in Nat /\ gas.value[t.id] \in Nat /\ MailboxThreshold \in Nat
    <3>1. r.value \in [Ids -> Nat] /\ gas.value \in [Ids -> Nat]  BY <1>7, <1>11, GasFields
    <3> QED  BY <2>1, <3>1, CostsAssumption
  <2>3. gas.value[t.id] >= MailboxThreshold  BY <2>1 DEF ForMailbox
  <2>4. r.value[t.id] >= MailboxThreshold  BY SMTT(90), <1>14, <2>1, <2>2, <2>3
  <2> QED  BY <1>15, <1>17, <2>1, <2>4 DEF ForMailbox
<1>35. Owned'  BY <1>15, <1>17, <1>20, <1>25 DEF Owned
<1>36. Scheduled'
  <2>1. ASSUME NEW i \in DOMAIN waitlist'
        PROVE  \E t \in pool' : t.id = i /\ t.at = waitlist'[i].finish
                                /\ t.kind \in {"RemoveFromWaitlist", "WakeMessage"}
    <3>1. PICK t \in pool : t.id = i /\ t.at = waitlist[i].finish
                           /\ t.kind \in {"RemoveFromWaitlist", "WakeMessage"}
      BY <1>20 DEF Scheduled
    <3>2. t # task  BY <1>6, <1>7, <1>20, <3>1
    <3> QED  BY <1>2, <1>20, <3>1, <3>2
  <2>2. \A i \in DOMAIN mailbox' : Task(mailbox'[i].finish, "RemoveFromMailbox", i) \in pool'
    <3> SUFFICES ASSUME NEW i \in DOMAIN mailbox'
                 PROVE  Task(mailbox'[i].finish, "RemoveFromMailbox", i) \in pool'
      OBVIOUS
    <3>1. CASE i = id
      <4>1. mailbox'[id].finish = end  BY <1>18 DEF WithHold
      <4> QED  BY <1>2, <1>21, <3>1, <4>1
    <3>2. CASE i # id
      <4>1. i \in DOMAIN mailbox /\ mailbox'[i] = mailbox[i]  BY <1>18, <3>2 DEF WithHold
      <4>2. Task(mailbox[i].finish, "RemoveFromMailbox", i) # task  BY SMTT(90), <1>6, <3>2, TaskIs
      <4> QED  BY <1>2, <4>1, <4>2 DEF Scheduled
    <3> QED  BY <3>1, <3>2
  <2>3. ASSUME NEW i \in DOMAIN stash'
        PROVE  \E t \in pool' : t.id = i /\ t.at = stash'[i].finish /\ t.kind \in StashKinds
    <3>1. i \in DOMAIN stash /\ i # id /\ stash'[i] = stash[i]  BY <1>19 DEF Without
    <3>2. PICK t \in pool : t.id = i /\ t.at = stash[i].finish /\ t.kind \in StashKinds
      BY <3>1 DEF Scheduled
    <3>3. t # task  BY <1>6, <3>1, <3>2
    <3> QED  BY <1>2, <3>1, <3>2, <3>3
  <2>4. ASSUME NEW t \in pool'
        PROVE /\ t.kind = "RemoveFromWaitlist" => t.id \in DOMAIN waitlist' /\ waitlist'[t.id].finish = t.at
              /\ t.kind = "RemoveFromMailbox" => t.id \in DOMAIN mailbox' /\ mailbox'[t.id].finish = t.at
              /\ t.kind \in StashKinds => t.id \in DOMAIN stash' /\ stash'[t.id].finish = t.at
    <3>1. CASE t = new
      <4>1. mailbox'[id].finish = end /\ id \in DOMAIN mailbox'  BY <1>18 DEF WithHold
      <4>2. t.id = id /\ t.kind = "RemoveFromMailbox" /\ t.at = end  BY <1>16, <3>1
      <4> QED  BY ONLY SMTT(90), <4>1, <4>2 DEF StashKinds
    <3>2. CASE t \in pool \ {task}
      <4>1. /\ t.kind = "RemoveFromWaitlist" => t.id \in DOMAIN waitlist /\ waitlist[t.id].finish = t.at
            /\ t.kind = "RemoveFromMailbox" => t.id \in DOMAIN mailbox /\ mailbox[t.id].finish = t.at
            /\ t.kind \in StashKinds => t.id \in DOMAIN stash /\ stash[t.id].finish = t.at
        BY <3>2 DEF Scheduled
      <4>2. t.id \in DOMAIN mailbox => t.id \in DOMAIN mailbox' /\ mailbox'[t.id] = mailbox[t.id]
        BY <1>7, <1>18 DEF WithHold
      <4>3. t.id \in DOMAIN stash /\ t.id # id => t.id \in DOMAIN stash' /\ stash'[t.id] = stash[t.id]
        BY <1>19 DEF Without
      <4>4. t.kind \in StashKinds => t.id # id  BY <1>3, <3>2 DEF StashKinds
      <4> QED  BY <1>20, <4>1, <4>2, <4>3, <4>4
    <3> QED  BY <1>2, <3>1, <3>2
  <2> QED  BY <2>1, <2>2, <2>3, <2>4 DEF Scheduled
<1>37. NoUnreachable'  BY <1>15, <1>17 DEF NoUnreachable
<1> QED  BY <1>20, <1>23, <1>24, <1>26, <1>27, <1>28, <1>30, <1>31, <1>32, <1>33, <1>34, <1>35, <1>36, <1>37

-----------------------------------------------------------------------------
(* The queue. *)

\* The message in execution is stored nowhere else, and its node pays from what is known.
LEMMA RunningFacts ==
  ASSUME IInv, phase \in {"execute", "journal", "exit"}
  PROVE  /\ running \in Ids /\ running # None /\ running \in Stored
         /\ running \in DOMAIN gas.purse /\ gas \in GasRecords
         /\ gas.purse[running] \in Ids
         /\ Limit(gas, running) = gas.value[gas.purse[running]]
         /\ Limit(gas, running) \in Nat
         /\ running \notin queue /\ running \notin DOMAIN waitlist
         /\ running \notin DOMAIN mailbox /\ running \notin DOMAIN stash
         /\ \A l \in LockIds : gas.lock[running][l] = 0
<1> USE DEF IInv
<1>1. running \in Ids /\ running # None /\ running \in Stored /\ gas \in GasRecords
  BY DEF Control, Stored, Types
<1>2. running \in DOMAIN gas.purse  BY <1>1 DEF Owned
<1>3. gas.purse[running] \in Ids /\ gas.value[gas.purse[running]] \in Nat
  BY <1>1, <1>2, GasFields
<1>4. /\ running \notin queue /\ running \notin DOMAIN waitlist
      /\ running \notin DOMAIN mailbox /\ running \notin DOMAIN stash
  BY DEF Places
<1>5. \A l \in LockIds : gas.lock[running][l] = 0
  BY <1>1, <1>4 DEF LocksAreHolds, LockIds
<1> QED  BY <1>1, <1>2, <1>3, <1>4, <1>5 DEF Limit, HasGas

\* The message has been handled: message_consumed and the end of exit_dispatch.
LEMMA HandledStep ==
  ASSUME IInv, phase \in {"journal", "exit"}, Handled, active' \in BOOLEAN, active' => active
  PROVE  IInv'
<1> USE DEF IInv
<1> DEFINE id == running
           told == ~IsReply(id) /\ source[id[1]] = "program"
           r == Consume(IF told THEN Split(gas, id, Reply(id), TRUE) ELSE gas, id)
<1>1. /\ gas' = Expect(r, told => Reply(id) \notin queue)
      /\ queue' = queue \cup (IF told THEN {Reply(id)} ELSE {})
      /\ phase' = "queue" /\ running' = None
      /\ UNCHANGED <<bn, enabled, first, cursor, pool, held, source>>
  BY DEF Handled
<1>2. /\ id \in Ids /\ id # None /\ id \in Stored /\ id \in DOMAIN gas.purse
      /\ gas \in GasRecords /\ id \notin queue /\ id \notin DOMAIN waitlist
      /\ id \notin DOMAIN mailbox /\ id \notin DOMAIN stash
      /\ \A l \in LockIds : gas.lock[id][l] = 0
  BY RunningFacts
<1>3. Leaves(id)
  <2>1. Control'  BY <1>1, <1>2 DEF Control, Phases
  <2>2. Without(waitlist', waitlist, id) /\ Without(mailbox', mailbox, id)
        /\ Without(stash', stash, id)
    BY <1>1, <1>2, KeepHold DEF held, Types
  <2>3. Unscheduled(id)
    <3>1. pool' = pool  BY <1>1
    <3>2. ASSUME NEW t \in pool, t.id = id PROVE t.kind = "WakeMessage"
      BY <1>2, <3>2 DEF Scheduled, Types, Tasks, Kinds, StashKinds
    <3> QED  BY <3>1, <3>2 DEF Unscheduled
  <2> QED  BY <1>1, <2>1, <2>2, <2>3 DEF Leaves
<1>4. id \notin SentUser  BY <1>2, SentIsStashed
<1>5. Charged(gas, gas, id)
  <2>1. gas.value \in [Ids -> Nat]  BY <1>2, GasFields
  <2> QED  BY SMTT(90), <1>2, <2>1 DEF Charged
<1> HIDE DEF id
<1>7. CASE told
  <2>1. /\ Reply(id) \in DOMAIN gas.purse <=> Reply(id) \in gas.deposits
        /\ Reply(id) \notin Stored
    BY <1>2, <1>4, <1>7, ReplyNodeIsDeposit
  <2>2. r = Consume(Split(gas, id, Reply(id), TRUE), id)  BY <1>7
  <2>3. Answered(r, gas, id)  BY <1>2, <1>5, <1>7, <2>1, <2>2, SplitReply
  <2>4. (told => Reply(id) \notin queue) = TRUE  BY <2>1 DEF Stored
  <2>5. gas' = Expect(r, TRUE) /\ queue' = queue \cup {Reply(id)}  BY <1>1, <1>7, <2>4
  <2> HIDE DEF r
  <2>6. gas' = r  BY <2>3, <2>5, ExpectTrue DEF Answered
  <2> QED  BY <1>2, <1>3, <1>7, <2>3, <2>5, <2>6, Replied
<1>8. CASE ~told
  <2>1. r = Consume(gas, id)  BY <1>8
  <2>2. Ended(r, gas, id)  BY <1>2, <1>5, <2>1, ConsumeCharged
  <2>3. gas' = Expect(r, TRUE)
    <3>1. (told => Reply(id) \notin queue) = TRUE  BY <1>8
    <3> QED  BY <1>1, <3>1
  <2>4. queue' = queue \ {id}  BY <1>1, <1>2, <1>8
  <2>5. IsReply(id) \/ source[id[1]] = "user"
    <3>1. id[1] \in DOMAIN source  BY <1>2 DEF Known
    <3> QED  BY <1>8, <3>1, SourceFields
  <2> HIDE DEF r, told
  <2>6. gas' = r  BY <2>2, <2>3, ExpectTrue DEF Ended
  <2> QED  BY <1>2, <1>3, <2>2, <2>4, <2>5, <2>6, Vanished
<1> QED  BY <1>7, <1>8

\* Steps that move a message between the queue and the execution, or only the control.
LEMMA ControlStep ==
  ASSUME IInv, Control', UNCHANGED <<pool, held, gas, source, active>>, Stored' = Stored,
         queue' \subseteq Ids, running' \notin queue',
         queue' \cup {running'} \subseteq queue \cup {running, None}
  PROVE  IInv'
<1> USE DEF IInv
<1>1. Types' /\ SentUser' = SentUser  BY DEF Types, held, SentUser
<1>2. Places'
  <2>1. None \notin Ids  BY IdFacts
  <2>2. DOMAIN waitlist \subseteq Ids /\ DOMAIN mailbox \subseteq Ids /\ DOMAIN stash \subseteq Ids
        /\ queue \subseteq Ids
    BY HoldFields DEF Types
  <2> QED  BY <2>1, <2>2 DEF Places, held
<1>3. Known' /\ ReplyFollows' /\ FromProgram' /\ ReplyNodes' /\ LocksAreHolds'
  BY <1>1 DEF Known, ReplyFollows, FromProgram, ReplyNodes, LocksAreHolds, held
<1>4. OneStashTask' /\ Paid' /\ ForMailbox' /\ Owned' /\ NoUnreachable'
  BY DEF OneStashTask, Paid, ForMailbox, Owned, NoUnreachable, held
<1>5. Scheduled'  BY DEF Scheduled, held
<1> QED  BY <1>1, <1>2, <1>3, <1>4, <1>5

\* Taking the next message from the queue keeps the invariant.
LEMMA DequeueStep ==
  ASSUME IInv, NEW id \in queue, Dequeue(id)
  PROVE  IInv'
<1> USE DEF IInv
<1>1. /\ phase = "queue" /\ phase' = "execute" /\ running' = id /\ queue' = queue \ {id}
      /\ gas' = Expect(gas, HasGas(gas, id))
      /\ UNCHANGED <<bn, enabled, first, cursor, pool, held, source, active>>
  BY DEF Dequeue
<1>2. id \in Ids /\ id # None /\ running = None /\ gas \in GasRecords
  BY <1>1, IdFacts DEF Types, Control
<1>3. HasGas(gas, id) = TRUE  BY DEF HasGas, Owned, Stored
<1>4. gas' = gas  BY <1>1, <1>2, <1>3, ExpectTrue
<1>5. Control'  BY <1>1, <1>2 DEF Control, Phases
<1>6. Stored' = Stored  BY <1>1, <1>2 DEF Stored, held
<1> QED  BY <1>1, <1>2, <1>4, <1>5, <1>6, ControlStep DEF Types

\* A block whose gas allowance is spent requeues the message and keeps the invariant.
LEMMA StopProcessingStep ==
  ASSUME IInv, StopProcessing
  PROVE  IInv'
<1> USE DEF IInv
<1>1. /\ phase = "execute" /\ phase' = "done" /\ running' = None /\ queue' = queue \cup {running}
      /\ gas' = Expect(gas, running \notin queue)
      /\ UNCHANGED <<bn, enabled, first, cursor, pool, held, source, active>>
  BY DEF StopProcessing
<1>2. running \in Ids /\ running # None /\ running \notin queue /\ gas \in GasRecords
  BY <1>1, RunningFacts
<1>3. (running \notin queue) = TRUE  BY <1>2
<1>4. gas' = gas  BY <1>1, <1>2, <1>3, ExpectTrue
<1>5. Control'  BY <1>1, <1>2 DEF Control, Phases
<1>6. Stored' = Stored  BY <1>1, <1>2 DEF Stored, held
<1>7. queue \subseteq Ids /\ None \notin Ids  BY IdFacts DEF Types
<1> QED  BY <1>1, <1>2, <1>4, <1>5, <1>6, <1>7, ControlStep

\* The steps of a block that touch no message.
BlockStep ==
  \/ OnInitialize \/ OnFinalize \/ (\E value \in BOOLEAN : SetExecuteInherent(value)) \/ Run
  \/ TasksNextBlock \/ TasksStop \/ EndOfQueue \/ ExitDispatch

\* The steps of a block that only move the control keep the invariant.
LEMMA BlockSteps ==
  ASSUME IInv, BlockStep
  PROVE  IInv'
<1> USE DEF IInv
<1>1. UNCHANGED <<pool, queue, running, held, gas, source, active>>
  BY DEF BlockStep, OnInitialize, OnFinalize, SetExecuteInherent, Run, TasksNextBlock, TasksStop,
         EndOfQueue, ExitDispatch
<1>2. Control'
  <2>1. CASE OnInitialize  BY SMTT(90), <2>1, NoneAssumption DEF OnInitialize, Control, Phases
  <2>2. CASE OnFinalize  BY SMTT(90), <2>2, NoneAssumption DEF OnFinalize, Control, Phases
  <2>3. CASE \E value \in BOOLEAN : SetExecuteInherent(value)
    BY <2>3 DEF SetExecuteInherent, Control
  <2>4. CASE Run  BY SMTT(90), <2>4, NoneAssumption DEF Run, Control, Phases
  <2>5. CASE TasksNextBlock  BY SMTT(90), <2>5 DEF TasksNextBlock, Control, Phases
  <2>6. CASE TasksStop  BY <2>6 DEF TasksStop, Control, Phases
  <2>7. CASE EndOfQueue  BY <2>7 DEF EndOfQueue, Control, Phases
  <2>8. CASE ExitDispatch  BY <2>8 DEF ExitDispatch, Journal, Control, Phases
  <2> QED  BY <2>1, <2>2, <2>3, <2>4, <2>5, <2>6, <2>7, <2>8 DEF BlockStep
<1>3. Stored' = Stored  BY <1>1 DEF Stored, held
<1>4. queue \subseteq Ids /\ running \notin queue  BY DEF Types, Places
<1> QED  BY <1>1, <1>2, <1>3, <1>4, ControlStep

\* gas_burned keeps the invariant: the limit of the running message pays for it.
LEMMA GasBurnedStep ==
  ASSUME IInv, NEW amount \in Burns, GasBurned(amount)
  PROVE  IInv'
<1> USE DEF IInv
<1>1. /\ phase = "execute" /\ phase' = "journal" /\ gas' = Pay(gas, running, amount)
      /\ amount <= Limit(gas, running) /\ amount \in Nat
      /\ UNCHANGED <<bn, enabled, first, cursor, pool, queue, running, held, source, active>>
  BY BoundsAssumption DEF GasBurned
<1>2. /\ gas \in GasRecords /\ running \in DOMAIN gas.purse /\ running \notin DOMAIN stash
      /\ amount <= gas.value[gas.purse[running]]
  BY <1>1, RunningFacts
<1>3. /\ gas' \in GasRecords /\ gas'.purse = gas.purse
      /\ gas'.value = [gas.value EXCEPT ![gas.purse[running]] = @ - amount]
      /\ gas'.lock = gas.lock /\ gas'.deposits = gas.deposits /\ gas'.ok = gas.ok
  BY <1>1, <1>2, PayIs
<1>4. Control'  BY <1>1 DEF Control, Phases
<1>5. Types' /\ Places' /\ Stored' = Stored /\ SentUser' = SentUser
  <2>1. Types'  BY <1>1, <1>3 DEF Types, held
  <2>2. Places'  BY <1>1, <1>3 DEF Places, held
  <2>3. Stored' = Stored /\ SentUser' = SentUser  BY <1>1 DEF Stored, SentUser, held
  <2> QED  BY <2>1, <2>2, <2>3
<1>6. Known' /\ ReplyFollows' /\ FromProgram' /\ ReplyNodes' /\ LocksAreHolds'
  BY <1>1, <1>3, <1>5 DEF Known, ReplyFollows, FromProgram, ReplyNodes, LocksAreHolds, held
<1>7. OneStashTask' /\ Paid' /\ Owned' /\ Scheduled' /\ NoUnreachable'
  BY <1>1, <1>3, <1>5 DEF OneStashTask, Paid, Owned, Scheduled, NoUnreachable, held
<1>8. ForMailbox'
  <2> SUFFICES ASSUME NEW t \in pool, t.kind = "SendUserMessageToMailbox"
               PROVE gas'.value[t.id] = gas.value[t.id]
    BY <1>1, <1>3 DEF ForMailbox
  <2>1. t.id \in DOMAIN stash /\ t.id \in Ids  BY HoldFields DEF Scheduled, StashKinds, Types
  <2>2. gas.purse[running] # t.id  BY <1>2, <2>1 DEF ForMailbox
  <2>3. gas.value \in [Ids -> Nat]  BY <1>2, GasFields
  <2>4. gas'.value = [gas.value EXCEPT ![gas.purse[running]] = @ - amount]  BY <1>3
  <2> QED  BY ONLY <2>1, <2>2, <2>3, <2>4
<1> QED  BY <1>4, <1>5, <1>6, <1>7, <1>8

\* A delayed wake-up schedules its task and keeps the invariant.
LEMMA WakeLaterStep ==
  ASSUME IInv, NEW id \in DOMAIN waitlist, NEW delay \in Delays, WakeLater(id, delay)
  PROVE  IInv'
<1> USE DEF IInv
<1> DEFINE new == Task(bn + delay, "WakeMessage", id)
<1>1. /\ pool' = pool \cup {new}
      /\ UNCHANGED <<block, queue, running, held, gas, source, active>>
  BY DEF WakeLater
<1>2. id \in Ids /\ id \in Stored  BY HoldFields DEF Types, Stored
<1>3. new.kind = "WakeMessage" /\ new.id = id /\ new \in Tasks
  BY SMTT(90), <1>2, TaskIs, BoundsAssumption DEF Kinds, Control
<1> HIDE DEF new
<1>4. Control' /\ Types' /\ Places' /\ Stored' = Stored /\ SentUser' = SentUser
  <2>1. Control'  BY <1>1 DEF Control, held, block
  <2>2. Types'  BY <1>1, <1>3 DEF Types, held
  <2>3. Places'  BY <1>1 DEF Places, held
  <2>4. Stored' = Stored  BY <1>1 DEF Stored, held
  <2>5. SentUser' = SentUser  BY <1>1, <1>3 DEF SentUser
  <2> QED  BY <2>1, <2>2, <2>3, <2>4, <2>5
<1>5. Known' /\ ReplyFollows' /\ FromProgram' /\ ReplyNodes' /\ LocksAreHolds'
  BY <1>1, <1>2, <1>3, <1>4 DEF Known, ReplyFollows, FromProgram, ReplyNodes, LocksAreHolds, held
<1>6. OneStashTask' /\ Paid' /\ Owned' /\ NoUnreachable' /\ ForMailbox'
  BY <1>1, <1>3, <1>4 DEF OneStashTask, Paid, Owned, NoUnreachable, ForMailbox, held, StashKinds
<1>7. Scheduled'
  BY <1>1, <1>3 DEF Scheduled, held, StashKinds
<1> QED  BY <1>4, <1>5, <1>6, <1>7

\* wait_dispatch, for a hold that is paid for.
LEMMA EnterWaitlistStep ==
  ASSUME IInv, phase = "journal", NEW end \in Nat, end > bn,
         NEW kind \in {"RemoveFromWaitlist", "WakeMessage"},
         LockAmount(bn, end, WaitlistCost) \in Nat,
         LockAmount(bn, end, WaitlistCost) <= Limit(gas, running),
         LockAmount(bn, end, WaitlistCost) = (end + ReserveFor - bn) * WaitlistCost,
         EnterWaitlist(end, kind)
  PROVE  IInv'
<1> USE DEF IInv
<1> DEFINE id == running
           l == LockAmount(bn, end, WaitlistCost)
           r == LockGas(gas, id, "Waitlist", l)
           new == Task(end, kind, id)
<1>1. /\ gas' = Expect(r, /\ end > bn /\ id \notin DOMAIN waitlist
                          /\ kind = "RemoveFromWaitlist" => new \notin pool)
      /\ waitlist' = Put(waitlist, id, [start |-> bn, finish |-> end])
      /\ pool' = pool \cup {new} /\ phase' = "queue" /\ running' = None
      /\ UNCHANGED <<bn, enabled, first, cursor, queue, mailbox, stash, source, active>>
  BY DEF EnterWaitlist
<1>2. /\ id \in Ids /\ id # None /\ id \in Stored /\ id \in DOMAIN gas.purse
      /\ gas \in GasRecords /\ id \notin queue /\ id \notin DOMAIN waitlist
      /\ id \notin DOMAIN mailbox /\ id \notin DOMAIN stash /\ gas.purse[id] \in Ids
      /\ \A k \in LockIds : gas.lock[id][k] = 0
      /\ l \in Nat /\ l <= gas.value[gas.purse[id]]
  BY RunningFacts
<1>3. new.id = id /\ new.kind = kind /\ new.at = end /\ new \in Tasks
  <2>1. kind \in Kinds /\ end \in Nat  BY DEF Kinds
  <2> QED  BY <1>2, <2>1, TaskIs
<1>4. kind = "RemoveFromWaitlist" => new \notin pool  BY <1>2, <1>3 DEF Scheduled
<1>5. gas' = Expect(r, TRUE)
  <2>1. ((end > bn /\ id \notin DOMAIN waitlist)
          /\ (kind = "RemoveFromWaitlist" => new \notin pool)) = TRUE
    BY <1>2, <1>4
  <2> QED  BY <1>1, <2>1
<1>6. l = (end + ReserveFor - bn) * WaitlistCost  OBVIOUS
<1>7. running' = None /\ running = id  BY <1>1
<1> HIDE DEF l, new
<1> HIDE DEF id
<1>8. /\ r \in GasRecords /\ r.purse = gas.purse
      /\ r.value = [gas.value EXCEPT ![gas.purse[id]] = @ - l]
      /\ r.lock = [gas.lock EXCEPT ![id]["Waitlist"] = @ + l]
      /\ r.deposits = gas.deposits /\ r.ok = gas.ok
  <2>1. "Waitlist" \in LockIds  BY DEF LockIds
  <2> QED  BY ONLY <1>2, <2>1, LockGasIs
<1> HIDE DEF r
<1>9. gas' = r  BY <1>5, <1>8, ExpectTrue
<1>10. /\ r.lock[id]["Waitlist"] = l /\ r.lock[id]["Mailbox"] = 0
       /\ r.lock[id]["DispatchStash"] = 0
       /\ \A i \in Ids \ {id} : r.lock[i] = gas.lock[i]
  <2>1. gas.lock \in [Ids -> [LockIds -> Nat]]  BY <1>2, GasFields
  <2> QED  BY ONLY SMTT(90), <1>2, <1>8, <2>1 DEF LockIds
<1>11. WithHold(waitlist', waitlist, id, bn, end)
  BY <1>1, <1>2, PutHold DEF Types, Control, id
<1>12. Control'  BY <1>1, <1>2 DEF Control, Phases, id
<1>13. DOMAIN waitlist' = DOMAIN waitlist \cup {id} /\ mailbox' = mailbox /\ stash' = stash
       /\ queue' = queue /\ source' = source /\ active' = active /\ pool' = pool \cup {new}
  BY <1>1, <1>11 DEF WithHold
<1>14. Types'  BY <1>3, <1>8, <1>9, <1>11, <1>13 DEF Types, WithHold
<1>15. Places'
  <2>1. None \notin Ids  BY IdFacts
  <2>2. DOMAIN waitlist \subseteq Ids /\ DOMAIN mailbox \subseteq Ids /\ DOMAIN stash \subseteq Ids
        /\ queue \subseteq Ids
    BY HoldFields DEF Types
  <2> QED  BY <1>2, <1>7, <1>13, <2>1, <2>2 DEF Places
<1>16. Stored' = Stored  BY <1>2, <1>7, <1>13 DEF Stored
<1>17. Known'  BY <1>2, <1>3, <1>8, <1>9, <1>13, <1>16 DEF Known
<1>18. ReplyFollows'  BY <1>16 DEF ReplyFollows
<1>19. FromProgram'  BY <1>8, <1>9, <1>13 DEF FromProgram
<1>20. SentUser' = SentUser  BY <1>3, <1>13 DEF SentUser
<1>21. ReplyNodes'  BY <1>8, <1>9, <1>16, <1>20 DEF ReplyNodes
<1>22. LocksAreHolds'  BY <1>9, <1>10, <1>13 DEF LocksAreHolds
<1>23. OneStashTask'  BY <1>3, <1>13 DEF OneStashTask, StashKinds
<1>24. Paid'
  <2>1. IsPaid(waitlist'[id], WaitlistCost, gas'.lock[id]["Waitlist"])
    <3>1. l \in Nat /\ bn \in Nat  BY <1>2 DEF Control
    <3>2. waitlist'[id].start = bn /\ waitlist'[id].finish = end  BY <1>11 DEF WithHold
    <3>3. gas'.lock[id]["Waitlist"] = l  BY <1>9, <1>10
    <3>4. bn < end /\ end \in Nat /\ WaitlistCost \in Nat /\ ReserveFor \in Nat
      BY CostsAssumption, ReserveForAssumption
    <3> QED  BY ONLY <1>6, <3>1, <3>2, <3>3, <3>4 DEF IsPaid
  <2>2. DOMAIN waitlist \subseteq Ids /\ DOMAIN mailbox \subseteq Ids /\ DOMAIN stash \subseteq Ids
    BY HoldFields DEF Types
  <2> QED  BY <1>2, <1>9, <1>10, <1>11, <1>13, <2>1, <2>2 DEF Paid, WithHold
<1>25. ForMailbox'
  <2> SUFFICES ASSUME NEW t \in pool, t.kind = "SendUserMessageToMailbox"
               PROVE gas'.value[t.id] = gas.value[t.id]
    <3>1. \A t \in pool' : t.kind = "SendUserMessageToMailbox" => t \in pool
      BY <1>3, <1>13
    <3>2. gas'.purse = gas.purse  BY <1>8, <1>9
    <3> QED  BY <3>1, <3>2 DEF ForMailbox
  <2>1. t.id \in DOMAIN stash /\ t.id \in Ids  BY HoldFields DEF Scheduled, StashKinds, Types
  <2>2. gas.purse[id] # t.id  BY <1>2, <2>1 DEF ForMailbox
  <2>3. gas.value \in [Ids -> Nat]  BY <1>2, GasFields
  <2> QED  BY <1>2, <1>8, <1>9, <2>1, <2>2, <2>3
<1>26. Owned'  BY <1>8, <1>9, <1>13, <1>16 DEF Owned
<1>27. Scheduled'
  <2>1. /\ waitlist'[id].finish = end /\ id \in DOMAIN waitlist'
        /\ \A i \in DOMAIN waitlist : i # id /\ i \in DOMAIN waitlist' /\ waitlist'[i] = waitlist[i]
    BY <1>2, <1>11 DEF WithHold
  <2>2. new \in pool' /\ pool \subseteq pool' /\ \A t \in pool' : t \in pool \/ t = new  BY <1>13
  <2>3. ASSUME NEW i \in DOMAIN waitlist'
        PROVE  \E t \in pool' : t.id = i /\ t.at = waitlist'[i].finish
                                /\ t.kind \in {"RemoveFromWaitlist", "WakeMessage"}
    <3>1. CASE i = id  BY <1>3, <2>1, <2>2, <3>1
    <3>2. CASE i \in DOMAIN waitlist  BY <2>1, <2>2, <3>2 DEF Scheduled
    <3> QED  BY <1>13, <3>1, <3>2
  <2>4. new.kind \notin StashKinds /\ new.kind # "RemoveFromMailbox"  BY <1>3 DEF StashKinds
  <2>5. ASSUME NEW t \in pool'
        PROVE /\ t.kind = "RemoveFromWaitlist" => t.id \in DOMAIN waitlist' /\ waitlist'[t.id].finish = t.at
              /\ t.kind = "RemoveFromMailbox" => t.id \in DOMAIN mailbox /\ mailbox[t.id].finish = t.at
              /\ t.kind \in StashKinds => t.id \in DOMAIN stash /\ stash[t.id].finish = t.at
    <3>1. CASE t = new  BY <1>3, <2>1, <2>4, <3>1
    <3>2. CASE t \in pool
      <4>1. /\ t.kind = "RemoveFromWaitlist" => t.id \in DOMAIN waitlist /\ waitlist[t.id].finish = t.at
            /\ t.kind = "RemoveFromMailbox" => t.id \in DOMAIN mailbox /\ mailbox[t.id].finish = t.at
            /\ t.kind \in StashKinds => t.id \in DOMAIN stash /\ stash[t.id].finish = t.at
        BY <3>2 DEF Scheduled
      <4> QED  BY <2>1, <4>1
    <3> QED  BY <2>2, <3>1, <3>2
  <2> QED  BY <1>13, <2>2, <2>3, <2>5 DEF Scheduled
<1>28. NoUnreachable'  BY <1>8, <1>9 DEF NoUnreachable
<1> QED  BY <1>12, <1>14, <1>15, <1>17, <1>18, <1>19, <1>21, <1>22, <1>23, <1>24, <1>25, <1>26, <1>27, <1>28

\* wait, wait_for and wait_up_to keep the invariant: the hold ends later than it begins
\* and is paid for.
LEMMA WaitSteps ==
  ASSUME IInv, Wait \/ (\E d \in Delays : WaitFor(d)) \/ (\E d \in Delays : WaitUpTo(d))
  PROVE  IInv'
<1> USE DEF IInv
<1> DEFINE g == Limit(gas, running)
<1>1. phase = "journal"  BY DEF Wait, WaitFor, WaitUpTo, Journal
<1>2. g \in Nat /\ bn \in Nat /\ WaitlistCost \in Nat \ {0}
  BY <1>1, RunningFacts, CostsAssumption DEF Control
<1> HIDE DEF g
<1>3. ASSUME NEW b \in Nat, RentFor(b, WaitlistCost) <= g, b > 0
      PROVE  /\ LongestWait \in Nat /\ LongestWait > bn
             /\ (LongestWait + ReserveFor - bn) * WaitlistCost <= g
  <2>1. LongestWait = HoldMaximumFor(bn, g, WaitlistCost)  BY DEF LongestWait, g
  <2>2. /\ HoldMaximumFor(bn, g, WaitlistCost) \in Nat
        /\ HoldMaximumFor(bn, g, WaitlistCost) >= bn + b
        /\ (HoldMaximumFor(bn, g, WaitlistCost) + ReserveFor - bn) * WaitlistCost <= g
    BY <1>2, <1>3, MaximumPays
  <2> QED  BY SMTT(90), <1>2, <1>3, <2>1, <2>2
<1>4. ASSUME NEW end \in Nat, end > bn, LongestWait \in Nat, LongestWait > bn,
             (LongestWait + ReserveFor - bn) * WaitlistCost <= g
      PROVE  LET e == Least(end, LongestWait) IN
             /\ e \in Nat /\ e > bn /\ LockAmount(bn, e, WaitlistCost) \in Nat
             /\ LockAmount(bn, e, WaitlistCost) <= g
             /\ LockAmount(bn, e, WaitlistCost) = (e + ReserveFor - bn) * WaitlistCost
  BY SMTT(90), <1>2, <1>4, LeastPays
<1>5. CASE Wait
  <2>1. RentFor(1, WaitlistCost) <= g /\ EnterWaitlist(LongestWait, "RemoveFromWaitlist")
    BY <1>5 DEF Wait, g
  <2>2. /\ LongestWait \in Nat /\ LongestWait > bn
        /\ (LongestWait + ReserveFor - bn) * WaitlistCost <= g
    BY SMTT(90), <1>3, <2>1
  <2>3. Least(LongestWait, LongestWait) = LongestWait  BY DEF Least
  <2>4. /\ LockAmount(bn, LongestWait, WaitlistCost) \in Nat
        /\ LockAmount(bn, LongestWait, WaitlistCost) <= g
        /\ LockAmount(bn, LongestWait, WaitlistCost)
             = (LongestWait + ReserveFor - bn) * WaitlistCost
    BY <1>4, <2>2, <2>3
  <2> QED  BY <1>1, <2>1, <2>2, <2>4, EnterWaitlistStep DEF g
<1>6. CASE \E d \in Delays : WaitFor(d)
  <2>1. PICK d \in Delays : WaitFor(d)  BY <1>6
  <2>2. d \in Nat /\ d > 0 /\ HoldDuration(bn, d) \in Nat /\ HoldDuration(bn, d) > bn
    BY SMTT(90), <1>2, BoundsAssumption DEF HoldDuration
  <2> DEFINE e == Least(HoldDuration(bn, d), LongestWait)
  <2>3. RentFor(d, WaitlistCost) <= g /\ EnterWaitlist(e, "WakeMessage")
    BY <2>1 DEF WaitFor, g
  <2>4. /\ LongestWait \in Nat /\ LongestWait > bn
        /\ (LongestWait + ReserveFor - bn) * WaitlistCost <= g
    BY <1>3, <2>2, <2>3
  <2>5. /\ e \in Nat /\ e > bn /\ LockAmount(bn, e, WaitlistCost) \in Nat
        /\ LockAmount(bn, e, WaitlistCost) <= g
        /\ LockAmount(bn, e, WaitlistCost) = (e + ReserveFor - bn) * WaitlistCost
    BY <1>4, <2>2, <2>4
  <2> HIDE DEF e
  <2> QED  BY <1>1, <2>3, <2>5, EnterWaitlistStep DEF g
<1>7. CASE \E d \in Delays : WaitUpTo(d)
  <2>1. PICK d \in Delays : WaitUpTo(d)  BY <1>7
  <2>2. d \in Nat /\ d > 0 /\ HoldDuration(bn, d) \in Nat /\ HoldDuration(bn, d) > bn
    BY SMTT(90), <1>2, BoundsAssumption DEF HoldDuration
  <2> DEFINE e == Least(HoldDuration(bn, d), LongestWait)
             k == IF RentFor(d, WaitlistCost) <= g THEN "WakeMessage" ELSE "RemoveFromWaitlist"
  <2>3. RentFor(1, WaitlistCost) <= g /\ EnterWaitlist(e, k)
    BY <2>1 DEF WaitUpTo, g
  <2>4. /\ LongestWait \in Nat /\ LongestWait > bn
        /\ (LongestWait + ReserveFor - bn) * WaitlistCost <= g
    BY SMTT(90), <1>3, <2>3
  <2>5. /\ e \in Nat /\ e > bn /\ LockAmount(bn, e, WaitlistCost) \in Nat
        /\ LockAmount(bn, e, WaitlistCost) <= g
        /\ LockAmount(bn, e, WaitlistCost) = (e + ReserveFor - bn) * WaitlistCost
    BY <1>4, <2>2, <2>4
  <2>6. k \in {"RemoveFromWaitlist", "WakeMessage"}  OBVIOUS
  <2> HIDE DEF e, k
  <2> QED  BY <1>1, <2>3, <2>5, <2>6, EnterWaitlistStep DEF g
<1> QED  BY <1>5, <1>6, <1>7
=============================================================================
