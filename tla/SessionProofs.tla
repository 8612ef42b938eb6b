--------------------------- MODULE SessionProofs ---------------------------
(***************************************************************************)
(* Why no message between a client and its node is forgotten or printed    *)
(* twice.  A message is in one place of the system at a time, from when it *)
(* is sent: a queue, the node's buffer, the block that is published, and   *)
(* then, once for each client, the client's queue, its buffer, its console.*)
(***************************************************************************)
EXTENDS SessionProperties, FiniteSetTheorems, TLAPS

USE DEF brokerVars, nodeVars, clientVars, history

\* The queues, each message once.
Queued == UNION {ToSet(queues[q]) : q \in Queues}

QueuesApart ==
  /\ \A q \in Queues : IsInjective(queues[q])
  /\ \A p, q \in Queues : p # q => ToSet(queues[p]) \cap ToSet(queues[q]) = {}

\* Only what has been sent is anywhere.
Fresh ==
  /\ Queued \cup buffer \cup publishing.block \subseteq 1..sends
  /\ \A c \in Clients : Reached(c) \subseteq 1..sends

\* A message leaves a place for the next one.
Apart ==
  /\ Queued \cap (buffer \cup publishing.block) = {}
  /\ buffer \cap publishing.block = {}
  /\ \A c \in Clients : (Queued \cup buffer) \cap Reached(c) = {}
  /\ \A c \in publishing.todo : publishing.block \cap Reached(c) = {}

\* A client has a message once.
Once(c) ==
  /\ IsInjective(inbox[c])
  /\ ToSet(inbox[c]) \cap data[c] = {}
  /\ \A m \in ToSet(inbox[c]) \cup data[c] : printed[c][m] = 0

\* The node asks for what it consumes, and knows a client when it has a message.
Asked ==
  /\ \A i \in DOMAIN answers : answers[i].queue \in declared
  /\ consumed # {} \/ buffer # {} => clientNames # {}
  /\ publishing.todo = {} =>
       publishing.block \subseteq dropped \cup (UNION {owed[c] : c \in Clients})

\* What has come since the timer's callback got its copy is on record.
Noted == \A c \in Clients : copy[c] # {} => data[c] \ copy[c] \subseteq late[c]

\* The way of the messages.
Flow ==
  /\ QueuesApart /\ Fresh /\ Apart
  /\ \A c \in Clients : Once(c)
  /\ OwedReached /\ SentAccounted /\ PrintedOnce

SessionInv == TypeOK /\ Asked /\ Noted /\ Flow

-----------------------------------------------------------------------------
(* The order of the messages of a block.                                       *)

\* The messages of a block can be sorted: the place of a message is the number of messages
\* up to it.
LEMMA Sortable ==
  ASSUME NEW S \in SUBSET Nat, IsFiniteSet(S)
  PROVE  \E order \in SetToSeqs(S) : \A i, j \in DOMAIN order : i < j => order[i] < order[j]
<1> DEFINE below(x) == {y \in S : y <= x}
           size == Cardinality(S)
           place == [x \in S |-> Cardinality(below(x))]
           order == [i \in 1..size |-> CHOOSE x \in S : place[x] = i]
<1>1. size \in Nat
  BY FS_CardinalityType
<1>2. ASSUME NEW x \in S PROVE place[x] \in 1..size
  <2>1. IsFiniteSet(below(x)) /\ Cardinality(below(x)) <= size
    BY FS_Subset
  <2>2. Cardinality(below(x)) \in Nat
    BY <2>1, FS_CardinalityType
  <2>3. Cardinality(below(x)) # 0
    BY <2>1, FS_EmptySet
  <2> QED
    BY <1>1, <2>1, <2>2, <2>3
<1>3. ASSUME NEW x \in S, NEW y \in S, x < y PROVE place[x] < place[y]
  <2>1. IsFiniteSet(below(y)) /\ below(x) \in SUBSET below(y) /\ below(x) # below(y)
    <3>1. IsFiniteSet(below(y))
      BY FS_Subset
    <3>2. x \in Nat /\ y \in Nat
      OBVIOUS
    <3>3. below(x) \in SUBSET below(y)
      <4>1. \A z \in S : z <= x => z <= y
        BY <1>3, <3>2
      <4> QED
        BY <4>1
    <3>4. y \in below(y) /\ y \notin below(x)
      BY <1>3, <3>2
    <3> QED
      BY <3>1, <3>3, <3>4
  <2>2. /\ Cardinality(below(x)) <= Cardinality(below(y))
        /\ Cardinality(below(x)) # Cardinality(below(y))
    <3> HIDE DEF below
    <3> QED
      BY <2>1, FS_Subset
  <2> QED
    BY <1>1, <1>2, <2>2
<1>4. place \in Surjection(S, 1..size)
  <2>1. place \in [S -> 1..size]
    BY <1>2
  <2>2. \A x, y \in S : place[x] = place[y] => x = y
    <3> TAKE x, y \in S
    <3>1. x < y => place[x] # place[y]
      BY <1>1, <1>2, <1>3
    <3>2. y < x => place[x] # place[y]
      BY <1>1, <1>2, <1>3
    <3> HIDE DEF place
    <3> QED
      BY <3>1, <3>2
  <2>3. place \in Injection(S, 1..size)
    <3> HIDE DEF place
    <3> QED
      BY <2>1, <2>2 DEF Injection, IsInjective
  <2>4. IsFiniteSet(1..size) /\ Cardinality(1..size) = size
    BY <1>1, FS_Interval
  <2> HIDE DEF place
  <2> QED
    BY <2>3, <2>4, FS_Injection
<1>5. ASSUME NEW i \in 1..size PROVE order[i] \in S /\ place[order[i]] = i
  <2>1. \E x \in S : place[x] = i
    <3> HIDE DEF place
    <3> QED
      BY <1>4 DEF Surjection
  <2> HIDE DEF place
  <2> QED
    BY <2>1
<1> HIDE DEF place
<1>6. ASSUME NEW i \in 1..size, NEW j \in 1..size, i < j PROVE order[i] < order[j]
  <2>1. /\ order[i] \in S /\ place[order[i]] = i
        /\ order[j] \in S /\ place[order[j]] = j
    BY <1>5
  <2> HIDE DEF order
  <2>2. order[i] # order[j]
    BY <1>6, <2>1
  <2>3. order[j] < order[i] => j < i
    BY <1>3, <2>1
  <2>4. ~(j < i)
    BY <1>1, <1>6
  <2>5. order[i] \in Nat /\ order[j] \in Nat
    BY <2>1
  <2> QED
    BY <2>2, <2>3, <2>4, <2>5
<1>7. order \in SetToSeqs(S)
  <2>1. order \in [1..size -> S]
    BY <1>5
  <2>2. \A i, j \in 1..size : i # j => order[i] # order[j]
    BY <1>5
  <2> HIDE DEF order
  <2> QED
    BY <2>1, <2>2 DEF SetToSeqs
<1> HIDE DEF order
<1> QED
  BY <1>6, <1>7 DEF SetToSeqs

\* A block is published whole, each message once.
LEMMA InOrderWhole ==
  ASSUME NEW S \in SUBSET Message, SessionAssumption
  PROVE  /\ InOrder(S) \in Seq(Message) /\ IsInjective(InOrder(S))
         /\ ToSet(InOrder(S)) = S
<1> DEFINE order == InOrder(S)
           size == Cardinality(S)
<1>1. IsFiniteSet(S) /\ S \in SUBSET Nat
  <2>1. MaxSends \in Int
    BY DEF SessionAssumption
  <2>2. IsFiniteSet(1..MaxSends)
    BY <2>1, FS_Interval
  <2>3. Message = 1..MaxSends
    BY DEF Message
  <2>4. IsFiniteSet(S)
    BY <2>2, <2>3, FS_Subset
  <2> QED
    BY <2>1, <2>3, <2>4
<1>2. order \in SetToSeqs(S)
  BY <1>1, Sortable DEF InOrder
<1>3. size \in Nat
  BY <1>1, FS_CardinalityType
<1>4. order \in [1..size -> S] /\ \A i, j \in 1..size : i # j => order[i] # order[j]
  BY <1>2 DEF SetToSeqs
<1> HIDE DEF order
<1>5. order \in Surjection(1..size, S)
  <2>1. order \in Injection(1..size, S)
    BY <1>4 DEF Injection, IsInjective
  <2>2. Cardinality(1..size) = size
    BY <1>3, FS_Interval
  <2> QED
    BY <1>1, <2>1, <2>2, FS_Injection
<1>6. \A m \in S : \E i \in 1..size : order[i] = m
  BY <1>5 DEF Surjection
<1>7. order \in Seq(Message)
  BY <1>3, <1>4
<1>8. IsInjective(order)
  BY <1>4 DEF IsInjective
<1>9. ToSet(order) = S
  BY <1>4, <1>6 DEF ToSet
<1> QED
  BY <1>7, <1>8, <1>9 DEF order

-----------------------------------------------------------------------------
(* What a queue holds.                                                         *)

\* A message joins the end of a queue.
LEMMA Enqueued ==
  ASSUME NEW q \in Seq(Message), NEW m \in Message
  PROVE  /\ ToSet(Append(q, m)) = ToSet(q) \cup {m}
         /\ IsInjective(q) /\ m \notin ToSet(q) => IsInjective(Append(q, m))
<1> DEFINE p == Append(q, m)
<1>1. /\ DOMAIN p = DOMAIN q \cup {Len(q) + 1} /\ Len(q) + 1 \notin DOMAIN q
      /\ p[Len(q) + 1] = m /\ \A i \in DOMAIN q : p[i] = q[i]
  OBVIOUS
<1> HIDE DEF p
<1> QED
  BY <1>1 DEF ToSet, IsInjective, p

\* The first message leaves a queue.
LEMMA Dequeued ==
  ASSUME NEW q \in Seq(Message), q # <<>>
  PROVE  /\ Head(q) \in Message /\ Tail(q) \in Seq(Message)
         /\ ToSet(q) = ToSet(Tail(q)) \cup {Head(q)}
         /\ IsInjective(q) => IsInjective(Tail(q)) /\ Head(q) \notin ToSet(Tail(q))
<1> DEFINE p == Tail(q)
<1>1. /\ Head(q) \in Message /\ p \in Seq(Message)
      /\ \A i \in DOMAIN p : i + 1 \in DOMAIN q /\ p[i] = q[i + 1] /\ i + 1 # 1
      /\ \A i \in DOMAIN q : i # 1 => i - 1 \in DOMAIN p /\ i = (i - 1) + 1
      /\ DOMAIN p \subseteq Nat
      /\ 1 \in DOMAIN q /\ Head(q) = q[1]
  OBVIOUS
<1> HIDE DEF p
<1>2. \A i, j \in DOMAIN p : i + 1 = j + 1 => i = j
  BY <1>1
<1>3. \A m : m \in ToSet(q) <=> m \in ToSet(p) \cup {Head(q)}
  BY <1>1 DEF ToSet
<1>4. IsInjective(q) => IsInjective(p) /\ Head(q) \notin ToSet(p)
  BY <1>1, <1>2 DEF ToSet, IsInjective
<1> QED
  BY <1>1, <1>3, <1>4 DEF p

\* A block joins the end of a queue.
LEMMA Concatenated ==
  ASSUME NEW p \in Seq(Message), NEW q \in Seq(Message)
  PROVE  /\ p \o q \in Seq(Message)
         /\ ToSet(p \o q) = ToSet(p) \cup ToSet(q)
         /\ IsInjective(p) /\ IsInjective(q) /\ ToSet(p) \cap ToSet(q) = {}
              => IsInjective(p \o q)
<1> DEFINE r == p \o q
           shift(i) == Len(p) + i
<1>1. /\ r \in Seq(Message)
      /\ \A i \in DOMAIN p : i \in DOMAIN r /\ r[i] = p[i]
      /\ \A i \in DOMAIN q : shift(i) \in DOMAIN r /\ r[shift(i)] = q[i]
      /\ \A i \in DOMAIN r \ DOMAIN p : i - Len(p) \in DOMAIN q /\ i = shift(i - Len(p))
  OBVIOUS
<1> HIDE DEF r, shift
<1>2. \A i \in DOMAIN r : i \in DOMAIN p \/ \E j \in DOMAIN q : i = shift(j)
  BY <1>1
<1>3. \A m : m \in ToSet(r) <=> m \in ToSet(p) \cup ToSet(q)
  BY <1>1, <1>2 DEF ToSet
<1>4. ASSUME IsInjective(p), IsInjective(q), ToSet(p) \cap ToSet(q) = {}
      PROVE  IsInjective(r)
  <2> SUFFICES ASSUME NEW i \in DOMAIN r, NEW j \in DOMAIN r, r[i] = r[j] PROVE i = j
    BY DEF IsInjective
  <2>1. CASE i \in DOMAIN p /\ j \in DOMAIN p
    BY <1>1, <1>4, <2>1 DEF IsInjective
  <2>2. ASSUME NEW a \in DOMAIN p, NEW b \in DOMAIN q, p[a] = q[b] PROVE FALSE
    BY <1>4, <2>2 DEF ToSet
  <2>3. ASSUME NEW a \in DOMAIN q, NEW b \in DOMAIN q, i = shift(a), j = shift(b)
        PROVE  i = j
    BY <1>1, <1>4, <2>3 DEF IsInjective
  <2> QED
    BY <1>1, <1>2, <2>1, <2>2, <2>3
<1> QED
  BY <1>1, <1>3, <1>4 DEF r

-----------------------------------------------------------------------------
(* The ranges of the variables.                                                *)

\* The types, and what has been asked for, hold at the start.
LEMMA TypeInit == Init => TypeOK /\ Asked
<1> SUFFICES ASSUME Init PROVE TypeOK /\ Asked
  OBVIOUS
<1>1. TypeOK
  <2>1. <<>> \in Seq(Control) /\ <<>> \in Seq(Message)
    OBVIOUS
  <2>2. 0 \in 0..MaxRestarts /\ 0 \in 0..MaxInits /\ 0 \in 0..MaxSends /\ 0 \in 0..MaxExits
    BY SessionAssumption
  <2>3. Quiet \in [todo : SUBSET Clients, block : SUBSET Message]
    BY DEF Quiet
  <2> QED
    BY <2>1, <2>2, <2>3 DEF Init, TypeOK
<1>2. Asked
  BY DEF Init, Asked, Quiet
<1> QED
  BY <1>1, <1>2

\* What a client does keeps the ranges.
LEMMA ClientTypes ==
  ASSUME TypeOK, Asked, NEW c \in Clients, Console(c) \/ ClientThread(c) PROVE TypeOK' /\ Asked'
<1> USE DEF TypeOK, Asked
<1>1. CASE Connect(c)
  BY <1>1 DEF Connect
<1>2. ASSUME NEW q \in Queues, CreateQueue(c, q) PROVE TypeOK' /\ Asked'
  <2>1. [queue |-> q, author |-> c] \in Control
    BY DEF Control
  <2>2. control' \in Seq(Control) /\ inits' \in 0..MaxInits
    <3> DEFINE request == [queue |-> q, author |-> c]
    <3>1. control' = Append(control, request) /\ control \in Seq(Control)
      BY <1>2 DEF CreateQueue
    <3>2. control' \in Seq(Control)
      <4>1. request \in Control
        BY <2>1
      <4> HIDE DEF request
      <4> QED
        BY <3>1, <4>1
    <3>3. inits' \in 0..MaxInits
      <4>1. inits < MaxInits /\ inits' = inits + 1 /\ inits \in 0..MaxInits
        BY <1>2 DEF CreateQueue
      <4> QED
        BY <4>1, SessionAssumption
    <3> QED
      BY <3>2, <3>3
  <2>3. Asked'
    BY <1>2 DEF CreateQueue
  <2> HIDE DEF Asked
  <2> QED
    BY <1>2, <2>2, <2>3 DEF CreateQueue
<1>3. ASSUME NEW q \in Queues, SendMessage(c, q) PROVE TypeOK' /\ Asked'
  <2>1. sends + 1 \in Message /\ sends' \in 0..MaxSends
    BY <1>3, SessionAssumption DEF SendMessage, Message
  <2>2. Append(queues[q], sends + 1) \in Seq(Message)
    BY <2>1
  <2>3. ASSUME q \in declared
        PROVE  queues' \in [Queues -> Seq(Message)] /\ dropped' \subseteq Message
    <3>1. queues' = [queues EXCEPT ![q] = Append(@, sends + 1)] /\ dropped' = dropped
      BY <1>3, <2>3 DEF SendMessage
    <3> QED
      BY <2>2, <3>1
  <2>4. ASSUME q \notin declared
        PROVE  queues' \in [Queues -> Seq(Message)] /\ dropped' \subseteq Message
    <3>1. queues' = queues /\ dropped' = dropped \cup {sends + 1}
      BY <1>3, <2>4 DEF SendMessage
    <3> QED
      BY <2>1, <3>1
  <2>5. queues' \in [Queues -> Seq(Message)] /\ dropped' \subseteq Message
    BY <2>3, <2>4
  <2>6. Asked'
    BY <1>3 DEF SendMessage
  <2> HIDE DEF Asked
  <2> QED
    BY <1>3, <2>1, <2>5, <2>6 DEF SendMessage
<1>4. CASE Exit(c)
  <2>1. forgotten' \in [Clients -> SUBSET Message] /\ exits' \in 0..MaxExits
    BY <1>4, SessionAssumption DEF Exit
  <2>2. /\ data' \in [Clients -> SUBSET Message] /\ copy' \in [Clients -> SUBSET Message]
        /\ \A d \in Clients : copy'[d] \subseteq data'[d]
    BY <1>4 DEF Exit
  <2>3. Asked'
    BY <1>4 DEF Exit
  <2> HIDE DEF Asked
  <2> QED
    BY <1>4, <2>1, <2>2, <2>3 DEF Exit
<1>5. CASE Receive(c)
  <2> DEFINE q == inbox[c]
  <2>1. Head(q) \in Message /\ Tail(q) \in Seq(Message)
    <3>1. q \in Seq(Message) /\ q # <<>>
      BY <1>5 DEF Receive
    <3> HIDE DEF q
    <3> QED
      BY <3>1, Dequeued
  <2>2. inbox' \in [Clients -> Seq(Message)]
    BY <1>5, <2>1 DEF Receive
  <2>3. /\ data' \in [Clients -> SUBSET Message]
        /\ \A d \in Clients : copy'[d] \subseteq data'[d]
    BY <1>5, <2>1 DEF Receive
  <2>4. Asked'
    BY <1>5 DEF Receive
  <2>5. late' \in [Clients -> SUBSET Message]
    BY <1>5, <2>1 DEF Receive
  <2> HIDE DEF Asked
  <2> QED
    BY <1>5, <2>2, <2>3, <2>4, <2>5 DEF Receive
<1>6. CASE GetData(c)
  <2>1. /\ copy' \in [Clients -> SUBSET Message]
        /\ \A d \in Clients : copy'[d] \subseteq data'[d]
    BY <1>6 DEF GetData, CopyOf
  <2>2. Asked'
    BY <1>6 DEF GetData, CopyOf
  <2> HIDE DEF Asked
  <2> QED
    BY <1>6, <2>1, <2>2 DEF GetData, CopyOf
<1>7. CASE ClearBuffer(c)
  <2>1. printed' \in [Clients -> [Message -> Nat]]
    <3>1. [m \in Message |-> IF m \in copy[c] THEN printed[c][m] + 1 ELSE printed[c][m]]
            \in [Message -> Nat]
      OBVIOUS
    <3> QED
      BY <1>7, <3>1 DEF ClearBuffer, PrintLeaving
  <2>2. /\ data' \in [Clients -> SUBSET Message] /\ copy' \in [Clients -> SUBSET Message]
        /\ \A d \in Clients : copy'[d] \subseteq data'[d]
    BY <1>7 DEF ClearBuffer, PrintLeaving
  <2>3. Asked'
    BY <1>7 DEF ClearBuffer, PrintLeaving
  <2> HIDE DEF Asked
  <2> QED
    BY <1>7, <2>1, <2>2, <2>3 DEF ClearBuffer, PrintLeaving
<1> QED
  BY <1>1, <1>2, <1>3, <1>4, <1>5, <1>6, <1>7 DEF Console, ClientThread

\* The block that is published to a client makes a longer queue of messages.
LEMMA SendDataType ==
  ASSUME TypeOK, NEW c \in Clients, SendDataToClients(c)
  PROVE  /\ inbox' \in [Clients -> Seq(Message)]
         /\ ~closed => inbox'[c] = inbox[c] \o InOrder(publishing.block)
<1>1. InOrder(publishing.block) \in Seq(Message)
  BY SessionAssumption, InOrderWhole DEF TypeOK
<1>2. inbox[c] \o InOrder(publishing.block) \in Seq(Message)
  BY <1>1, Concatenated DEF TypeOK
<1> QED
  BY <1>2 DEF SendDataToClients, SendDataTo, TypeOK

\* What the node does keeps the ranges.
LEMMA NodeTypes ==
  ASSUME TypeOK, Asked, EventLoop \/ Publish \/ Restart PROVE TypeOK' /\ Asked'
<1> USE DEF TypeOK, Asked
<1>1. CASE HandleControl
  <2>1. Head(control) \in Control /\ Tail(control) \in Seq(Control)
    BY <1>1 DEF HandleControl, HandleControlDeclaring
  <2>2. Head(control).queue \in Queues
    BY <2>1 DEF Control
  <2>3. /\ answers' \in Seq(Control)
        /\ \A i \in DOMAIN answers' : \/ answers'[i] = Head(control)
                                      \/ i \in DOMAIN answers /\ answers'[i] = answers[i]
    BY <1>1, <2>1 DEF HandleControl, HandleControlDeclaring
  <2>4. \A i \in DOMAIN answers' : answers'[i].queue \in declared'
    BY <1>1, <2>3 DEF HandleControl, HandleControlDeclaring
  <2>5. Asked'
    <3>1. UNCHANGED <<consumed, buffer, clientNames, publishing, dropped, owed>>
      BY <1>1 DEF HandleControl, HandleControlDeclaring
    <3> HIDE DEF TypeOK
    <3> QED
      BY <2>4, <3>1
  <2> HIDE DEF Asked
  <2> QED
    BY <1>1, <2>1, <2>2, <2>3, <2>5 DEF HandleControl, HandleControlDeclaring
<1>8. CASE DeclareError
  <2>1. Tail(control) \in Seq(Control)
    BY <1>8 DEF DeclareError
  <2>2. Asked'
    BY <1>8 DEF DeclareError
  <2> HIDE DEF Asked
  <2> QED
    BY <1>8, <2>1, <2>2 DEF DeclareError
<1>2. ASSUME NEW c \in Clients, DeclareOk(c) PROVE TypeOK' /\ Asked'
  <2>1. Tail(answers) \in Seq(Control) /\ Head(answers).queue \in declared
    BY <1>2 DEF DeclareOk, Register
  <2>2. \A i \in DOMAIN Tail(answers) : Tail(answers)[i].queue \in declared
    BY <1>2 DEF DeclareOk, Register
  <2>3. TypeOK'
    BY <1>2, <2>1 DEF DeclareOk, Register
  <2>4. Asked'
    BY <1>2, <2>2 DEF DeclareOk, Register
  <2> QED
    BY <2>3, <2>4
<1>3. ASSUME NEW q \in Queues, Deliver(q) PROVE TypeOK' /\ Asked'
  <2>1. Head(queues[q]) \in Message /\ Tail(queues[q]) \in Seq(Message)
    BY <1>3, Dequeued DEF Deliver
  <2>2. Asked'
    BY <1>3 DEF Deliver
  <2> HIDE DEF Asked
  <2> QED
    BY <1>3, <2>1, <2>2 DEF Deliver
<1>4. CASE BeginPublish
  BY <1>4 DEF BeginPublish, BeginPublishTo
<1>5. ASSUME NEW c \in Clients, SendDataToClients(c) PROVE TypeOK' /\ Asked'
  <2>1. inbox' \in [Clients -> Seq(Message)]
    BY <1>5, SendDataType
  <2>2. /\ publishing' \in [todo : SUBSET Clients, block : SUBSET Message]
        /\ publishing'.block = publishing.block
    BY <1>5 DEF SendDataToClients, SendDataTo
  <2>3. /\ owed' \in [Clients -> SUBSET Message] /\ dropped' \in SUBSET Message
        /\ publishing.block \subseteq dropped' \cup owed'[c]
    <3>1. CASE closed
      BY <1>5, <3>1 DEF SendDataToClients, SendDataTo
    <3>2. CASE ~closed
      <4>1. owed' = [owed EXCEPT ![c] = owed[c] \cup publishing.block] /\ dropped' = dropped
        BY <1>5, <3>2 DEF SendDataToClients, SendDataTo
      <4>2. publishing.block \in SUBSET Message
        OBVIOUS
      <4> QED
        BY <4>1, <4>2
    <3> QED
      BY <3>1, <3>2
  <2>4. publishing'.block \subseteq dropped' \cup (UNION {owed'[d] : d \in Clients})
    BY <2>2, <2>3
  <2>5. Asked'
    BY <1>5, <2>4 DEF SendDataToClients, SendDataTo
  <2> HIDE DEF Asked
  <2> QED
    BY <1>5, <2>1, <2>2, <2>3, <2>4, <2>5 DEF SendDataToClients, SendDataTo
<1>6. CASE EndPublish
  BY <1>6 DEF EndPublish, Quiet
<1>7. CASE Restart
  <2>1. TypeOK'
    <3>1. restarts' \in 0..MaxRestarts
      BY <1>7, SessionAssumption DEF Restart
    <3>2. lost' \subseteq Message
      BY <1>7 DEF Restart
    <3>3. answers' \in Seq(Control)
      BY <1>7 DEF Restart
    <3> HIDE DEF Asked
    <3> QED
      BY <1>7, <3>1, <3>2, <3>3 DEF Restart, Quiet
  <2>2. Asked'
    BY <1>7 DEF Restart, Quiet
  <2> QED
    BY <2>1, <2>2
<1> QED
  BY <1>1, <1>2, <1>3, <1>4, <1>5, <1>6, <1>7, <1>8
  DEF EventLoop, Publish, ContinuePublish

\* Every step keeps the ranges.
LEMMA TypeNext == TypeOK /\ Asked /\ [Next]_vars => TypeOK' /\ Asked'
<1> SUFFICES ASSUME TypeOK, Asked, [Next]_vars PROVE TypeOK' /\ Asked'
  OBVIOUS
<1>1. CASE UNCHANGED vars
  BY <1>1 DEF vars, TypeOK, Asked
<1>2. CASE Next
  BY <1>2, ClientTypes, NodeTypes DEF Next
<1> QED
  BY <1>1, <1>2

\* A message that comes between getData and clearBuffer is on record.
LEMMA NotedNext == TypeOK /\ Noted /\ [Next]_vars => Noted'
<1> SUFFICES ASSUME TypeOK, Noted, [Next]_vars PROVE Noted'
  OBVIOUS
<1> USE DEF TypeOK, Noted
<1>1. CASE UNCHANGED <<data, copy, late>>
  BY <1>1
<1>2. ASSUME NEW c \in Clients, Exit(c) PROVE Noted'
  BY <1>2 DEF Exit
<1>3. ASSUME NEW c \in Clients, Receive(c) PROVE Noted'
  <2>1. /\ copy' = copy /\ data'[c] = data[c] \cup {Head(inbox[c])}
        /\ copy[c] # {} => late'[c] = late[c] \cup {Head(inbox[c])}
        /\ \A d \in Clients \ {c} : data'[d] = data[d] /\ late'[d] = late[d]
    BY <1>3 DEF Receive
  <2> QED
    BY <2>1
<1>4. ASSUME NEW c \in Clients, GetData(c) PROVE Noted'
  BY <1>4 DEF GetData, CopyOf
<1>5. ASSUME NEW c \in Clients, ClearBuffer(c) PROVE Noted'
  BY <1>5 DEF ClearBuffer, PrintLeaving
<1>6. CASE EventLoop \/ Publish \/ Restart
  BY <1>1, <1>6, Zenon DEF EventLoop, Publish, ContinuePublish, Restart, HandleControl,
     HandleControlDeclaring, DeclareError, DeclareOk, Register, Deliver, BeginPublish,
     BeginPublishTo, SendDataToClients, SendDataTo, EndPublish
<1>7. ASSUME NEW c \in Clients, Console(c) PROVE Noted'
  BY <1>1, <1>2, <1>7, Zenon DEF Console, Connect, CreateQueue, SendMessage
<1>8. CASE UNCHANGED vars
  BY <1>1, <1>8 DEF vars
<1> QED
  BY <1>3, <1>4, <1>5, <1>6, <1>7, <1>8, Zenon DEF Next, ClientThread

-----------------------------------------------------------------------------
(* The way of the messages.                                                    *)

\* At the start no message is anywhere.
LEMMA FlowInit == Init => Flow
<1> SUFFICES ASSUME Init PROVE Flow
  OBVIOUS
<1>1. ToSet(<<>>) = {} /\ IsInjective(<<>>)
  BY DEF ToSet, IsInjective
<1>2. Queued = {} /\ QueuesApart
  BY <1>1 DEF Init, Queued, QueuesApart
<1>3. \A c \in Clients : Reached(c) = {} /\ Once(c)
  BY <1>1 DEF Init, Reached, Coming, Once
<1>4. Fresh /\ Apart
  BY <1>2, <1>3 DEF Init, Fresh, Apart, Quiet
<1>5. OwedReached /\ SentAccounted /\ PrintedOnce
  BY DEF Init, OwedReached, SentAccounted, PrintedOnce
<1> QED
  BY <1>2, <1>3, <1>4, <1>5 DEF Flow

\* Commands and answers are not messages.
LEMMA FlowKept ==
  ASSUME Flow, UNCHANGED <<queues, inbox, buffer, publishing, sends, data, late, forgotten,
                           printed, dropped, lost, owed>>
  PROVE  Flow'
<1>1. Queued' = Queued /\ \A c : Reached(c)' = Reached(c)
  BY DEF Queued, Reached, Coming
<1>2. \A c \in Clients : Once(c)'
  BY DEF Flow, Once
<1>3. QueuesApart' /\ SentAccounted' /\ PrintedOnce'
  BY DEF Flow, QueuesApart, SentAccounted, PrintedOnce
<1>4. Fresh' /\ Apart' /\ OwedReached'
  <2>1. Fresh'
    BY <1>1 DEF Flow, Fresh
  <2>2. Apart'
    BY <1>1 DEF Flow, Apart
  <2>3. OwedReached'
    BY <1>1 DEF Flow, OwedReached
  <2> QED
    BY <2>1, <2>2, <2>3
<1> QED
  BY <1>2, <1>3, <1>4 DEF Flow

\* A client that moves its messages changes nothing for the others.
LEMMA ClientFlow ==
  ASSUME TypeOK, Flow, UNCHANGED <<queues, buffer, publishing, sends, dropped, lost, owed>>,
         \A c \in Clients : /\ Reached(c)' = Reached(c) /\ Once(c)'
                            /\ \A m \in Message : printed'[c][m] <= 1
  PROVE  Flow'
<1>1. Queued' = Queued
  BY DEF Queued
<1>2. QueuesApart' /\ SentAccounted' /\ PrintedOnce'
  BY DEF Flow, QueuesApart, SentAccounted, PrintedOnce
<1>3. Fresh' /\ Apart' /\ OwedReached'
  <2>1. Fresh'
    BY <1>1 DEF Flow, Fresh
  <2>2. Apart'
    BY <1>1 DEF Flow, Apart, TypeOK
  <2>3. OwedReached'
    BY <1>1 DEF Flow, OwedReached
  <2> QED
    BY <2>1, <2>2, <2>3
<1> QED
  BY <1>2, <1>3 DEF Flow

\* A client that exits forgets what is in its buffer.
LEMMA ExitFlow ==
  ASSUME TypeOK, Flow, NEW c \in Clients, Exit(c) PROVE Flow'
<1>1. UNCHANGED <<queues, inbox, buffer, publishing, sends, printed, late, dropped, lost, owed>>
  BY DEF Exit
<1>2. /\ data' = [data EXCEPT ![c] = {}]
      /\ forgotten' = [forgotten EXCEPT ![c] = @ \cup data[c]]
  BY DEF Exit
<1>3. ASSUME NEW d \in Clients
      PROVE  /\ data'[d] \subseteq data[d]
             /\ data'[d] \cup forgotten'[d] = data[d] \cup forgotten[d]
  BY <1>2 DEF TypeOK
<1>4. \A d \in Clients : Reached(d)' = Reached(d)
  BY <1>1, <1>3 DEF Reached, Coming
<1>5. \A d \in Clients : Once(d)'
  BY <1>1, <1>3 DEF Flow, Once
<1> QED
  BY <1>1, <1>4, <1>5, ClientFlow DEF Flow, PrintedOnce

\* A message moves from the client's queue to its buffer.
LEMMA ReceiveFlow ==
  ASSUME TypeOK, Flow, NEW c \in Clients, Receive(c) PROVE Flow'
<1> DEFINE q == inbox[c]
           m == Head(q)
<1>1. UNCHANGED <<queues, buffer, publishing, sends, printed, forgotten, dropped, lost, owed>>
  BY DEF Receive
<1>2. /\ data' = [data EXCEPT ![c] = @ \cup {m}]
      /\ inbox' = [inbox EXCEPT ![c] = Tail(q)]
  BY DEF Receive, TypeOK
<1>3. /\ ToSet(q) = ToSet(Tail(q)) \cup {m}
      /\ IsInjective(Tail(q)) /\ m \notin ToSet(Tail(q))
  <2>1. q \in Seq(Message) /\ q # <<>> /\ IsInjective(q)
    BY DEF Receive, TypeOK, Flow, Once
  <2> HIDE DEF q
  <2> QED
    BY <2>1, Dequeued
<1>4. /\ data'[c] = data[c] \cup {m} /\ inbox'[c] = Tail(q)
      /\ \A d \in Clients \ {c} : data'[d] = data[d] /\ inbox'[d] = inbox[d]
  BY <1>2 DEF TypeOK
<1>7. /\ late'[c] \in {late[c], late[c] \cup {m}}
      /\ \A d \in Clients \ {c} : late'[d] = late[d]
  BY DEF Receive, TypeOK
<1>5. \A d \in Clients : Reached(d)' = Reached(d)
  <2> TAKE d \in Clients
  <2>1. /\ ToSet(inbox'[d]) \cup data'[d] = ToSet(inbox[d]) \cup data[d]
        /\ ToSet(inbox[d]) \cup data[d] \cup late'[d] = ToSet(inbox[d]) \cup data[d] \cup late[d]
    BY <1>3, <1>4, <1>7
  <2> QED
    BY <1>1, <2>1 DEF Reached, Coming
<1>6. \A d \in Clients : Once(d)'
  <2> TAKE d \in Clients
  <2>1. Once(d)
    BY DEF Flow
  <2>2. CASE d = c
    <3>1. ToSet(Tail(q)) \cap (data[c] \cup {m}) = {}
      BY <1>3, <2>1, <2>2 DEF Once
    <3>2. \A x \in ToSet(Tail(q)) \cup data[c] \cup {m} : printed[c][x] = 0
      BY <1>3, <2>1, <2>2 DEF Once
    <3> QED
      BY <1>1, <1>3, <1>4, <2>2, <3>1, <3>2 DEF Once
  <2>3. CASE d # c
    BY <1>1, <1>4, <2>1, <2>3 DEF Once
  <2> QED
    BY <2>2, <2>3
<1> QED
  BY <1>1, <1>5, <1>6, ClientFlow DEF Flow, PrintedOnce

\* Clearing the buffer makes what getData has returned printed, and loses only the rest.
LEMMA ClearFlow ==
  ASSUME TypeOK, Noted, Flow, NEW c \in Clients, ClearBuffer(c) PROVE Flow'
<1>1. UNCHANGED <<queues, inbox, buffer, publishing, sends, dropped, lost, owed, late, forgotten>>
  BY DEF ClearBuffer, PrintLeaving
<1>2. /\ data'[c] = {} /\ data[c] \ copy[c] \subseteq late[c]
      /\ \A x \in Message :
           printed'[c][x] = IF x \in copy[c] THEN printed[c][x] + 1 ELSE printed[c][x]
      /\ \A d \in Clients \ {c} : data'[d] = data[d] /\ printed'[d] = printed[d]
  BY DEF ClearBuffer, PrintLeaving, TypeOK, Noted
<1>3. Once(c) /\ copy[c] \subseteq data[c] /\ data[c] \subseteq Message
      /\ \A x \in Message : printed[c][x] \in Nat
  BY DEF Flow, TypeOK
<1>4. {x \in Message : printed'[c][x] > 0} = {x \in Message : printed[c][x] > 0} \cup copy[c]
  <2>1. \A x \in copy[c] : x \in Message /\ printed[c][x] = 0 /\ printed'[c][x] = 1
    BY <1>2, <1>3 DEF Once
  <2>2. \A x \in Message \ copy[c] : printed'[c][x] = printed[c][x]
    BY <1>2
  <2> QED
    BY <2>1, <2>2
<1>5. \A d \in Clients : Reached(d)' = Reached(d)
  <2> TAKE d \in Clients
  <2>1. CASE d = c
    BY <1>1, <1>2, <1>3, <1>4, <2>1 DEF Reached, Coming
  <2>2. CASE d # c
    BY <1>1, <1>2, <2>2 DEF Reached, Coming
  <2> QED
    BY <2>1, <2>2
<1>6. ASSUME NEW d \in Clients PROVE Once(d)' /\ \A x \in Message : printed'[d][x] <= 1
  <2>1. Once(d) /\ \A x \in Message : printed[d][x] <= 1
    BY DEF Flow, PrintedOnce
  <2>2. CASE d = c
    <3>1. \A x \in ToSet(inbox[c]) : x \in Message /\ x \notin copy[c] /\ printed[c][x] = 0
      <4>1. ToSet(inbox[c]) \subseteq Message
        BY DEF ToSet, TypeOK
      <4> QED
        BY <1>3, <4>1 DEF Once
    <3>2. \A x \in ToSet(inbox[c]) : printed'[c][x] = 0
      BY <1>2, <3>1
    <3>3. \A x \in copy[c] : printed[c][x] = 0
      BY <1>3 DEF Once
    <3>4. \A x \in Message : printed'[c][x] <= 1
      BY <1>2, <2>1, <2>2, <3>3
    <3>5. Once(c)'
      BY <1>1, <1>2, <1>3, <3>2 DEF Once
    <3> QED
      BY <2>2, <3>4, <3>5
  <2>3. CASE d # c
    <3>1. Once(d)'
      BY <1>1, <1>2, <2>1, <2>3 DEF Once
    <3>2. \A x \in Message : printed'[d][x] <= 1
      BY <1>2, <2>1, <2>3
    <3> QED
      BY <3>1, <3>2
  <2> QED
    BY <2>2, <2>3
<1> QED
  BY <1>1, <1>5, <1>6, ClientFlow

\* A message that is sent is a new one.
LEMMA SendFlow ==
  ASSUME TypeOK, Flow, NEW c \in Clients, NEW q \in Queues, SendMessage(c, q) PROVE Flow'
<1> DEFINE m == sends + 1
<1>1. /\ UNCHANGED <<inbox, buffer, publishing, data, printed, late, forgotten, lost, owed>>
      /\ sends' = m /\ dropped \subseteq dropped'
  BY DEF SendMessage
<1>2. m \in Message /\ m \notin 1..sends /\ 1..sends' = (1..sends) \cup {m}
  <2>1. sends \in 0..MaxSends /\ sends < MaxSends /\ sends' = sends + 1
    BY DEF SendMessage, TypeOK
  <2> QED
    BY <2>1, SessionAssumption DEF Message
<1>3. /\ m \notin Queued \cup buffer \cup publishing.block
      /\ \A d \in Clients : Reached(d)' = Reached(d) /\ m \notin Reached(d)
  BY <1>1, <1>2 DEF Flow, Fresh, Reached, Coming
<1>4. /\ \A p \in Queues : \/ queues'[p] = queues[p]
                           \/ /\ p = q /\ ToSet(queues'[p]) = ToSet(queues[p]) \cup {m}
                              /\ IsInjective(queues'[p])
      /\ m \in dropped' \/ m \in ToSet(queues'[q])
  <2>1. CASE q \notin declared
    BY <2>1 DEF SendMessage
  <2>2. CASE q \in declared
    <3>1. queues' = [queues EXCEPT ![q] = Append(queues[q], m)]
      BY <2>2 DEF SendMessage, TypeOK
    <3>2. m \notin ToSet(queues[q])
      BY <1>3 DEF Queued
    <3>3. queues[q] \in Seq(Message) /\ IsInjective(queues[q])
      BY DEF TypeOK, Flow, QueuesApart
    <3>4. /\ ToSet(Append(queues[q], m)) = ToSet(queues[q]) \cup {m}
          /\ IsInjective(Append(queues[q], m))
      BY <1>2, <3>2, <3>3, Enqueued
    <3>5. /\ queues'[q] = Append(queues[q], m)
          /\ \A p \in Queues \ {q} : queues'[p] = queues[p]
      BY <3>1 DEF TypeOK
    <3> QED
      BY <3>4, <3>5
  <2> QED
    BY <2>1, <2>2
<1>5. Queued \subseteq Queued' /\ Queued' \subseteq Queued \cup {m}
  BY <1>4 DEF Queued
<1>6. QueuesApart'
  <2>1. \A p \in Queues : m \notin ToSet(queues[p])
    BY <1>3 DEF Queued
  <2> QED
    BY <1>4, <2>1 DEF Flow, QueuesApart
<1>7. Fresh'
  BY <1>1, <1>2, <1>3, <1>5 DEF Flow, Fresh
<1>8. Apart'
  BY <1>1, <1>3, <1>5 DEF Flow, Apart, TypeOK
<1>9. \A d \in Clients : Once(d)'
  BY <1>1 DEF Flow, Once
<1>10. SentAccounted'
  <2>1. m \in dropped' \cup Queued'
    BY <1>4 DEF Queued
  <2>2. 1..sends \subseteq dropped \cup lost \cup buffer \cup publishing.block \cup Queued
                             \cup (UNION {owed[d] : d \in Clients})
    BY DEF Flow, SentAccounted, Queued
  <2>3. SentAccounted' <=>
          1..sends' \subseteq dropped' \cup lost \cup buffer \cup publishing.block \cup Queued'
                                \cup (UNION {owed[d] : d \in Clients})
    BY <1>1 DEF SentAccounted, Queued
  <2> QED
    BY <1>1, <1>2, <1>5, <2>1, <2>2, <2>3
<1> QED
  BY <1>1, <1>3, <1>6, <1>7, <1>8, <1>9, <1>10 DEF Flow, OwedReached, PrintedOnce

\* A message goes from its queue to the node's buffer.
LEMMA DeliverFlow ==
  ASSUME TypeOK, Flow, NEW q \in Queues, Deliver(q) PROVE Flow'
<1> DEFINE m == Head(queues[q])
           rest == Tail(queues[q])
<1>1. /\ UNCHANGED <<inbox, publishing, sends, data, printed, late, forgotten, dropped, lost, owed>>
      /\ buffer' = buffer \cup {m}
  BY DEF Deliver
<1>2. /\ queues'[q] = rest /\ \A p \in Queues \ {q} : queues'[p] = queues[p]
      /\ ToSet(queues[q]) = ToSet(rest) \cup {m}
      /\ IsInjective(rest) /\ m \notin ToSet(rest)
  <2>1. queues[q] \in Seq(Message) /\ queues[q] # <<>> /\ IsInjective(queues[q])
    BY DEF Deliver, TypeOK, Flow, QueuesApart
  <2>2. /\ queues'[q] = rest /\ \A p \in Queues \ {q} : queues'[p] = queues[p]
    BY DEF Deliver, TypeOK
  <2> QED
    BY <2>1, <2>2, Dequeued
<1> HIDE DEF m, rest
<1>3. QueuesApart'
  BY <1>2 DEF Flow, QueuesApart
<1>4. m \in Queued /\ m \notin Queued' /\ Queued = Queued' \cup {m}
  <2>1. \A p \in Queues \ {q} : m \notin ToSet(queues[p])
    BY <1>2 DEF Flow, QueuesApart
  <2> QED
    BY <1>2, <2>1 DEF Queued
<1>5. \A d \in Clients : Reached(d)' = Reached(d)
  BY <1>1 DEF Reached, Coming
<1>6. Fresh'
  BY <1>1, <1>4, <1>5 DEF Flow, Fresh
<1>7. Apart'
  BY <1>1, <1>4, <1>5 DEF Flow, Apart, TypeOK
<1>8. \A d \in Clients : Once(d)'
  BY <1>1 DEF Flow, Once
<1>9. SentAccounted'
  <2>1. 1..sends \subseteq dropped \cup lost \cup buffer \cup publishing.block \cup Queued
                             \cup (UNION {owed[d] : d \in Clients})
    BY DEF Flow, SentAccounted, Queued
  <2>2. SentAccounted' <=>
          1..sends \subseteq dropped \cup lost \cup buffer' \cup publishing.block \cup Queued'
                               \cup (UNION {owed[d] : d \in Clients})
    BY <1>1 DEF SentAccounted, Queued
  <2> QED
    BY <1>1, <1>4, <2>1, <2>2
<1> QED
  BY <1>1, <1>3, <1>5, <1>6, <1>7, <1>8, <1>9 DEF Flow, OwedReached, PrintedOnce

\* The buffer becomes the block that is published, the block is given up, or a restart
\* loses both.
LEMMA BlockFlow ==
  ASSUME TypeOK, Flow,
         UNCHANGED <<queues, inbox, sends, data, printed, late, forgotten, dropped, owed>>,
         publishing' \in [todo : SUBSET Clients, block : SUBSET Message],
         buffer' \subseteq buffer, publishing'.block \subseteq buffer, lost \subseteq lost',
         buffer' \cap publishing'.block = {},
         buffer \cup publishing.block \subseteq
           buffer' \cup publishing'.block \cup lost' \cup dropped
             \cup (UNION {owed[d] : d \in Clients})
  PROVE  Flow'
<1>1. Queued' = Queued /\ QueuesApart'
  BY DEF Queued, Flow, QueuesApart
<1>2. \A d \in Clients : Reached(d)' = Reached(d)
  BY DEF Reached, Coming
<1>3. Fresh'
  BY <1>1, <1>2 DEF Flow, Fresh
<1>4. Apart'
  BY <1>1, <1>2 DEF Flow, Apart
<1>5. \A d \in Clients : Once(d)'
  BY DEF Flow, Once
<1>6. SentAccounted'
  <2>1. 1..sends \subseteq dropped \cup lost \cup buffer \cup publishing.block \cup Queued
                             \cup (UNION {owed[d] : d \in Clients})
    BY DEF Flow, SentAccounted, Queued
  <2>2. SentAccounted' <=>
          1..sends \subseteq dropped \cup lost' \cup buffer' \cup publishing'.block \cup Queued
                               \cup (UNION {owed[d] : d \in Clients})
    BY DEF SentAccounted, Queued
  <2> QED
    BY <2>1, <2>2
<1> QED
  BY <1>1, <1>2, <1>3, <1>4, <1>5, <1>6 DEF Flow, OwedReached, PrintedOnce

\* A client gets the block that is published, and has had nothing of it before.
LEMMA SendDataFlow ==
  ASSUME TypeOK, Flow, NEW c \in Clients, SendDataToClients(c), ~closed PROVE Flow'
<1> DEFINE b == publishing.block
<1>1. /\ UNCHANGED <<queues, buffer, sends, data, printed, late, forgotten, dropped, lost>>
      /\ publishing'.block = b /\ publishing'.todo = publishing.todo \ {c}
      /\ c \in publishing.todo
  BY DEF SendDataToClients, SendDataTo, TypeOK
<1>2. b \subseteq Message /\ b \cap Reached(c) = {}
  BY <1>1 DEF TypeOK, Flow, Apart
<1>3. /\ \A d \in Clients \ {c} : inbox'[d] = inbox[d] /\ owed'[d] = owed[d]
      /\ owed'[c] = owed[c] \cup b
      /\ ToSet(inbox'[c]) = ToSet(inbox[c]) \cup b /\ IsInjective(inbox'[c])
  <2>1. inbox'[c] = inbox[c] \o InOrder(b)
    BY SendDataType
  <2>2. /\ InOrder(b) \in Seq(Message) /\ IsInjective(InOrder(b)) /\ ToSet(InOrder(b)) = b
    BY <1>2, SessionAssumption, InOrderWhole
  <2>3. inbox[c] \in Seq(Message) /\ IsInjective(inbox[c]) /\ ToSet(inbox[c]) \cap b = {}
    BY <1>2 DEF TypeOK, Flow, Once, Reached, Coming
  <2>4. /\ ToSet(inbox'[c]) = ToSet(inbox[c]) \cup b
        /\ IsInjective(inbox'[c])
    BY <2>1, <2>2, <2>3, Concatenated
  <2>5. /\ \A d \in Clients \ {c} : inbox'[d] = inbox[d] /\ owed'[d] = owed[d]
        /\ owed'[c] = owed[c] \cup b
    BY DEF SendDataToClients, SendDataTo, TypeOK
  <2> QED
    BY <2>4, <2>5
<1> HIDE DEF b
<1>4. Queued' = Queued /\ QueuesApart'
  BY <1>1 DEF Queued, Flow, QueuesApart
<1>5. /\ \A d \in Clients \ {c} : Reached(d)' = Reached(d)
      /\ Reached(c)' = Reached(c) \cup b
  BY <1>1, <1>3 DEF Reached, Coming
<1>6. Fresh'
  BY <1>1, <1>4, <1>5 DEF Flow, Fresh, b
<1>7. Apart'
  <2>1. \A d \in Clients : (Queued \cup buffer) \cap Reached(d)' = {}
    BY <1>5 DEF Flow, Apart, b
  <2>2. \A d \in publishing'.todo : b \cap Reached(d)' = {}
    BY <1>1, <1>5 DEF Flow, Apart, b, TypeOK
  <2> QED
    BY <1>1, <1>4, <2>1, <2>2 DEF Flow, Apart, b
<1>8. \A d \in Clients : Once(d)'
  <2> TAKE d \in Clients
  <2>1. Once(d)
    BY DEF Flow
  <2>2. CASE d = c
    <3>1. b \cap data[c] = {} /\ \A x \in b : printed[c][x] = 0
      <4>1. \A x \in Message : printed[c][x] \in Nat
        BY DEF TypeOK
      <4>2. \A x \in b : x \in Message /\ x \notin data[c] /\ ~(printed[c][x] > 0)
        BY <1>2 DEF Reached, Coming
      <4> QED
        BY <4>1, <4>2
    <3> QED
      BY <1>1, <1>3, <2>1, <2>2, <3>1 DEF Once
  <2>3. CASE d # c
    BY <1>1, <1>3, <2>1, <2>3 DEF Once
  <2> QED
    BY <2>2, <2>3
<1>9. OwedReached'
  BY <1>3, <1>5 DEF Flow, OwedReached
<1>10. SentAccounted'
  <2>1. UNION {owed[d] : d \in Clients} \subseteq UNION {owed'[d] : d \in Clients}
    BY <1>3
  <2>2. 1..sends \subseteq dropped \cup lost \cup buffer \cup b \cup Queued
                             \cup (UNION {owed[d] : d \in Clients})
    BY DEF Flow, SentAccounted, Queued, b
  <2>3. SentAccounted' <=>
          1..sends \subseteq dropped \cup lost \cup buffer \cup b \cup Queued
                               \cup (UNION {owed'[d] : d \in Clients})
    BY <1>1, <1>4 DEF SentAccounted, Queued
  <2> QED
    BY <2>1, <2>2, <2>3
<1> QED
  BY <1>1, <1>4, <1>6, <1>7, <1>8, <1>9, <1>10 DEF Flow, PrintedOnce

\* Through a closed channel the block goes nowhere.
LEMMA SendClosedFlow ==
  ASSUME TypeOK, Flow, NEW c \in Clients, SendDataToClients(c), closed PROVE Flow'
<1>1. /\ UNCHANGED <<queues, inbox, buffer, sends, data, printed, late, forgotten, lost, owed>>
      /\ publishing'.block = publishing.block /\ publishing'.todo \subseteq publishing.todo
      /\ dropped \subseteq dropped'
  BY DEF SendDataToClients, SendDataTo, TypeOK
<1>2. Queued' = Queued /\ QueuesApart'
  BY <1>1 DEF Queued, Flow, QueuesApart
<1>3. \A d \in Clients : Reached(d)' = Reached(d)
  BY <1>1 DEF Reached, Coming
<1>4. Fresh'
  BY <1>1, <1>2, <1>3 DEF Flow, Fresh
<1>5. Apart'
  BY <1>1, <1>2, <1>3 DEF Flow, Apart, TypeOK
<1>6. \A d \in Clients : Once(d)'
  BY <1>1 DEF Flow, Once
<1>7. SentAccounted'
  BY <1>1 DEF Flow, SentAccounted
<1> QED
  BY <1>1, <1>2, <1>3, <1>4, <1>5, <1>6, <1>7 DEF Flow, OwedReached, PrintedOnce

\* The buffer is published, the block has been, or the node ends: BlockFlow applies.
LEMMA PublishFlow ==
  ASSUME TypeOK, Asked, Flow, TypeOK', BeginPublish \/ EndPublish \/ Restart PROVE Flow'
<1>1. publishing' \in [todo : SUBSET Clients, block : SUBSET Message]
  BY DEF TypeOK
<1>2. Quiet.todo = {} /\ Quiet.block = {}
  BY DEF Quiet
<1>3. CASE BeginPublish
  <2>1. /\ UNCHANGED <<queues, inbox, sends, data, printed, late, forgotten, dropped, owed, lost>>
        /\ buffer' = {} /\ publishing'.block = buffer /\ publishing = Quiet
    BY <1>3 DEF BeginPublish, BeginPublishTo, Publishing
  <2> QED
    BY <1>1, <1>2, <2>1, BlockFlow
<1>4. CASE EndPublish
  <2>1. /\ UNCHANGED <<queues, inbox, sends, data, printed, late, forgotten, dropped, owed, lost, buffer>>
        /\ publishing' = Quiet /\ publishing.todo = {}
    BY <1>4 DEF EndPublish
  <2>2. publishing.block \subseteq dropped \cup (UNION {owed[d] : d \in Clients})
    BY <2>1 DEF Asked
  <2> QED
    BY <1>1, <1>2, <2>1, <2>2, BlockFlow
<1>5. CASE Restart
  <2>1. /\ UNCHANGED <<queues, inbox, sends, data, printed, late, forgotten, dropped, owed>>
        /\ buffer' = {} /\ publishing' = Quiet /\ lost' = lost \cup buffer \cup publishing.block
    BY <1>5 DEF Restart
  <2> QED
    BY <1>1, <1>2, <2>1, BlockFlow
<1> QED
  BY <1>3, <1>4, <1>5

\* Every step takes the messages one place further at most.
LEMMA FlowNext == TypeOK /\ Asked /\ Noted /\ Flow /\ TypeOK' /\ [Next]_vars => Flow'
<1> SUFFICES ASSUME TypeOK, Asked, Noted, Flow, TypeOK', [Next]_vars PROVE Flow'
  OBVIOUS
<1>1. CASE UNCHANGED vars
  BY <1>1, FlowKept DEF vars
<1>2. ASSUME NEW c \in Clients, Console(c) PROVE Flow'
  <2>1. CASE Connect(c)
    BY <2>1, FlowKept DEF Connect
  <2>2. ASSUME NEW q \in Queues, CreateQueue(c, q) PROVE Flow'
    BY <2>2, FlowKept DEF CreateQueue
  <2>3. ASSUME NEW q \in Queues, SendMessage(c, q) PROVE Flow'
    BY <2>3, SendFlow
  <2>4. CASE Exit(c)
    BY <2>4, ExitFlow
  <2> QED
    BY <1>2, <2>1, <2>2, <2>3, <2>4 DEF Console
<1>3. ASSUME NEW c \in Clients, ClientThread(c) PROVE Flow'
  <2>1. CASE Receive(c)
    BY <2>1, ReceiveFlow
  <2>2. CASE GetData(c)
    BY <2>2, FlowKept DEF GetData, CopyOf
  <2>3. CASE ClearBuffer(c)
    BY <2>3, ClearFlow
  <2> QED
    BY <1>3, <2>1, <2>2, <2>3 DEF ClientThread
<1>4. CASE EventLoop
  <2>1. CASE HandleControl
    BY <2>1, FlowKept DEF HandleControl, HandleControlDeclaring
  <2>2. ASSUME NEW c \in Clients, DeclareOk(c) PROVE Flow'
    BY <2>2, FlowKept DEF DeclareOk, Register
  <2>3. ASSUME NEW q \in Queues, Deliver(q) PROVE Flow'
    BY <2>3, DeliverFlow
  <2>4. CASE DeclareError
    BY <2>4, FlowKept DEF DeclareError
  <2> QED
    BY <1>4, <2>1, <2>2, <2>3, <2>4 DEF EventLoop
<1>5. CASE Publish
  BY <1>5, PublishFlow, SendDataFlow, SendClosedFlow DEF Publish, ContinuePublish
<1>6. CASE Restart
  BY <1>6, PublishFlow
<1> QED
  BY <1>1, <1>2, <1>3, <1>4, <1>5, <1>6 DEF Next

-----------------------------------------------------------------------------
(* The theorems.                                                               *)

\* The inductive invariant.
LEMMA SessionInvariant == Spec => []SessionInv
<1>1. Init => SessionInv
  <2>1. Init => Noted
    BY DEF Init, Noted
  <2> QED
    BY <2>1, TypeInit, FlowInit DEF SessionInv
<1>2. SessionInv /\ [Next]_vars => SessionInv'
  BY TypeNext, NotedNext, FlowNext DEF SessionInv
<1> QED
  BY <1>1, <1>2, PTL DEF Spec

\* The queues hold messages, the node consumes only what it has declared, and what the
\* timer of a client has copied is still in the client's buffer (Client.cpp:86-101).
THEOREM SessionTypes == Spec => []TypeOK
<1>1. SessionInv => TypeOK
  BY DEF SessionInv
<1> QED
  BY <1>1, SessionInvariant, PTL

\* Whatever Consumer::publish has sent to a client is in the client's queue, in its buffer
\* or has been printed, or it arrived between getData and clearBuffer, or a process of the
\* client exited with it, for any number of clients, queues, messages, restarts and exits
\* (Consumer.cpp:91-103, Client.cpp:77-103).
THEOREM OwedMessagesReach == Spec => []OwedReached
<1>1. SessionInv => OwedReached
  BY DEF SessionInv, Flow
<1> QED
  BY <1>1, SessionInvariant, PTL

\* No message that has been sent disappears: one that is nowhere any more has been sent to
\* a client, or its queue was missing, or the channel of the node was closed, or a node ended
\* with it (Consumer.cpp:53-89).
THEOREM SentMessagesAccounted == Spec => []SentAccounted
<1>1. SessionInv => SentAccounted
  BY DEF SessionInv, Flow
<1> QED
  BY <1>1, SessionInvariant, PTL

\* No client prints a message twice, over all its lives and those of the node
\* (Client.cpp:91-99).
THEOREM MessagesPrintedOnce == Spec => []PrintedOnce
<1>1. SessionInv => PrintedOnce
  BY DEF SessionInv, Flow
<1> QED
  BY <1>1, SessionInvariant, PTL
=============================================================================
