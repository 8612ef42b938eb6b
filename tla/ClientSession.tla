--------------------------- MODULE ClientSession ---------------------------
(***************************************************************************)
(* Clients and the node they are connected to: a client declares its own   *)
(* queue, asks the node over the control queue for a queue to write to     *)
(* (init), sends messages to it (send), and prints what the node sends to  *)
(* its own queue (client/src/Client.cpp, AmqpHandler.cpp, App.cpp).  The   *)
(* node's Consumer (node/src/Consumer.cpp) puts the messages into its      *)
(* buffer and sends every completed block to all clients it knows, over    *)
(* one AMQP channel, which the broker closes when it refuses a declaration.*)
(*                                                                         *)
(* The broker keeps its queues, which are durable, and drops what is       *)
(* published to a queue that is not declared.  What happens to a block     *)
(* between the buffer and Consumer::publish is the subject of SlotPipeline *)
(* and SlotConsensus.  Texts do not contain the separator of the protocol. *)
(***************************************************************************)
EXTENDS SequencesExt

CONSTANTS
  Clients,     \* the names of the clients
  Queues,      \* the queues clients ask for
  MaxInits,    \* bound: init commands
  MaxSends,    \* bound: send commands
  MaxRestarts, \* bound: restarts of the node
  MaxExits     \* bound: exit commands

ASSUME SessionAssumption ==
  MaxInits \in Nat /\ MaxSends \in Nat /\ MaxRestarts \in Nat /\ MaxExits \in Nat

VARIABLES
  \* the broker
  declared,    \* the queues of Queues that exist
  control,     \* the node's control queue
  queues,      \* queues[q]: the messages in queue q
  inbox,       \* inbox[c]: the messages in the queue of client c
  \* the node
  answers,     \* the declarations the broker has not answered yet
  consumed,    \* the queues the node consumes
  clientNames, \* Consumer::clientNames
  buffer,      \* the messages for the next block
  publishing,  \* the block Consumer::publish sends, and the names it has yet to reach
  closed,      \* has the broker closed the node's channel?
  fault,       \* did a data race end the process?
  restarts,    \* how often it has been started again
  \* the clients
  state,       \* state[c]: of the process of client c
  data,        \* data[c]: common::Buffer of client c
  copy,        \* copy[c]: what the callback of its timer has got from the buffer
  inits,       \* how many init commands there have been
  sends,       \* how many messages have been sent; they are numbered
  exits,       \* how many exit commands there have been
  \* history
  dropped,     \* messages sent to no queue or through a closed channel
  lost,        \* messages in the memory of a node that ended
  owed,        \* owed[c]: messages published to client c
  printed,     \* printed[c][m]: how often client c has printed message m
  late,        \* late[c]: messages client c has received between getData and clearBuffer
  forgotten    \* forgotten[c]: messages in the buffer of a process of client c that ended

brokerVars == <<declared, control, queues, inbox>>
nodeVars == <<answers, consumed, clientNames, buffer, publishing, closed, fault,
             restarts>>
clientVars == <<state, data, copy, inits, sends, exits>>
history == <<dropped, lost, owed, printed, late, forgotten>>
vars == <<brokerVars, nodeVars, clientVars, history>>

Message == 1..MaxSends

\* Nobody is in Consumer::publish.
Quiet == [todo |-> {}, block |-> {}]

\* The mutex of Consumer is held by publish.
Publishing == publishing # Quiet

-----------------------------------------------------------------------------
\* The node's constructor declares the control queue; refused, that closes the channel.
Init ==
  /\ declared = {}
  /\ control = <<>>
  /\ queues = [q \in Queues |-> <<>>]
  /\ inbox = [c \in Clients |-> <<>>]
  /\ answers = <<>>
  /\ consumed = {}
  /\ clientNames = {}
  /\ buffer = {}
  /\ publishing = Quiet
  /\ closed \in BOOLEAN
  /\ fault = FALSE
  /\ restarts = 0
  /\ state = [c \in Clients |-> "off"]
  /\ data = [c \in Clients |-> {}]
  /\ copy = [c \in Clients |-> {}]
  /\ inits = 0
  /\ sends = 0
  /\ exits = 0
  /\ dropped = {}
  /\ lost = {}
  /\ owed = [c \in Clients |-> {}]
  /\ printed = [c \in Clients |-> [m \in Message |-> 0]]
  /\ late = [c \in Clients |-> {}]
  /\ forgotten = [c \in Clients |-> {}]

-----------------------------------------------------------------------------
(* The console of a client. *)

\* The constructor declares the client's queue, runs the loop up to the answer, and
\* listens.  Only a positive answer breaks the loop: otherwise the client hangs.
Connect(c) ==
  /\ state[c] = "off"
  /\ \E outcome \in {"ready", "hung"} : state' = [state EXCEPT ![c] = outcome]
  /\ UNCHANGED <<brokerVars, nodeVars, data, copy, inits, sends, exits, history>>

\* init <queue>
CreateQueue(c, q) ==
  /\ state[c] = "ready"
  /\ inits < MaxInits
  /\ inits' = inits + 1
  /\ control' = Append(control, [queue |-> q, author |-> c])
  /\ UNCHANGED <<declared, queues, inbox, nodeVars, state, data, copy, sends, exits, history>>

\* send <queue> <message>
SendMessage(c, q) ==
  /\ state[c] = "ready"
  /\ sends < MaxSends
  /\ sends' = sends + 1
  /\ IF q \in declared
     THEN queues' = [queues EXCEPT ![q] = Append(@, sends + 1)] /\ UNCHANGED dropped
     ELSE dropped' = dropped \cup {sends + 1} /\ UNCHANGED queues
  /\ UNCHANGED <<declared, control, inbox, nodeVars, state, data, copy, inits, exits,
                 lost, owed, printed, late, forgotten>>

\* exit; a message in the buffer is lost, the queue stays for the next process.
Exit(c) ==
  /\ state[c] = "ready"
  /\ exits < MaxExits
  /\ exits' = exits + 1
  /\ state' = [state EXCEPT ![c] = "off"]
  /\ data' = [data EXCEPT ![c] = {}]
  /\ copy' = [copy EXCEPT ![c] = {}]
  /\ forgotten' = [forgotten EXCEPT ![c] = @ \cup data[c]]
  /\ UNCHANGED <<brokerVars, nodeVars, inits, sends, dropped, lost, owed, printed, late>>

-----------------------------------------------------------------------------
(* The two threads of a client: the event loop and the timer. *)

Receive(c) ==
  /\ state[c] = "ready"
  /\ inbox[c] # <<>>
  /\ data' = [data EXCEPT ![c] = @ \cup {Head(inbox[c])}]
  /\ inbox' = [inbox EXCEPT ![c] = Tail(@)]
  /\ late' = IF copy[c] = {} THEN late
              ELSE [late EXCEPT ![c] = @ \cup {Head(inbox[c])}]
  /\ UNCHANGED <<declared, control, queues, nodeVars, state, copy, inits, sends, exits,
                 dropped, lost, owed, printed, forgotten>>

CopyOf(c, messages) ==
  /\ state[c] = "ready"
  /\ copy[c] = {}
  /\ data[c] # {}
  /\ copy' = [copy EXCEPT ![c] = messages]
  /\ UNCHANGED <<brokerVars, nodeVars, state, data, inits, sends, exits, history>>

\* Deviation: one message is taken from the buffer, and the buffer is cleared all the same.
GetOne(c) == \E m \in data[c] : CopyOf(c, {m})

GetData(c) == CopyOf(c, data[c])

\* What has been copied is printed, the buffer is left with rest.
PrintLeaving(c, rest) ==
  /\ copy[c] # {}
  /\ printed' = [printed EXCEPT ![c] = [m \in Message |-> IF m \in copy[c] THEN @[m] + 1
                                                                           ELSE @[m]]]
  /\ copy' = [copy EXCEPT ![c] = {}]
  /\ data' = [data EXCEPT ![c] = rest]
  /\ UNCHANGED <<brokerVars, nodeVars, state, inits, sends, exits, dropped, lost, owed, late,
                 forgotten>>

\* Deviation: the buffer is cleared only when nothing has arrived in the meantime.
ClearIfSame(c) == PrintLeaving(c, IF data[c] = copy[c] THEN {} ELSE data[c])

ClearBuffer(c) == PrintLeaving(c, {})

-----------------------------------------------------------------------------
(* The event loop of the node's Consumer. *)

HandleControlDeclaring(newQueues) ==
  /\ ~closed
  /\ control # <<>>
  /\ control' = Tail(control)
  /\ declared' = declared \cup newQueues
  /\ answers' = Append(answers, Head(control))
  /\ UNCHANGED <<queues, inbox, consumed, clientNames, buffer, publishing, closed, fault,
                 restarts, clientVars, history>>

\* Deviation: the queue is consumed without being declared.
ConsumeOnly == HandleControlDeclaring({})

\* handleControlMessage and createChannel: declare the queue and consume it.
HandleControl == HandleControlDeclaring({Head(control).queue})

\* The broker refuses the declaration and closes the channel.  The callbacks of the errors
\* only log, and nothing opens the channel again.
DeclareError ==
  /\ ~closed
  /\ control # <<>>
  /\ control' = Tail(control)
  /\ closed' = TRUE
  /\ UNCHANGED <<declared, queues, inbox, answers, consumed, clientNames, buffer, publishing,
                 fault, restarts, clientVars, history>>

\* The broker has declared the queue and delivers from it after that.  A new name is
\* appended without the mutex: publish, while it iterates over the names, reads freed
\* memory when the vector grows, or gets away with it.
Register(author, isNew) ==
  /\ answers # <<>>
  /\ author = Head(answers).author
  /\ answers' = Tail(answers)
  /\ consumed' = consumed \cup {Head(answers).queue}
  /\ clientNames' = clientNames \cup {author}
  /\ \/ UNCHANGED fault
     \/ publishing.todo # {} /\ isNew /\ fault' = TRUE
  /\ UNCHANGED <<brokerVars, buffer, publishing, closed, restarts, clientVars, history>>

\* Deviation: only the queue of a new client is consumed.
ConsumeForNewOnly(author) ==
  \/ author \notin clientNames /\ Register(author, TRUE)
  \/ /\ answers # <<>>
     /\ author = Head(answers).author
     /\ author \in clientNames
     /\ answers' = Tail(answers)
     /\ UNCHANGED <<brokerVars, consumed, clientNames, buffer, publishing, closed, fault,
                    restarts, clientVars, history>>

\* Deviation: the queue is consumed and its client is not registered.
ConsumeUnregistered(author) ==
  /\ answers # <<>>
  /\ author = Head(answers).author
  /\ answers' = Tail(answers)
  /\ consumed' = consumed \cup {Head(answers).queue}
  /\ UNCHANGED <<brokerVars, clientNames, buffer, publishing, closed, fault, restarts,
                 clientVars, history>>

DeclareOk(author) == Register(author, author \notin clientNames)

\* A message of a client.
Deliver(q) ==
  /\ q \in consumed
  /\ ~closed
  /\ queues[q] # <<>>
  /\ ~Publishing
  /\ queues' = [queues EXCEPT ![q] = Tail(@)]
  /\ buffer' = buffer \cup {Head(queues[q])}
  /\ UNCHANGED <<declared, control, inbox, answers, consumed, clientNames, publishing, closed,
                 fault, restarts, clientVars, history>>

EventLoop ==
  \/ HandleControl
  \/ DeclareError
  \/ \E c \in Clients : DeclareOk(c)
  \/ \E q \in Queues : Deliver(q)

-----------------------------------------------------------------------------
(* The thread of a slot in Consumer::publish. *)

\* The block of a slot has been completed and is published to names.
BeginPublishTo(names) ==
  /\ ~Publishing
  /\ buffer # {}
  /\ publishing' = [todo |-> names, block |-> buffer]
  /\ buffer' = {}
  /\ UNCHANGED <<brokerVars, answers, consumed, clientNames, closed, fault, restarts,
                 clientVars, history>>

BeginPublish == BeginPublishTo(clientNames)

\* The messages of a block, which mergeContributors has sorted by their timestamps.
InOrder(block) ==
  CHOOSE order \in SetToSeqs(block) : \A i, j \in DOMAIN order : i < j => order[i] < order[j]

\* sendDataToClients: the messages go to the queue of the next client, or nowhere when the
\* channel is closed.
SendDataTo(c, block) ==
  /\ c \in publishing.todo
  /\ publishing' = [publishing EXCEPT !.todo = @ \ {c}]
  /\ \/ /\ ~closed
        /\ inbox' = [inbox EXCEPT ![c] = @ \o InOrder(block)]
        /\ owed' = [owed EXCEPT ![c] = @ \cup publishing.block]
        /\ UNCHANGED dropped
     \/ /\ closed
        /\ dropped' = dropped \cup publishing.block
        /\ UNCHANGED <<inbox, owed>>
  /\ UNCHANGED <<declared, control, queues, answers, consumed, clientNames, buffer, closed,
                 fault, restarts, clientVars, lost, printed, late, forgotten>>

\* Deviation: one message of the block is left out.
SendAllButOne(c) == \E m \in publishing.block : SendDataTo(c, publishing.block \ {m})

SendDataToClients(c) == SendDataTo(c, publishing.block)

EndPublish ==
  /\ Publishing
  /\ publishing.todo = {}
  /\ publishing' = Quiet
  /\ UNCHANGED <<brokerVars, answers, consumed, clientNames, buffer, closed, fault, restarts,
                 clientVars, history>>

\* What the thread does once it has the mutex.
ContinuePublish == (\E c \in Clients : SendDataToClients(c)) \/ EndPublish

Publish == BeginPublish \/ ContinuePublish

-----------------------------------------------------------------------------
\* The node ends, by itself or by a fault, and is started again: the names, the buffer
\* and the consumers are gone, the queues are not.
Restart ==
  /\ restarts < MaxRestarts
  /\ restarts' = restarts + 1
  /\ answers' = <<>>
  /\ consumed' = {}
  /\ clientNames' = {}
  /\ buffer' = {}
  /\ publishing' = Quiet
  /\ closed' \in BOOLEAN
  /\ fault' = FALSE
  /\ lost' = lost \cup buffer \cup publishing.block
  /\ UNCHANGED <<brokerVars, clientVars, dropped, owed, printed, late, forgotten>>

Console(c) ==
  \/ Connect(c)
  \/ \E q \in Queues : CreateQueue(c, q) \/ SendMessage(c, q)
  \/ Exit(c)

ClientThread(c) == Receive(c) \/ GetData(c) \/ ClearBuffer(c)

Next ==
  \/ \E c \in Clients : Console(c) \/ ClientThread(c)
  \/ ~fault /\ (EventLoop \/ Publish)
  \/ Restart

\* The event loops and the timers of living processes run, and a publish that has begun goes
\* on.  Nobody has to type anything, and nothing promises that a slot completes its block.
Fairness ==
  /\ WF_vars(~fault /\ HandleControl)
  /\ WF_vars(~fault /\ \E c \in Clients : DeclareOk(c))
  /\ \A q \in Queues : WF_vars(~fault /\ Deliver(q))
  /\ WF_vars(~fault /\ ContinuePublish)
  /\ \A c \in Clients : /\ WF_vars(Receive(c))
                        /\ WF_vars(GetData(c) \/ ClearBuffer(c))

Spec == Init /\ [][Next]_vars

FairSpec == Spec /\ Fairness
=============================================================================
