------------------------- MODULE SessionProperties -------------------------
(***************************************************************************)
(* The properties of ClientSession.                                        *)
(***************************************************************************)
EXTENDS ClientSession

Control == [queue : Queues, author : Clients]

\* The range of every variable.
TypeOK ==
  /\ declared \subseteq Queues /\ consumed \subseteq declared
  /\ control \in Seq(Control) /\ answers \in Seq(Control)
  /\ queues \in [Queues -> Seq(Message)]
  /\ inbox \in [Clients -> Seq(Message)]
  /\ clientNames \subseteq Clients
  /\ buffer \subseteq Message
  /\ publishing \in [todo : SUBSET Clients, block : SUBSET Message]
  /\ closed \in BOOLEAN /\ fault \in BOOLEAN
  /\ restarts \in 0..MaxRestarts
  /\ inits \in 0..MaxInits /\ sends \in 0..MaxSends /\ exits \in 0..MaxExits
  /\ state \in [Clients -> {"off", "ready", "hung"}]
  /\ data \in [Clients -> SUBSET Message] /\ copy \in [Clients -> SUBSET Message]
  /\ \A c \in Clients : copy[c] \subseteq data[c]
  /\ dropped \subseteq Message /\ lost \subseteq Message
  /\ owed \in [Clients -> SUBSET Message]
  /\ printed \in [Clients -> [Message -> Nat]]
  /\ late \in [Clients -> SUBSET Message] /\ forgotten \in [Clients -> SUBSET Message]

\* The messages that have come to the console of client c or can still come there.
Coming(c) == ToSet(inbox[c]) \cup data[c] \cup {m \in Message : printed[c][m] > 0}

Reached(c) == Coming(c) \cup late[c] \cup forgotten[c]

\* What has been sent to a client's queue is there, in the client's buffer, or printed, over
\* restarts of the node and further processes of the client.  Two things only lose it: it
\* arrives between getData and clearBuffer (Client.cpp:91-99), or it is in the buffer of a
\* process that exits.
OwedReached == \A c \in Clients : owed[c] \subseteq Reached(c)

\* A message that has been sent is in a queue, with the node, or in the queue of some client
\* at least.  It is lost only when its queue did not exist or the node's channel was closed,
\* or in the memory of a node that ended: the node consumes a queue only after it has
\* registered a client (Consumer.cpp:53-89).
SentAccounted ==
  1..sends \subseteq dropped \cup lost \cup buffer \cup publishing.block
                      \cup (UNION {ToSet(queues[q]) : q \in Queues})
                      \cup (UNION {owed[c] : c \in Clients})

\* No client prints a message twice (Client.cpp:91-99).
PrintedOnce == \A c \in Clients, m \in Message : printed[c][m] <= 1

\* Every message of a block that Consumer::publish has begun to send is printed by every
\* client the block is for (Consumer.cpp:80-103, Client.cpp:77-103), unless the client does
\* not go on running, the node ends or loses its channel in the middle of the block, or the
\* message is one of those that arrive between getData and clearBuffer.
EveryMessageBack ==
  \A c \in Clients, m \in Message :
    (m \in publishing.block /\ c \in publishing.todo /\ state[c] = "ready")
      ~> \/ printed[c][m] > 0
         \/ state[c] # "ready"
         \/ m \in lost \cup dropped \/ fault
         \/ m \in late[c]

\* The node has been asked for queue q since it was started last.
Asking(q) ==
  \/ q \in consumed
  \/ \E i \in DOMAIN control : control[i].queue = q
  \/ \E i \in DOMAIN answers : answers[i].queue = q

\* The node takes every message of every queue (Consumer.cpp:65-77).  In the end messages
\* are left only when the broker has closed the node's channel, or, after a restart, in a
\* queue that no client has asked for again.
StuckExplained ==
  \A q \in Queues :
    <>[](queues[q] # <<>> => closed \/ fault \/ (restarts > 0 /\ ~Asking(q)))
=============================================================================
