--------------------------- MODULE ControlChannel ---------------------------
(***************************************************************************)
(* The life of ArqmaMQ objects and the way every other thread talks to     *)
(* their proxy thread (arqmamq.cpp, proxy.cpp): start(), the destructor,   *)
(* and the control socket that get_control_socket makes once for each      *)
(* thread and object and then finds in thread-local variables.             *)
(*                                                                         *)
(* Objects live at addresses, and a later object may be made where an      *)
(* earlier one was.  A thread id may be taken again by a new thread too.   *)
(* Each object may have one tagged thread, named by the address.  What a   *)
(* message asks for is in the other modules: EARLY and LATE only tell      *)
(* whether it was sent before or after the destructor's QUIT.              *)
(***************************************************************************)
EXTENDS Integers, Sequences, FiniteSets

CONSTANTS
  Client,       \* threads of the application
  Address,      \* where objects can be, positive numbers
  MaxObjects,   \* bound: objects that are ever made
  MaxMessages   \* bound: messages sent to each of them

ASSUME ChannelAssumption ==
  /\ Address \subseteq Nat \ {0}
  /\ Client \cap Address = {}
  /\ MaxObjects \in Nat /\ MaxMessages \in Nat

Thread == Client \cup Address
NoThread == 0
Free == -1                 \* last_id of a thread that has no socket yet

VARIABLES
  life,                 \* of the object at each address: how far it has come
  user,                 \* the client that is in its start() or its destructor
  made,                 \* how many objects have been made
  which,                \* the number of the object at each address
  next_id, object_id,
  joinable,             \* proxy_thread.joinable()
  proxy,                \* where the proxy thread is
  quitting,             \* max_workers = 0
  proxy_shutting_down,
  tagged,               \* how far the tagged thread has come
  control_sockets,      \* the thread ids that have a socket
  ready,                \* READY waits on the socket of the starting thread
  inbox,                \* what each thread has sent on its socket
  sent,                 \* how many messages were sent to the object
  last_id, last_socket  \* thread-local in get_control_socket

objectVars == <<made, which, next_id, object_id>>
proxyVars  == <<proxy, quitting, proxy_shutting_down>>
socketVars == <<control_sockets, last_id, last_socket>>
vars == <<life, user, objectVars, joinable, proxyVars, tagged, socketVars, ready, inbox, sent>>

Idle(t) == \A o \in Address : user[o] # t
Silent == [t \in Thread |-> <<>>]

Init ==
  /\ life = [o \in Address |-> "none"]
  /\ user = [o \in Address |-> NoThread]
  /\ made = 0 /\ next_id = 1
  /\ which = [o \in Address |-> 0]
  /\ object_id = [o \in Address |-> 0]
  /\ joinable = [o \in Address |-> FALSE]
  /\ proxy = [o \in Address |-> "none"]
  /\ quitting = [o \in Address |-> FALSE]
  /\ proxy_shutting_down = [o \in Address |-> FALSE]
  /\ tagged = [o \in Address |-> "none"]
  /\ control_sockets = [o \in Address |-> {}]
  /\ ready = [o \in Address |-> FALSE]
  /\ inbox = [o \in Address |-> Silent]
  /\ sent = [o \in Address |-> 0]
  /\ last_id = [t \in Thread |-> Free]
  /\ last_socket = [t \in Thread |-> <<>>]

-----------------------------------------------------------------------------
(* The control socket *)

\* Mutant: an object is known by its address.
NewIdAddress(o) == o

\* Mutant: the counter is incremented before it is read.
NewIdNext(o) == next_id + 1

NewId(o) == next_id

Cached(t, o) == last_id[t] = object_id[o]

\* The call throws: the proxy is shutting down, and the thread has no socket.
Refused(t, o) == ~Cached(t, o) /\ proxy_shutting_down[o]

\* A thread that has used the object last keeps its socket; any other looks for
\* its thread id among the sockets of the object, where one is made if need be.
get_control_socket(t, o) ==
  /\ joinable[o]
  /\ ~Refused(t, o)
  /\ IF Cached(t, o)
     THEN UNCHANGED socketVars
     ELSE /\ control_sockets' = [control_sockets EXCEPT ![o] = @ \cup {t}]
          /\ last_id' = [last_id EXCEPT ![t] = object_id[o]]
          /\ last_socket' = [last_socket EXCEPT ![t] = <<which[o], t>>]

send_control(t, o, msg) == inbox' = [inbox EXCEPT ![o][t] = Append(@, msg)]

\* A thread uses the object: it obtains the socket and sends a message on it.
Use(t, o) ==
  /\ sent[o] < MaxMessages
  /\ sent' = [sent EXCEPT ![o] = @ + 1]
  /\ get_control_socket(t, o)
  /\ send_control(t, o, IF life[o] = "quitting" THEN "LATE" ELSE "EARLY")
  /\ UNCHANGED <<life, user, objectVars, joinable, proxyVars, tagged, ready>>

\* The application keeps to a started object, but may be in the middle of a call
\* when another thread destroys it.
ClientUses(t, o) ==
  /\ t \in Client /\ Idle(t)
  /\ life[o] \in {"started", "quitting"}
  /\ Use(t, o)

\* The start callback of a tagged thread and its jobs use the object as well.
TaggedUses(o) == tagged[o] \in {"callback", "running"} /\ Use(o, o)

\* A client's thread ends, and another one gets its id.
Respawn(t) ==
  /\ t \in Client /\ Idle(t)
  /\ last_id[t] # Free
  /\ last_id' = [last_id EXCEPT ![t] = Free]
  /\ last_socket' = [last_socket EXCEPT ![t] = <<>>]
  /\ UNCHANGED <<life, user, objectVars, joinable, proxyVars, tagged, control_sockets, ready, inbox, sent>>

-----------------------------------------------------------------------------
(* The owner: constructor, start(), destructor *)

ArqmaMQ(o) ==
  /\ life[o] = "none"
  /\ made < MaxObjects
  /\ made' = made + 1
  /\ which' = [which EXCEPT ![o] = made + 1]
  /\ object_id' = [object_id EXCEPT ![o] = NewId(o)]
  /\ next_id' = next_id + 1
  /\ life' = [life EXCEPT ![o] = "made"]
  /\ UNCHANGED <<user, joinable, proxyVars, tagged, socketVars, ready, inbox, sent>>

add_tagged_thread(o) ==
  /\ life[o] = "made" /\ tagged[o] = "none"
  /\ tagged' = [tagged EXCEPT ![o] = "new"]
  /\ UNCHANGED <<life, user, objectVars, joinable, proxyVars, socketVars, ready, inbox, sent>>

\* start() binds `command` and creates the thread, which runs at once ...
StartThread(t, o) ==
  /\ t \in Client /\ Idle(t)
  /\ life[o] = "made" /\ ~joinable[o]
  /\ life' = [life EXCEPT ![o] = "bound"]
  /\ user' = [user EXCEPT ![o] = t]
  /\ proxy' = [proxy EXCEPT ![o] = "startup"]
  /\ UNCHANGED <<objectVars, joinable, quitting, proxy_shutting_down, tagged, socketVars, ready, inbox, sent>>

\* ... then moves it into proxy_thread ...
StartAssign(o) ==
  /\ life[o] = "bound"
  /\ life' = [life EXCEPT ![o] = "assigned"]
  /\ joinable' = [joinable EXCEPT ![o] = TRUE]
  /\ UNCHANGED <<user, objectVars, proxyVars, tagged, socketVars, ready, inbox, sent>>

\* ... sends START ...
StartSend(o) ==
  /\ life[o] = "assigned"
  /\ life' = [life EXCEPT ![o] = "waiting"]
  /\ get_control_socket(user[o], o)
  /\ send_control(user[o], o, "START")
  /\ UNCHANGED <<user, objectVars, joinable, proxyVars, tagged, ready, sent>>

\* ... and returns once it has READY.
StartReady(o) ==
  /\ life[o] = "waiting" /\ ready[o]
  /\ ready' = [ready EXCEPT ![o] = FALSE]
  /\ life' = [life EXCEPT ![o] = "started"]
  /\ user' = [user EXCEPT ![o] = NoThread]
  /\ UNCHANGED <<objectVars, joinable, proxyVars, tagged, socketVars, inbox, sent>>

\* The destructor of a running object asks the proxy to quit ...
DestroyStarted(t, o) ==
  /\ t \in Client /\ Idle(t)
  /\ life[o] = "started" /\ joinable[o]
  /\ life' = [life EXCEPT ![o] = "quitting"]
  /\ user' = [user EXCEPT ![o] = t]
  /\ get_control_socket(t, o)
  /\ send_control(t, o, "QUIT")
  /\ UNCHANGED <<objectVars, joinable, proxyVars, tagged, ready, sent>>

\* ... the one of an object that was never started does it itself, over and over
\* until the tagged thread has connected its socket.
DestroyMade(t, o) ==
  /\ t \in Client /\ Idle(t)
  /\ life[o] = "made" /\ ~joinable[o]
  /\ life' = [life EXCEPT ![o] = "quitting"]
  /\ user' = [user EXCEPT ![o] = t]
  /\ UNCHANGED <<objectVars, joinable, proxyVars, tagged, socketVars, ready, inbox, sent>>

QuitTagged(o) ==
  /\ life[o] = "quitting" /\ ~joinable[o]
  /\ tagged[o] = "starting"
  /\ tagged' = [tagged EXCEPT ![o] = "quit"]
  /\ UNCHANGED <<life, user, objectVars, joinable, proxyVars, socketVars, ready, inbox, sent>>

\* The thread it waits for has ended: the object and its sockets are gone.
DestroyJoin(o) ==
  /\ life[o] = "quitting"
  /\ IF joinable[o] THEN proxy[o] = "over" ELSE tagged[o] \in {"none", "quit"}
  /\ life' = [life EXCEPT ![o] = "none"]
  /\ user' = [user EXCEPT ![o] = NoThread]
  /\ joinable' = [joinable EXCEPT ![o] = FALSE]
  /\ proxy' = [proxy EXCEPT ![o] = "none"]
  /\ quitting' = [quitting EXCEPT ![o] = FALSE]
  /\ proxy_shutting_down' = [proxy_shutting_down EXCEPT ![o] = FALSE]
  /\ tagged' = [tagged EXCEPT ![o] = "none"]
  /\ control_sockets' = [control_sockets EXCEPT ![o] = {}]
  /\ inbox' = [inbox EXCEPT ![o] = Silent]
  /\ sent' = [sent EXCEPT ![o] = 0]
  /\ last_id' = [last_id EXCEPT ![o] = Free]
  /\ last_socket' = [last_socket EXCEPT ![o] = <<>>]
  /\ UNCHANGED <<objectVars, ready>>

-----------------------------------------------------------------------------
(* The tagged thread *)

TaggedStarting(o) == tagged[o] = "new" /\ tagged' = [tagged EXCEPT ![o] = "starting"]

\* The start callback returns.
TaggedStarted(o) == tagged[o] = "callback" /\ tagged' = [tagged EXCEPT ![o] = "running"]

\* QUIT reaches it when it has nothing to run.
TaggedQuit(o) == tagged[o] = "running" /\ quitting[o] /\ tagged' = [tagged EXCEPT ![o] = "quit"]

TaggedThread(o) ==
  /\ TaggedStarting(o) \/ TaggedStarted(o) \/ TaggedQuit(o)
  /\ UNCHANGED <<life, user, objectVars, joinable, proxyVars, socketVars, ready, inbox, sent>>

-----------------------------------------------------------------------------
(* The proxy thread *)

proxySteps == <<life, user, objectVars, joinable, socketVars, sent>>

\* The proxy waits for STARTING from the tagged thread and tells it to go on.
ProxyStartup(o) ==
  /\ proxy[o] = "startup"
  /\ tagged[o] \in {"none", "starting"}
  /\ tagged' = [tagged EXCEPT ![o] = IF @ = "none" THEN "none" ELSE "callback"]
  /\ proxy' = [proxy EXCEPT ![o] = "top"]
  /\ UNCHANGED <<quitting, proxy_shutting_down, ready, inbox, proxySteps>>

\* Mutant: an object without tagged threads has none that is joined.
AllJoinedAny(o) == tagged[o] = "joined"

AllJoined(o) == tagged[o] \in {"none", "joined"}

\* Top of the loop: it ends when the proxy is quitting and every thread is joined.
LoopTop(o) ==
  /\ proxy[o] = "top"
  /\ proxy' = [proxy EXCEPT ![o] = IF quitting[o] /\ AllJoined(o) THEN "closing" ELSE "control"]
  /\ UNCHANGED <<quitting, proxy_shutting_down, tagged, ready, inbox, proxySteps>>

\* Mutant: START is not answered.
AnswerNoReady(o, msg) ==
  /\ ready' = ready
  /\ quitting' = [quitting EXCEPT ![o] = @ \/ msg = "QUIT"]
  /\ proxy' = proxy

\* Mutant: QUIT ends the loop over the control messages.
AnswerAndBreak(o, msg) ==
  /\ ready' = [ready EXCEPT ![o] = @ \/ msg = "START"]
  /\ quitting' = [quitting EXCEPT ![o] = @ \/ msg = "QUIT"]
  /\ proxy' = [proxy EXCEPT ![o] = IF msg = "QUIT" THEN "workers" ELSE @]

\* READY goes back to the sender of START, QUIT sets max_workers to 0.
Answer(o, msg) ==
  /\ ready' = [ready EXCEPT ![o] = @ \/ msg = "START"]
  /\ quitting' = [quitting EXCEPT ![o] = @ \/ msg = "QUIT"]
  /\ proxy' = proxy

\* A message is taken from the socket of some thread; those of one thread come in
\* order.
proxy_control_message(o, t) ==
  /\ proxy[o] = "control"
  /\ inbox[o][t] # <<>>
  /\ Answer(o, Head(inbox[o][t]))
  /\ inbox' = [inbox EXCEPT ![o][t] = Tail(@)]
  /\ UNCHANGED <<proxy_shutting_down, tagged, proxySteps>>

\* The loop over control messages ends when there are none.
ControlDone(o) ==
  /\ proxy[o] = "control"
  /\ inbox[o] = Silent
  /\ proxy' = [proxy EXCEPT ![o] = "workers"]
  /\ UNCHANGED <<quitting, proxy_shutting_down, tagged, ready, inbox, proxySteps>>

\* A thread that has said QUITTING is joined; its thread-local variables are gone.
WorkerMessages(o) ==
  /\ proxy[o] = "workers"
  /\ tagged' = [tagged EXCEPT ![o] = IF @ = "quit" THEN "joined" ELSE @]
  /\ proxy' = [proxy EXCEPT ![o] = "top"]
  /\ UNCHANGED <<quitting, proxy_shutting_down, ready, inbox, proxySteps>>

\* proxy_quit closes `command`, then sets the flag under the mutex.
proxy_quit(o) ==
  /\ proxy[o] \in {"closing", "closed"}
  /\ IF proxy[o] = "closing"
     THEN proxy' = [proxy EXCEPT ![o] = "closed"] /\ UNCHANGED proxy_shutting_down
     ELSE /\ proxy_shutting_down' = [proxy_shutting_down EXCEPT ![o] = TRUE]
          /\ proxy' = [proxy EXCEPT ![o] = "over"]
  /\ UNCHANGED <<quitting, tagged, ready, inbox, proxySteps>>

proxy_loop(o) ==
  \/ ProxyStartup(o) \/ LoopTop(o)
  \/ \E t \in Thread : proxy_control_message(o, t)
  \/ ControlDone(o) \/ WorkerMessages(o) \/ proxy_quit(o)

Owner(o) == StartAssign(o) \/ StartSend(o) \/ StartReady(o) \/ QuitTagged(o) \/ DestroyJoin(o)

Next ==
  \/ \E o \in Address :
       \/ ArqmaMQ(o) \/ add_tagged_thread(o) \/ Owner(o)
       \/ TaggedUses(o) \/ TaggedThread(o) \/ proxy_loop(o)
       \/ \E t \in Client :
            ClientUses(t, o) \/ StartThread(t, o) \/ DestroyStarted(t, o) \/ DestroyMade(t, o)
  \/ \E t \in Client : Respawn(t)

Spec == Init /\ [][Next]_vars

\* Every thread that has something to do gets to it: the proxy thread, the tagged
\* threads, and a client inside start() or the destructor.
FairSpec ==
  /\ Spec
  /\ \A o \in Address :
       WF_vars(proxy_loop(o)) /\ WF_vars(Owner(o)) /\ WF_vars(TaggedThread(o))

-----------------------------------------------------------------------------
(* Properties *)

\* Every variable has its type.
TypeOK ==
  /\ life \in [Address -> {"none", "made", "bound", "assigned", "waiting", "started", "quitting"}]
  /\ user \in [Address -> Client \cup {NoThread}]
  /\ made \in 0 .. MaxObjects /\ next_id \in 1 .. MaxObjects + 1
  /\ which \in [Address -> 0 .. MaxObjects]
  /\ object_id \in [Address -> 0 .. MaxObjects]
  /\ joinable \in [Address -> BOOLEAN]
  /\ proxy \in [Address -> {"none", "startup", "top", "control", "workers", "closing", "closed", "over"}]
  /\ quitting \in [Address -> BOOLEAN]
  /\ proxy_shutting_down \in [Address -> BOOLEAN]
  /\ tagged \in [Address -> {"none", "new", "starting", "callback", "running", "quit", "joined"}]
  /\ control_sockets \in [Address -> SUBSET Thread]
  /\ ready \in [Address -> BOOLEAN]
  /\ inbox \in [Address -> [Thread -> Seq({"START", "QUIT", "EARLY", "LATE"})]]
  /\ sent \in [Address -> 0 .. MaxMessages]
  /\ last_id \in [Thread -> 0 .. MaxObjects \cup {Free}]
  /\ last_socket \in [Thread -> {<<>>} \cup ((0 .. MaxObjects) \X Thread)]

\* The thread-local pointer that get_control_socket returns without a lock is the
\* socket this thread has in this very object: not one of an object that was at
\* the same address before, nor another thread's.
CachedSocketAlive ==
  \A t \in Thread, o \in Address :
    life[o] # "none" /\ Cached(t, o) =>
      t \in control_sockets[o] /\ last_socket[t] = <<which[o], t>>

\* What any thread sent before the destructor's QUIT is taken by the proxy before
\* it closes `command`, though QUIT may overtake it: the loop over the control
\* messages goes on after QUIT until there are none.
SentBeforeQuitTaken ==
  \A o \in Address, t \in Thread :
    proxy[o] \in {"closing", "closed", "over"} =>
      \A k \in DOMAIN inbox[o][t] : inbox[o][t][k] = "LATE"

\* get_control_socket's assert(proxy_thread.joinable()) in a tagged thread's start
\* callback: a thread that the proxy has told to go on finds proxy_thread assigned.
CallbackFindsProxy == \A o \in Address : tagged[o] = "callback" => joinable[o]

\* start() returns, whatever the order in which the threads come up.
StartReturns == \A o \in Address : life[o] = "bound" ~> life[o] = "started"

\* The destructor returns: of a running object, and of one that was never started
\* and has a tagged thread that may not have connected yet.
DestructorReturns == \A o \in Address : life[o] = "quitting" ~> life[o] = "none"
=============================================================================
