------------------------------ MODULE Broker ------------------------------
(***************************************************************************)
(* The message broker, src/mbroker: its main thread, its worker threads and *)
(* the box table they share, on top of the file system of TFS2, with the    *)
(* clients at the other end of their named pipes.                           *)
(*                                                                           *)
(* A worker's step is what it does between two points where another thread   *)
(* can interfere: taking a mutex, a tfs_* call (each atomic under the file   *)
(* system's own mutex), a pipe operation that may block, or an access to     *)
(* shared data outside any mutex.  A critical section with one tfs_* call    *)
(* is one step.  The requests queue is the FIFO that PCQueue implements.     *)
(***************************************************************************)
EXTENDS TFS2, FiniteSets

CONSTANTS Workers,
          Publishers, Subscribers, Creators, Deleters, Listers,   \* clients
          BoxOf,             \* the box name in each client's request
          Script,            \* the messages each publisher sends, in order
          NUL,               \* the byte that ends a message in a box's file
          BOX_COUNT_MAX,
          PipeCapacity,      \* messages a named pipe holds
          InitialBoxes,      \* boxes whose creation ended before the run
          SpuriousWakeups,   \* whether cond_wait may return on its own
          Mortal,            \* the clients that may be killed
          Interruptible,     \* whether the broker may get SIGINT
          Nobody             \* the owner of a free mutex

Clients == Publishers \cup Subscribers \cup Creators \cup Deleters \cup Listers
BoxSlots == 0..BOX_COUNT_MAX - 1
NoBox == -1

ASSUME BrokerAssumption ==
    /\ BOX_COUNT_MAX \in Nat \ {0} /\ PipeCapacity \in Nat \ {0}
    /\ NUL \in Bytes /\ Nobody \notin Workers \cup Clients
    /\ BoxOf \in [Clients -> AllNames]
    /\ Script \in [Publishers -> Seq(Seq(Bytes \ {NUL}))]
    /\ SpuriousWakeups \in BOOLEAN /\ Interruptible \in BOOLEAN /\ Mortal \subseteq Clients
    /\ InitialBoxes \in Seq(FileNames) /\ Len(InitialBoxes) < INODE_TABLE_SIZE
    /\ Len(InitialBoxes) <= BOX_COUNT_MAX /\ Len(InitialBoxes) <= MAX_DIR_ENTRIES
    /\ \A i, j \in 1..Len(InitialBoxes) : i # j => InitialBoxes[i] # InitialBoxes[j]
ASSUME WorkersAssumption ==                  \* the counters are uint64_t
    IsFiniteSet(Workers) /\ Cardinality(Workers) < SizeModulus
ASSUME ClientsAssumption ==                  \* a client is of one kind
    /\ Publishers \cap (Subscribers \cup Creators \cup Deleters \cup Listers) = {}
    /\ Subscribers \cap (Creators \cup Deleters \cup Listers) = {}
    /\ Creators \cap (Deleters \cup Listers) = {} /\ Deleters \cap Listers = {}

VARIABLES boxes,              \* mbroker_boxes
          mutex,              \* the owner of each box's mutex
          boxes_lock,         \* the owner of mbroker_boxes_lock
          box_count,
          registration_pipe, requests_queue,
          main_req,           \* main's req between its read and the queue, or Nobody
          interrupt_var,
          sigpipe,            \* what SIGPIPE does: "handler" or "default"
          pc, loc,            \* of each worker: where it is, its local variables
          client,             \* the client's end of its pipe
          broker_end,         \* the broker's end of a client's pipe
          pipe,               \* what is in it
          sent, received,     \* by each publisher / every other client
          published           \* history: the messages accepted for each box name

table == <<boxes, mutex, boxes_lock, box_count>>
requests == <<registration_pipe, requests_queue, main_req, interrupt_var>>
process == <<requests, sigpipe>>
pipes == <<client, broker_end, pipe, sent, received>>
vars == <<fs, table, process, pc, loc, pipes, published>>

NoLocals == [req |-> "none", box |-> NoBox, fd |-> -1, msg |-> <<>>, total_read |-> 0,
             count |-> 0]

EmptyBox(name) == [name |-> name, n_publishers |-> 0, n_subscribers |-> 0, size |-> 0,
                   alloc_state |-> "USED"]

\* init_mbroker, then the creation of InitialBoxes one after the other
Init ==
    LET n == Len(InitialBoxes) IN
    /\ FSInitWith(InitialBoxes)
    /\ boxes = [b \in BoxSlots |-> IF b < n THEN EmptyBox(InitialBoxes[b + 1])
                                   ELSE [EmptyBox(NoName) EXCEPT !.alloc_state = "NOT_USED"]]
    /\ mutex = [b \in BoxSlots |-> Nobody]
    /\ boxes_lock = Nobody
    /\ box_count = n
    /\ registration_pipe = <<>>
    /\ requests_queue = <<>>
    /\ main_req = Nobody
    /\ interrupt_var = 0
    /\ sigpipe = "handler"
    /\ pc = [w \in Workers |-> "idle"]
    /\ loc = [w \in Workers |-> NoLocals]
    /\ client = [c \in Clients |-> "new"]
    /\ broker_end = [c \in Clients |-> "none"]
    /\ pipe = [c \in Clients |-> <<>>]
    /\ sent = [c \in Publishers |-> 0]
    /\ received = [c \in Clients |-> <<>>]
    /\ published = [name \in AllNames |-> <<>>]

-----------------------------------------------------------------------------
(* The clients, as far as their pipes show *)

SetClient(c, state) == client' = [client EXCEPT ![c] = state]

\* connect_to_mbroker: the request is written, the client waits in open().  Without
\* a broker it does not get past the open of the registration pipe
Register(c) == /\ client[c] = "new" /\ fault = "none"
               /\ SetClient(c, "opening")
               /\ registration_pipe' = Append(registration_pipe, c)
               /\ UNCHANGED <<fs, table, requests_queue, main_req, interrupt_var, sigpipe, pc,
                              loc, broker_end, pipe, sent, received, published>>

\* the broker's end of the pipe is closed, by close() or by the end of the process
HungUp(c) == broker_end[c] = "closed" \/ (broker_end[c] = "open" /\ fault # "none")

\* a publisher writes its next line, or learns by EPIPE that its session is over
PublisherSend(c) ==
    /\ client[c] = "open" /\ sent[c] < Len(Script[c])
    /\ \/ /\ ~HungUp(c) /\ Len(pipe[c]) < PipeCapacity
          /\ pipe' = [pipe EXCEPT ![c] = Append(@, Script[c][sent[c] + 1])]
          /\ sent' = [sent EXCEPT ![c] = @ + 1]
          /\ UNCHANGED client
       \/ /\ HungUp(c)
          /\ SetClient(c, "closed")
          /\ UNCHANGED <<pipe, sent>>
    /\ UNCHANGED <<fs, table, process, pc, loc, broker_end, received, published>>

\* end of the publisher's input, or SIGINT in a subscriber
ClientClose(c) == /\ client[c] = "open"
                  /\ SetClient(c, "closed")
                  /\ UNCHANGED <<fs, table, process, pc, loc, broker_end, pipe, sent,
                                 received, published>>

\* a client is killed: before its pipe is open it leaves the FIFO behind
Die(c) == /\ \/ client[c] = "opening" /\ SetClient(c, "dead")
             \/ client[c] = "open" /\ SetClient(c, "closed")
          /\ UNCHANGED <<fs, table, process, pc, loc, broker_end, pipe, sent, received,
                         published>>

\* a subscriber's SIGINT interrupts its open(): exit_failure removes the FIFO
GiveUp(c) == /\ client[c] = "opening"
             /\ SetClient(c, "removed")
             /\ UNCHANGED <<fs, table, process, pc, loc, broker_end, pipe, sent, received,
                            published>>

\* the answer after which a manager stops reading; a subscriber never does
LastAnswer(c, answer) == \/ c \in Creators \cup Deleters
                         \/ c \in Listers /\ answer.last

\* a subscriber or a manager reads a message, or the end of the file
ClientRead(c) ==
    /\ client[c] = "open"
    /\ \/ /\ pipe[c] # <<>>
          /\ received' = [received EXCEPT ![c] = Append(@, Head(pipe[c]))]
          /\ pipe' = [pipe EXCEPT ![c] = Tail(@)]
          /\ client' = [client EXCEPT ![c] = IF LastAnswer(c, Head(pipe[c])) THEN "closed"
                                             ELSE "open"]
       \/ /\ pipe[c] = <<>> /\ HungUp(c)
          /\ SetClient(c, "eof")
          /\ UNCHANGED <<pipe, received>>
    /\ UNCHANGED <<fs, table, process, pc, loc, broker_end, sent, published>>

-----------------------------------------------------------------------------
(* The main thread, its signals, and the start of a worker's request *)

\* pcq_enqueue blocks while the queue is full: max_sessions is its capacity.  Nobody
\* sees where main stands between its test of the flag and a queue with room
pcq_enqueue(c) ==
    \/ /\ Len(requests_queue) < Cardinality(Workers)
       /\ requests_queue' = Append(requests_queue, c)
       /\ main_req' = Nobody
    \/ /\ Len(requests_queue) = Cardinality(Workers)
       /\ main_req' = c
       /\ UNCHANGED requests_queue

\* mutant: the flag is looked at only when the read fails
MainRead_ignores_flag == /\ main_req = Nobody /\ registration_pipe # <<>>
                         /\ registration_pipe' = Tail(registration_pipe)
                         /\ pcq_enqueue(Head(registration_pipe))
                         /\ UNCHANGED fs

\* read, then the look at interrupt_var: the request just read is lost with the rest
MainRead == /\ main_req = Nobody /\ registration_pipe # <<>>
            /\ registration_pipe' = Tail(registration_pipe)
            /\ \/ interrupt_var = 0 /\ pcq_enqueue(Head(registration_pipe)) /\ UNCHANGED fs
               \/ interrupt_var = 1 /\ Dies("exit") /\ UNCHANGED <<requests_queue, main_req>>

\* room for the request that main sleeps with
MainResumes == /\ main_req # Nobody /\ Len(requests_queue) < Cardinality(Workers)
               /\ pcq_enqueue(main_req)
               /\ UNCHANGED <<fs, registration_pipe>>

MainLoop == /\ fault = "none"
            /\ MainRead \/ MainResumes
            /\ UNCHANGED <<table, interrupt_var, sigpipe, pc, loc, pipes, published>>

\* sigint_handler sets the flag; a main thread already waiting in read sees it at
\* once (EINTR), anywhere else with its next request.  signal() of this build is
\* System V's: the handler runs once, and the next SIGINT ends the process
Sigint == /\ fault = "none"
          /\ interrupt_var' = 1
          /\ \/ interrupt_var = 0 /\ UNCHANGED fs
             \/ /\ interrupt_var = 0 /\ main_req = Nobody /\ registration_pipe = <<>>
                /\ Dies("exit")
             \/ interrupt_var = 1 /\ Dies("SIGINT")
          /\ UNCHANGED <<table, registration_pipe, requests_queue, main_req, sigpipe, pc, loc,
                         pipes, published>>

Handler(c) == CASE c \in Publishers -> "p_get_box"
                [] c \in Subscribers -> "s_get_box"
                [] c \in Creators -> "c_get_box"
                [] c \in Deleters -> "d_get_box"
                [] c \in Listers -> "l_scan"

\* worker_thread_fn takes a request; its handler opens the client's pipe: for ever
\* if the client died before it did, in vain if it removed the FIFO
RequestsHandler(w) ==
    LET c == Head(requests_queue) IN
    /\ pc[w] = "idle"
    /\ requests_queue # <<>>
    /\ requests_queue' = Tail(requests_queue)
    /\ \/ /\ client[c] = "opening"
          /\ pc' = [pc EXCEPT ![w] = Handler(c)]
          /\ loc' = [loc EXCEPT ![w].req = c]
          /\ SetClient(c, "open")
          /\ broker_end' = [broker_end EXCEPT ![c] = "open"]
       \/ /\ client[c] = "dead"
          /\ pc' = [pc EXCEPT ![w] = "in_open"]
          /\ UNCHANGED <<loc, client, broker_end>>
       \/ /\ client[c] = "removed"
          /\ UNCHANGED <<pc, loc, client, broker_end>>
    /\ UNCHANGED <<fs, table, registration_pipe, main_req, interrupt_var, sigpipe, pipe, sent,
                   received, published>>

Goto(w, to) == pc' = [pc EXCEPT ![w] = to]

\* the handler returns; close(): what a gone client left unread is dropped
ClosePipeAndReturn(w) ==
    /\ pc' = [pc EXCEPT ![w] = "idle"]
    /\ loc' = [loc EXCEPT ![w] = NoLocals]
    /\ broker_end' = [broker_end EXCEPT ![loc[w].req] = "closed"]
    /\ UNCHANGED <<client, sent, received>>

Matches(name) == {b \in BoxSlots : boxes[b].alloc_state = "USED" /\ boxes[b].name = name}
get_box(name) == IF Matches(name) = {} THEN NoBox ELSE First(Matches(name))

\* handle_publisher and handle_subscriber: without a box the pipe is closed
GetBox(w, from, to) ==
    LET b == get_box(BoxOf[loc[w].req]) IN
    /\ pc[w] = from
    /\ \/ /\ b # NoBox
          /\ Goto(w, to)
          /\ loc' = [loc EXCEPT ![w].box = b]
          /\ UNCHANGED pipes
       \/ /\ b = NoBox
          /\ ClosePipeAndReturn(w)
          /\ UNCHANGED pipe
    /\ UNCHANGED <<fs, table, process, published>>

\* cond_broadcast on the condition variable of box b, as a step of worker w
Broadcast(w, b, from, to) ==
    /\ pc[w] = from
    /\ pc' = [u \in Workers |-> IF u = w THEN to
                                ELSE IF pc[u] = "s_asleep" /\ loc[u].box = b THEN "s_woken"
                                ELSE pc[u]]

Lock(w, b) == mutex[b] = Nobody /\ mutex' = [mutex EXCEPT ![b] = w]
Unlock(b) == mutex' = [mutex EXCEPT ![b] = Nobody]

Decrement(n) == (n - 1) % SizeModulus       \* uint64_t

-----------------------------------------------------------------------------
(* handle_publisher *)

P_GetBox(w) == GetBox(w, "p_get_box", "p_register")

\* mutant: a publisher that is refused leaves through the end of the session
P_Register_refused_ends(w) ==
    LET b == loc[w].box IN
    /\ pc[w] = "p_register"
    /\ mutex[b] = Nobody
    /\ \/ /\ boxes[b].n_publishers = 1
          /\ Goto(w, "p_end")
          /\ UNCHANGED <<fs, boxes, loc>>
       \/ /\ boxes[b].n_publishers # 1
          /\ \E fd \in Handles :
                /\ tfs_open(boxes[b].name, {"APPEND"}, fd)
                /\ Goto(w, "p_read")
                /\ loc' = [loc EXCEPT ![w].fd = fd]
                /\ boxes' = [boxes EXCEPT ![b].n_publishers = @ + 1]
    /\ UNCHANGED <<mutex, boxes_lock, box_count, process, pipes, published>>

\* under the box's mutex, from its check to the new count
P_Register(w) ==
    LET b == loc[w].box IN
    /\ pc[w] = "p_register"
    /\ mutex[b] = Nobody
    /\ \/ /\ boxes[b].n_publishers = 1
          /\ ClosePipeAndReturn(w)
          /\ UNCHANGED <<fs, boxes>>
       \/ /\ boxes[b].n_publishers # 1
          /\ \E fd \in Handles \cup {-1} :
                /\ tfs_open(boxes[b].name, {"APPEND"}, fd)
                /\ \/ /\ fd = -1
                      /\ ClosePipeAndReturn(w)
                      /\ UNCHANGED boxes
                   \/ /\ fd # -1
                      /\ pc' = [pc EXCEPT ![w] = "p_read"]
                      /\ loc' = [loc EXCEPT ![w].fd = fd]
                      /\ boxes' = [boxes EXCEPT ![b].n_publishers = @ + 1]
                      /\ UNCHANGED <<client, broker_end, sent, received>>
    /\ UNCHANGED <<mutex, boxes_lock, box_count, process, pipe, published>>

\* the next message, then the look at alloc_state outside the mutex; or the end
P_Read(w) ==
    LET c == loc[w].req IN
    /\ pc[w] = "p_read"
    /\ \/ /\ pipe[c] # <<>>
          /\ Goto(w, IF boxes[loc[w].box].alloc_state = "USED" THEN "p_write" ELSE "p_end")
          /\ loc' = [loc EXCEPT ![w].msg = Head(pipe[c])]
          /\ pipe' = [pipe EXCEPT ![c] = Tail(@)]
       \/ /\ pipe[c] = <<>> /\ client[c] = "closed"
          /\ Goto(w, "p_end")
          /\ UNCHANGED <<loc, pipe>>
    /\ UNCHANGED <<fs, table, process, client, broker_end, sent, received, published>>

\* write_message, first call: the message itself, all of it or the session ends
P_Write(w) ==
    /\ pc[w] = "p_write"
    /\ \E ret \in -1..BLOCK_SIZE :
          /\ tfs_write(loc[w].fd, loc[w].msg, ret)
          /\ \/ /\ ret = Len(loc[w].msg)
                /\ Lock(w, loc[w].box)
                /\ Goto(w, "p_terminate")
             \/ /\ ret # Len(loc[w].msg)
                /\ mutex[loc[w].box] = Nobody /\ UNCHANGED mutex
                /\ Goto(w, "p_end")
    /\ UNCHANGED <<boxes, boxes_lock, box_count, process, loc, pipes, published>>

\* mutant: the NUL is not counted in the size of the box
P_Terminate_uncounted(w) ==
    /\ pc[w] = "p_terminate"
    /\ \E ret \in 0..1 : tfs_write(loc[w].fd, <<NUL>>, ret)
    /\ Goto(w, "p_broadcast")
    /\ boxes' = [boxes EXCEPT ![loc[w].box].size = @ + Len(loc[w].msg)]
    /\ published' = [published EXCEPT ![boxes[loc[w].box].name] = Append(@, loc[w].msg)]
    /\ Unlock(loc[w].box)
    /\ UNCHANGED <<boxes_lock, box_count, process, loc, pipes>>

\* write_message, second call: its NUL.  Only -1 counts as a failure: a file that
\* is full up to the message (0 bytes written) does not
P_Terminate(w) ==
    LET b == loc[w].box IN
    /\ pc[w] = "p_terminate"
    /\ \E ret \in -1..1 :
          /\ tfs_write(loc[w].fd, <<NUL>>, ret)
          /\ \/ /\ ret = -1
                /\ Goto(w, "p_end")
                /\ UNCHANGED <<boxes, published>>
             \/ /\ ret # -1
                /\ Goto(w, "p_broadcast")
                /\ boxes' = [boxes EXCEPT ![b].size = @ + Len(loc[w].msg) + 1]
                /\ published' = [published EXCEPT ![boxes[b].name] = Append(@, loc[w].msg)]
    /\ Unlock(b)
    /\ UNCHANGED <<boxes_lock, box_count, process, loc, pipes>>

\* mutant: the condition variable is not signalled
P_Broadcast_silent(w) == /\ pc[w] = "p_broadcast"
                         /\ Goto(w, "p_read")
                         /\ UNCHANGED <<fs, table, process, loc, pipes, published>>

P_Broadcast(w) == /\ Broadcast(w, loc[w].box, "p_broadcast", "p_read")
                  /\ UNCHANGED <<fs, table, process, loc, pipes, published>>

P_End(w) == /\ pc[w] = "p_end"
            /\ mutex[loc[w].box] = Nobody
            /\ Goto(w, "p_close")
            /\ boxes' = [boxes EXCEPT ![loc[w].box].n_publishers = Decrement(@)]
            /\ UNCHANGED <<fs, mutex, boxes_lock, box_count, process, loc, pipes, published>>

P_Close(w) == /\ pc[w] = "p_close"
              /\ \E ret \in {0, -1} : tfs_close(loc[w].fd, ret)
              /\ ClosePipeAndReturn(w)
              /\ pipe' = [pipe EXCEPT ![loc[w].req] = <<>>]
              /\ UNCHANGED <<table, process, published>>

-----------------------------------------------------------------------------
(* handle_subscriber *)

S_GetBox(w) == GetBox(w, "s_get_box", "s_register")

\* mutant: the box's file is opened at its end
S_Register_append(w) ==
    LET b == loc[w].box IN
    /\ pc[w] = "s_register"
    /\ mutex[b] = Nobody
    /\ \E fd \in Handles : /\ tfs_open(boxes[b].name, {"APPEND"}, fd)
                          /\ loc' = [loc EXCEPT ![w].fd = fd]
    /\ Goto(w, "s_loop")
    /\ boxes' = [boxes EXCEPT ![b].n_subscribers = @ + 1]
    /\ UNCHANGED <<mutex, boxes_lock, box_count, process, pipes, published>>

S_Register(w) ==
    LET b == loc[w].box IN
    /\ pc[w] = "s_register"
    /\ mutex[b] = Nobody
    /\ \E fd \in Handles \cup {-1} :
          /\ tfs_open(boxes[b].name, {}, fd)
          /\ \/ /\ fd = -1
                /\ ClosePipeAndReturn(w)
                /\ UNCHANGED boxes
             \/ /\ fd # -1
                /\ pc' = [pc EXCEPT ![w] = "s_loop"]
                /\ loc' = [loc EXCEPT ![w].fd = fd]
                /\ boxes' = [boxes EXCEPT ![b].n_subscribers = @ + 1]
                /\ UNCHANGED <<client, broker_end, sent, received>>
    /\ UNCHANGED <<mutex, boxes_lock, box_count, process, pipe, published>>

\* nothing new: cond_wait, which gives the mutex back at once; else keep it
S_Loop(w) ==
    LET b == loc[w].box IN
    /\ pc[w] = "s_loop"
    /\ mutex[b] = Nobody
    /\ \/ /\ loc[w].total_read >= boxes[b].size
          /\ Goto(w, "s_asleep")
          /\ UNCHANGED mutex
       \/ /\ loc[w].total_read < boxes[b].size
          /\ Goto(w, "s_read")
          /\ Lock(w, b)
    /\ UNCHANGED <<fs, boxes, boxes_lock, box_count, process, loc, pipes, published>>

\* cond_wait returns with the mutex; the `if` above it is not tested again
S_Reacquire(w) == /\ pc[w] = "s_woken"
                  /\ Goto(w, "s_read")
                  /\ Lock(w, loc[w].box)
                  /\ UNCHANGED <<fs, boxes, boxes_lock, box_count, process, loc, pipes,
                                 published>>

S_SpuriousWakeup(w) == /\ fault = "none"
                       /\ pc[w] \in {"s_asleep", "s_orphan"}
                       /\ Goto(w, "s_woken")
                       /\ UNCHANGED <<fs, table, process, loc, pipes, published>>

\* read_message, one byte; at the NUL the box must still be there
S_Read(w) ==
    /\ pc[w] = "s_read"
    /\ \E ret \in -1..1, byte \in Bytes \cup {Junk, "none"} :
          LET msg == Append(loc[w].msg, byte) IN
          /\ tfs_read(loc[w].fd, 1, ret, IF byte = "none" THEN <<>> ELSE <<byte>>)
          /\ \/ /\ ret # 1
                /\ Goto(w, "s_end")
                /\ UNCHANGED loc
             \/ /\ ret = 1 /\ byte # NUL
                /\ Goto(w, "s_read")
                /\ loc' = [loc EXCEPT ![w].msg = msg]
             \/ /\ ret = 1 /\ byte = NUL
                /\ boxes[loc[w].box].alloc_state = "NOT_USED"
                /\ Goto(w, "s_end")
                /\ UNCHANGED loc
             \/ /\ ret = 1 /\ byte = NUL
                /\ boxes[loc[w].box].alloc_state = "USED"
                /\ Goto(w, "s_send")
                /\ loc' = [loc EXCEPT ![w].total_read = @ + Len(msg)]
    /\ UNCHANGED <<table, process, pipes, published>>

\* a write to the pipe of a client that is gone fails with EPIPE and raises SIGPIPE,
\* whose handler runs once: the default action is back until signal() is called again
BrokenPipe(c) == client[c] = "closed" /\ sigpipe = "handler" /\ sigpipe' = "default"

\* the default action ends the process
KilledBySigpipe(w) == /\ pc[w] \in {"s_send", "m_send", "l_send"}
                      /\ client[loc[w].req] = "closed" /\ sigpipe = "default"
                      /\ Dies("SIGPIPE")
                      /\ UNCHANGED <<table, process, pc, loc, pipes, published>>

\* the write blocks, with the box's mutex, while the pipe is full
S_Send(w) ==
    LET c == loc[w].req IN
    /\ pc[w] = "s_send"
    /\ \/ /\ client[c] = "open" /\ Len(pipe[c]) < PipeCapacity
          /\ Goto(w, "s_loop")
          /\ pipe' = [pipe EXCEPT ![c] = Append(@, loc[w].msg)]
          /\ loc' = [loc EXCEPT ![w].msg = <<>>]
          /\ Unlock(loc[w].box)
          /\ UNCHANGED sigpipe
       \/ /\ BrokenPipe(c)
          /\ Goto(w, "s_signal")
          /\ UNCHANGED <<pipe, loc, mutex>>
    /\ UNCHANGED <<fs, boxes, boxes_lock, box_count, requests, client, broker_end, sent,
                   received, published>>

\* the handler is installed again
S_Signal(w) == /\ pc[w] = "s_signal"
               /\ Goto(w, "s_end")
               /\ sigpipe' = "handler"
               /\ UNCHANGED <<fs, table, requests, loc, pipes, published>>

\* mutant: the subscriber stays counted
S_End_counted(w) == /\ pc[w] = "s_end"
                    /\ \E ret \in {0, -1} : tfs_close(loc[w].fd, ret)
                    /\ Unlock(loc[w].box)
                    /\ ClosePipeAndReturn(w)
                    /\ UNCHANGED <<boxes, boxes_lock, box_count, process, pipe, published>>

\* mutant: the session ends with the box's mutex
S_End_keeps_mutex(w) ==
    /\ pc[w] = "s_end"
    /\ \E ret \in {0, -1} : tfs_close(loc[w].fd, ret)
    /\ boxes' = [boxes EXCEPT ![loc[w].box].n_subscribers = Decrement(@)]
    /\ ClosePipeAndReturn(w)
    /\ UNCHANGED <<mutex, boxes_lock, box_count, process, pipe, published>>

S_End(w) == /\ pc[w] = "s_end"
            /\ \E ret \in {0, -1} : tfs_close(loc[w].fd, ret)
            /\ boxes' = [boxes EXCEPT ![loc[w].box].n_subscribers = Decrement(@)]
            /\ Unlock(loc[w].box)
            /\ ClosePipeAndReturn(w)
            /\ UNCHANGED <<boxes_lock, box_count, process, pipe, published>>

-----------------------------------------------------------------------------
(* handle_manager: create_box *)

\* the response so far is in msg
Respond(w, to, answer) == /\ Goto(w, to)
                          /\ loc' = [loc EXCEPT ![w].msg = <<answer>>]

C_GetBox(w) == /\ pc[w] = "c_get_box"
               /\ \/ /\ get_box(BoxOf[loc[w].req]) = NoBox
                     /\ Respond(w, "c_tfs_open", "OK")
                  \/ /\ get_box(BoxOf[loc[w].req]) # NoBox
                     /\ Respond(w, "m_send", "ERR")
               /\ UNCHANGED <<fs, table, process, pipes, published>>

C_TfsOpen(w) == /\ pc[w] = "c_tfs_open"
                /\ \E fd \in Handles \cup {-1} :
                      /\ tfs_open(BoxOf[loc[w].req], {"CREAT"}, fd)
                      /\ \/ /\ fd = -1
                            /\ Respond(w, "m_send", "ERR")
                         \/ /\ fd # -1
                            /\ Goto(w, "c_tfs_close")
                            /\ loc' = [loc EXCEPT ![w].fd = fd]
                /\ UNCHANGED <<table, process, pipes, published>>

C_TfsClose(w) == /\ pc[w] = "c_tfs_close"
                 /\ Goto(w, "c_slot")
                 /\ \E ret \in {0, -1} : tfs_close(loc[w].fd, ret)
                 /\ UNCHANGED <<table, process, loc, pipes, published>>

UnusedSlots == {b \in BoxSlots : boxes[b].alloc_state = "NOT_USED"}

\* mutant: the slot is chosen and filled without mbroker_boxes_lock
C_Slot_unlocked(w) ==
    LET b == First(UnusedSlots) IN
    /\ pc[w] = "c_slot"
    /\ UnusedSlots # {}
    /\ Goto(w, "c_used")
    /\ boxes' = [boxes EXCEPT ![b] = [EmptyBox(BoxOf[loc[w].req]) EXCEPT
                                        !.alloc_state = "NOT_USED"]]
    /\ loc' = [loc EXCEPT ![w].box = b]
    /\ UNCHANGED <<fs, mutex, boxes_lock, box_count, process, pipes, published>>

\* boxes[i] = new_box: a copy in address order, so alloc_state comes last.  It
\* overwrites the mutex and the condition variable with zeroes: the mutex is free,
\* and no broadcast reaches the threads that sleep on the old condition variable.
\* Without an unused slot the loop ends, and the request still succeeds
C_Slot(w) ==
    LET b == First(UnusedSlots) IN
    /\ pc[w] = "c_slot"
    /\ boxes_lock = Nobody
    /\ \/ /\ UnusedSlots = {}
          /\ pc' = [pc EXCEPT ![w] = "m_load"]
          /\ UNCHANGED <<boxes, mutex, boxes_lock, loc>>
       \/ /\ UnusedSlots # {}
          /\ boxes_lock' = w
          /\ boxes' = [boxes EXCEPT ![b] = [EmptyBox(BoxOf[loc[w].req]) EXCEPT
                                              !.alloc_state = "NOT_USED"]]
          /\ mutex' = [mutex EXCEPT ![b] = Nobody]
          /\ loc' = [loc EXCEPT ![w].box = b]
          /\ pc' = [u \in Workers |->
                      IF u = w THEN "c_used"
                      ELSE IF pc[u] = "s_asleep" /\ loc[u].box = b THEN "s_orphan" ELSE pc[u]]
    /\ UNCHANGED <<fs, box_count, process, pipes, published>>

C_Used(w) == /\ pc[w] = "c_used"
             /\ Goto(w, "m_load")
             /\ boxes' = [boxes EXCEPT ![loc[w].box].alloc_state = "USED"]
             /\ boxes_lock' = Nobody
             /\ UNCHANGED <<fs, mutex, box_count, process, loc, pipes, published>>

-----------------------------------------------------------------------------
(* handle_manager: delete_box *)

D_GetBox(w) == LET b == get_box(BoxOf[loc[w].req]) IN
               /\ pc[w] = "d_get_box"
               /\ \/ /\ b # NoBox
                     /\ Goto(w, "d_unlink")
                     /\ loc' = [loc EXCEPT ![w].box = b, ![w].msg = <<"OK">>]
                  \/ /\ b = NoBox
                     /\ Respond(w, "m_send", "ERR")
               /\ UNCHANGED <<fs, table, process, pipes, published>>

\* mutant: the mutex is not given back when tfs_unlink succeeds either
D_Unlink_keeps_mutex(w) ==
    LET b == loc[w].box IN
    /\ pc[w] = "d_unlink"
    /\ Lock(w, b)
    /\ tfs_unlink(boxes[b].name, 0)
    /\ boxes' = [boxes EXCEPT ![b].alloc_state = "NOT_USED"]
    /\ Goto(w, "d_broadcast")
    /\ UNCHANGED <<boxes_lock, box_count, process, loc, pipes, published>>

\* when tfs_unlink fails the mutex is not given back
D_Unlink(w) ==
    LET b == loc[w].box IN
    /\ pc[w] = "d_unlink"
    /\ mutex[b] = Nobody
    /\ \E ret \in {0, -1} :
          /\ tfs_unlink(boxes[b].name, ret)
          /\ \/ /\ ret = -1
                /\ Respond(w, "m_send", "ERR")
                /\ Lock(w, b)
                /\ UNCHANGED boxes
             \/ /\ ret = 0
                /\ Goto(w, "d_broadcast")
                /\ boxes' = [boxes EXCEPT ![b].alloc_state = "NOT_USED"]
                /\ UNCHANGED <<mutex, loc>>
    /\ UNCHANGED <<boxes_lock, box_count, process, pipes, published>>

D_Broadcast(w) == /\ Broadcast(w, loc[w].box, "d_broadcast", "m_load")
                  /\ UNCHANGED <<fs, table, process, loc, pipes, published>>

-----------------------------------------------------------------------------
(* The rest of handle_manager, and handle_list *)

\* box_count++ and box_count--, outside any mutex: a load and a store
M_Load(w) == /\ pc[w] = "m_load"
             /\ Goto(w, "m_store")
             /\ loc' = [loc EXCEPT ![w].count = box_count]
             /\ UNCHANGED <<fs, table, process, pipes, published>>

M_Store(w) == /\ pc[w] = "m_store"
              /\ Goto(w, "m_send")
              /\ box_count' = IF loc[w].req \in Creators THEN loc[w].count + 1
                              ELSE loc[w].count - 1
              /\ UNCHANGED <<fs, boxes, mutex, boxes_lock, process, loc, pipes, published>>

\* a client that is gone leaves the broker's end open: this return skips the close()
M_Send(w) ==
    LET c == loc[w].req IN
    /\ pc[w] = "m_send"
    /\ \/ /\ client[c] = "open"
          /\ pipe' = [pipe EXCEPT ![c] = Append(@, loc[w].msg)]
          /\ ClosePipeAndReturn(w)
          /\ UNCHANGED sigpipe
       \/ /\ BrokenPipe(c)
          /\ Goto(w, "idle")
          /\ loc' = [loc EXCEPT ![w] = NoLocals]
          /\ UNCHANGED pipes
    /\ UNCHANGED <<fs, table, requests, published>>

\* one turn of handle_list's loop, without any mutex: total_read is its i, count its j
L_Scan(w) ==
    LET i == loc[w].total_read IN
    /\ pc[w] = "l_scan"
    /\ \/ /\ i = BOX_COUNT_MAX \/ loc[w].count = box_count
          /\ ClosePipeAndReturn(w)
       \/ /\ i < BOX_COUNT_MAX /\ loc[w].count # box_count
          /\ \/ /\ boxes[i].alloc_state = "USED"
                /\ Goto(w, "l_send")
                /\ loc' = [loc EXCEPT ![w].count = @ + 1]
             \/ /\ boxes[i].alloc_state = "NOT_USED"
                /\ loc' = [loc EXCEPT ![w].total_read = i + 1]
                /\ UNCHANGED pc
          /\ UNCHANGED <<client, broker_end, sent, received>>
    /\ UNCHANGED <<fs, table, process, pipe, published>>

\* the copy of the box, the last flag and the response; a pipe holds a whole list
L_Send(w) ==
    LET c == loc[w].req
        i == loc[w].total_read IN
    /\ pc[w] = "l_send"
    /\ \/ /\ client[c] = "open"
          /\ Goto(w, "l_scan")
          /\ pipe' = [pipe EXCEPT ![c] = Append(@, [name |-> boxes[i].name,
                                                    last |-> loc[w].count = box_count])]
          /\ loc' = [loc EXCEPT ![w].total_read = i + 1]
          /\ UNCHANGED <<client, broker_end, sent, received, sigpipe>>
       \/ /\ BrokenPipe(c)
          /\ ClosePipeAndReturn(w)
          /\ UNCHANGED pipe
    /\ UNCHANGED <<fs, table, requests, published>>

-----------------------------------------------------------------------------
PublisherStep(w) == \/ P_GetBox(w) \/ P_Register(w) \/ P_Read(w) \/ P_Write(w)
                    \/ P_Terminate(w) \/ P_Broadcast(w) \/ P_End(w) \/ P_Close(w)

SubscriberStep(w) == \/ S_GetBox(w) \/ S_Register(w) \/ S_Loop(w) \/ S_Reacquire(w)
                     \/ S_Read(w) \/ S_Send(w) \/ S_Signal(w) \/ S_End(w)

ManagerStep(w) == \/ C_GetBox(w) \/ C_TfsOpen(w) \/ C_TfsClose(w) \/ C_Slot(w)
                  \/ C_Used(w) \/ D_GetBox(w) \/ D_Unlink(w) \/ D_Broadcast(w)
                  \/ M_Load(w) \/ M_Store(w) \/ M_Send(w) \/ L_Scan(w) \/ L_Send(w)

WorkerStep(w) == /\ fault = "none"
                 /\ \/ RequestsHandler(w) \/ PublisherStep(w) \/ SubscriberStep(w)
                    \/ ManagerStep(w) \/ KilledBySigpipe(w)

Next == \/ \E c \in Clients : Register(c)
        \/ \E c \in Publishers : PublisherSend(c)
        \/ \E c \in Publishers \cup Subscribers : ClientClose(c)
        \/ \E c \in Clients \ Publishers : ClientRead(c)
        \/ \E c \in Mortal : Die(c)
        \/ \E c \in Mortal \cap Subscribers : GiveUp(c)
        \/ MainLoop
        \/ Interruptible /\ Sigint
        \/ \E w \in Workers : WorkerStep(w)
        \/ SpuriousWakeups /\ \E w \in Workers : S_SpuriousWakeup(w)

Spec == Init /\ [][Next]_vars

(* Every thread runs, a mutex that keeps being released is granted to each   *)
(* thread that waits for it, and connected clients read their pipes.  No     *)
(* client has to register, send or leave.                                    *)
Fairness == /\ \A w \in Workers : SF_vars(WorkerStep(w))
            /\ WF_vars(MainLoop)
            /\ \A c \in Clients \ Publishers : WF_vars(ClientRead(c))

FairSpec == Spec /\ Fairness

-----------------------------------------------------------------------------
(* Properties *)

WorkerPCs == {"idle", "in_open", "p_get_box", "p_register", "p_read", "p_write", "p_terminate",
              "p_broadcast", "p_end", "p_close", "s_get_box", "s_register", "s_loop",
              "s_asleep", "s_orphan", "s_woken", "s_read", "s_send", "s_signal", "s_end",
              "c_get_box",
              "c_tfs_open", "c_tfs_close", "c_slot", "c_used", "d_get_box", "d_unlink",
              "d_broadcast", "m_load", "m_store", "m_send", "l_scan", "l_send"}

(* The types of the shared state: a box never counts more sessions than      *)
(* there are workers (its counters are unsigned: one decrement too many in   *)
(* handle_publisher or handle_subscriber wraps them), and main never queues  *)
(* more than max_sessions requests.                                          *)
TypeOK ==
    /\ boxes \in [BoxSlots -> [name : FileNames \cup {NoName},
                               n_publishers : 0..1,
                               n_subscribers : 0..Cardinality(Workers),
                               size : Nat,
                               alloc_state : {"USED", "NOT_USED"}]]
    /\ mutex \in [BoxSlots -> Workers \cup {Nobody}]
    /\ boxes_lock \in Workers \cup {Nobody}
    /\ box_count \in Int
    /\ Len(requests_queue) <= Cardinality(Workers)
    /\ pc \in [Workers -> WorkerPCs]
    /\ \A w \in Workers : loc[w].box \in BoxSlots \cup {NoBox}
    /\ client \in [Clients -> {"new", "opening", "dead", "removed", "open", "closed",
                              "eof"}]
    /\ broker_end \in [Clients -> {"none", "open", "closed"}]

\* the workers in a publisher's, or a subscriber's, session on box b
Publishing(b) == {w \in Workers : /\ loc[w].box = b
                                  /\ pc[w] \in {"p_read", "p_write", "p_terminate",
                                                "p_broadcast", "p_end"}}
Subscribed(b) == {w \in Workers : /\ loc[w].box = b
                                  /\ pc[w] \in {"s_loop", "s_asleep", "s_orphan", "s_woken",
                                                "s_read", "s_send", "s_signal", "s_end"}}

(* The counters of a box in use are the sessions that are open on it, on     *)
(* every way out of handle_publisher and handle_subscriber.                  *)
SessionsCounted == \A b \in BoxSlots :
    boxes[b].alloc_state = "USED" =>
       /\ boxes[b].n_publishers = Cardinality(Publishing(b))
       /\ boxes[b].n_subscribers = Cardinality(Subscribed(b))

(* mbroker.c on handle_publisher: the pipe is closed when the "Box already   *)
(* has a publisher writting to it".  No two publishers write to one box.     *)
OnePublisherPerBox == \A b \in BoxSlots :
    boxes[b].alloc_state = "USED" => Cardinality(Publishing(b)) <= 1

(* A subscriber gets the messages published in its box from the first one    *)
(* on, in order, none lost, torn or repeated, however its reads interleave   *)
(* with the publishers' two writes and with spurious wakeups.                *)
DeliveredInOrder == \A c \in Subscribers :
    LET got == received[c] \o pipe[c] IN
    /\ Len(got) <= Len(published[BoxOf[c]])
    /\ got = SubSeq(published[BoxOf[c]], 1, Len(got))

(* The size a box shows, which decides whether a subscriber sleeps, is the   *)
(* size of its file whenever its mutex is free, unless the file is full.     *)
SizeMatchesFile == \A b \in BoxSlots :
    boxes[b].alloc_state = "USED" /\ mutex[b] = Nobody =>
       LET inum == find_in_dir(boxes[b].name) IN
       inum # -1 /\ inode_table[inum].i_size \in {boxes[b].size, BLOCK_SIZE}

(* Every message published in a box reaches each of its connected            *)
(* subscribers, unless that session ends: no wakeup is lost between the test *)
(* of the size and cond_wait.  (published only grows.)                       *)
MessagesDelivered == \A c \in Subscribers :
    []<>(client[c] = "open" /\ broker_end[c] = "open"
            => Len(received[c]) = Len(published[BoxOf[c]]))

(* A session never keeps a box's mutex for ever, the subscriber that blocks  *)
(* on a full pipe with it included.                                          *)
BoxReleased == \A w \in Workers :
    (\E b \in BoxSlots : mutex[b] = w) ~> (\A b \in BoxSlots : mutex[b] # w)

(* A creation that was answered with success left a box of that name in the  *)
(* table, for as long as nobody asks for its deletion: concurrent creations  *)
(* never take the same slot, and delete_box, which "Deletes a box in mbroker *)
(* with given name" (box.c), deletes no other.                               *)
CreatedBoxesExist == \A c \in Creators :
    received[c] = <<<<"OK">>>> /\ (\A d \in Deleters : BoxOf[d] # BoxOf[c])
       => get_box(BoxOf[c]) # NoBox

\* every worker waits in the open() of the pipe of a client that died
NoWorkerLeft == \A w \in Workers : pc[w] = "in_open"

(* Every manager that registers gets its answer, or for a list its end,      *)
(* whichever client dies before or after its pipe is open, as long as the    *)
(* broker is there and one worker is left: neither a return of delete_box    *)
(* nor the EPIPE of another session keeps the worker it needs.               *)
ManagersAnswered == \A c \in Creators \cup Deleters \cup Listers :
    client[c] = "opening"
       ~> (client[c] \in {"closed", "eof", "dead"} \/ fault # "none" \/ NoWorkerLeft)

(* After SIGINT the next request ends the broker, as the comment of main on  *)
(* interrupt_var says: also when the signal comes between main's test of the *)
(* flag and its next read, where nothing interrupts it.                      *)
InterruptEndsBroker ==
    (interrupt_var = 1 /\ registration_pipe # <<>>) ~> (fault # "none" \/ NoWorkerLeft)

-----------------------------------------------------------------------------
(* What the comments of the code say, and the code does not do *)

(* mbroker.c, on sigpipe_handler: "Used simply to overwrite default SIGPIPE  *)
(* handler that finishes the process".  No client that goes away ends the    *)
(* broker.                                                                   *)
ClosedPipesHandled == fault # "SIGPIPE"

(* state.c, data_block_get: the assertion "invalid block number".  No        *)
(* sequence of requests makes a tfs call of the broker fail it.              *)
BrokerSurvives == fault \in {"none", "exit", "SIGINT", "SIGPIPE"}
=============================================================================
