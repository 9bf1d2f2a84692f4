---------------------------- MODULE BrokerProofs ----------------------------
(***************************************************************************)
(* For any number of workers, clients and boxes: the tables of the broker   *)
(* and of its file system stay consistent, and while no slot of the box     *)
(* table is reused its counters are the sessions that are open.  While no    *)
(* box is deleted and the box table has room for every request, a creation   *)
(* that was answered with success left a box in the table, however creations *)
(* interleave.                                                               *)
(***************************************************************************)
EXTENDS Broker, TFS2Lemmas, FiniteSetTheorems

Symbols == Bytes \cup {Junk, "none", "OK", "ERR"}
Locals == [req : Clients \cup {"none"}, box : BoxSlots \cup {NoBox}, fd : Handles \cup {-1},
           msg : Seq(Symbols), total_read : Nat, count : Int]

\* the steps of each handler, and the ones with a box
PubSession == {"p_read", "p_write", "p_terminate", "p_broadcast", "p_end"}
SubSession == {"s_loop", "s_asleep", "s_orphan", "s_woken", "s_read", "s_send", "s_signal",
               "s_end"}
P_PCs == {"p_get_box", "p_register", "p_close"} \cup PubSession
S_PCs == {"s_get_box", "s_register"} \cup SubSession
C_PCs == {"c_get_box", "c_tfs_open", "c_tfs_close", "c_slot", "c_used"}
D_PCs == {"d_get_box", "d_unlink", "d_broadcast"}
M_PCs == {"m_load", "m_store", "m_send"}
L_PCs == {"l_scan", "l_send"}
BoxPCs == PubSession \cup SubSession
            \cup {"p_register", "s_register", "c_used", "d_unlink", "d_broadcast"}

\* what a worker's local variables hold where it is
Role(p, l) ==
    /\ p \in P_PCs => l.req \in Publishers
    /\ p \in S_PCs => l.req \in Subscribers
    /\ p \in C_PCs => l.req \in Creators
    /\ p \in D_PCs => l.req \in Deleters
    /\ p \in M_PCs => l.req \in Creators \cup Deleters
    /\ p \in L_PCs => l.req \in Listers
    /\ p \in BoxPCs => l.box \in BoxSlots
    /\ p \in {"p_write", "p_terminate"} => l.msg \in Seq(Bytes \ {NUL})
    /\ p \in {"c_tfs_close", "c_slot"} => BoxOf[l.req] \in FileNames

WorkersOK == /\ pc \in [Workers -> WorkerPCs] /\ loc \in [Workers -> Locals]
             /\ \A w \in Workers : Role(pc[w], loc[w])

BoxesOK == /\ boxes \in [BoxSlots -> [name : FileNames \cup {NoName}, n_publishers : Nat,
                                      n_subscribers : Nat, size : Nat,
                                      alloc_state : {"USED", "NOT_USED"}]]
           /\ mutex \in [BoxSlots -> Workers \cup {Nobody}]
           /\ boxes_lock \in Workers \cup {Nobody}
           /\ box_count \in Int

RequestsOK == /\ registration_pipe \in Seq(Clients)
              /\ requests_queue \in Seq(Clients) /\ Len(requests_queue) <= Cardinality(Workers)
              /\ main_req \in Clients \cup {Nobody}

PipesOK == /\ client \in [Clients -> {"new", "opening", "dead", "removed", "open", "closed",
                                      "eof"}]
           /\ broker_end \in [Clients -> {"none", "open", "closed"}]
           /\ DOMAIN pipe = Clients
           /\ sent \in [Publishers -> Nat]
           /\ \A c \in Publishers : pipe[c] \in Seq(Seq(Bytes \ {NUL}))

\* the tables of the broker and of the file system, for all clients: the counters of
\* the boxes are only known to be numbers
BInv == FsInv /\ WorkersOK /\ BoxesOK /\ RequestsOK /\ PipesOK

-----------------------------------------------------------------------------
(* The local variables of a worker *)

(* The local variables are the fields of a record.                            *)
LEMMA LocalsRecord ==
  ASSUME loc \in [Workers -> Locals], NEW w \in Workers
  PROVE  loc[w] = [req |-> loc[w].req, box |-> loc[w].box, fd |-> loc[w].fd, msg |-> loc[w].msg,
            total_read |-> loc[w].total_read, count |-> loc[w].count]
  BY DEF Locals

(* An assignment to one local variable leaves the others.                     *)
LEMMA SetReq ==
  ASSUME loc \in [Workers -> Locals], NEW w \in Workers, NEW v
  PROVE  [loc EXCEPT ![w].req = v] =
         [loc EXCEPT ![w] = [req |-> v, box |-> loc[w].box, fd |-> loc[w].fd,
            msg |-> loc[w].msg, total_read |-> loc[w].total_read, count |-> loc[w].count]]
<1>1. /\ DOMAIN loc = Workers
      /\ loc[w] = [req |-> loc[w].req, box |-> loc[w].box, fd |-> loc[w].fd, msg |-> loc[w].msg,
            total_read |-> loc[w].total_read, count |-> loc[w].count]
  BY LocalsRecord
<1>2. [loc[w] EXCEPT !.req = v] =
         [req |-> v, box |-> loc[w].box, fd |-> loc[w].fd, msg |-> loc[w].msg,
          total_read |-> loc[w].total_read, count |-> loc[w].count]
  BY <1>1
<1> QED BY <1>2

(* The same for box.  *)
LEMMA SetBox ==
  ASSUME loc \in [Workers -> Locals], NEW w \in Workers, NEW v
  PROVE  [loc EXCEPT ![w].box = v] =
         [loc EXCEPT ![w] = [req |-> loc[w].req, box |-> v, fd |-> loc[w].fd,
            msg |-> loc[w].msg, total_read |-> loc[w].total_read, count |-> loc[w].count]]
<1>1. /\ DOMAIN loc = Workers
      /\ loc[w] = [req |-> loc[w].req, box |-> loc[w].box, fd |-> loc[w].fd, msg |-> loc[w].msg,
            total_read |-> loc[w].total_read, count |-> loc[w].count]
  BY LocalsRecord
<1>2. [loc[w] EXCEPT !.box = v] =
         [req |-> loc[w].req, box |-> v, fd |-> loc[w].fd, msg |-> loc[w].msg,
          total_read |-> loc[w].total_read, count |-> loc[w].count]
  BY <1>1
<1> QED BY <1>2

(* The same for fd.  *)
LEMMA SetFd ==
  ASSUME loc \in [Workers -> Locals], NEW w \in Workers, NEW v
  PROVE  [loc EXCEPT ![w].fd = v] =
         [loc EXCEPT ![w] = [req |-> loc[w].req, box |-> loc[w].box, fd |-> v,
            msg |-> loc[w].msg, total_read |-> loc[w].total_read, count |-> loc[w].count]]
<1>1. /\ DOMAIN loc = Workers
      /\ loc[w] = [req |-> loc[w].req, box |-> loc[w].box, fd |-> loc[w].fd, msg |-> loc[w].msg,
            total_read |-> loc[w].total_read, count |-> loc[w].count]
  BY LocalsRecord
<1>2. [loc[w] EXCEPT !.fd = v] =
         [req |-> loc[w].req, box |-> loc[w].box, fd |-> v, msg |-> loc[w].msg,
          total_read |-> loc[w].total_read, count |-> loc[w].count]
  BY <1>1
<1> QED BY <1>2

(* The same for msg.  *)
LEMMA SetMsg ==
  ASSUME loc \in [Workers -> Locals], NEW w \in Workers, NEW v
  PROVE  [loc EXCEPT ![w].msg = v] =
         [loc EXCEPT ![w] = [req |-> loc[w].req, box |-> loc[w].box, fd |-> loc[w].fd,
            msg |-> v, total_read |-> loc[w].total_read, count |-> loc[w].count]]
<1>1. /\ DOMAIN loc = Workers
      /\ loc[w] = [req |-> loc[w].req, box |-> loc[w].box, fd |-> loc[w].fd, msg |-> loc[w].msg,
            total_read |-> loc[w].total_read, count |-> loc[w].count]
  BY LocalsRecord
<1>2. [loc[w] EXCEPT !.msg = v] =
         [req |-> loc[w].req, box |-> loc[w].box, fd |-> loc[w].fd, msg |-> v,
          total_read |-> loc[w].total_read, count |-> loc[w].count]
  BY <1>1
<1> QED BY <1>2

(* The same for total_read.  *)
LEMMA SetTotalRead ==
  ASSUME loc \in [Workers -> Locals], NEW w \in Workers, NEW v
  PROVE  [loc EXCEPT ![w].total_read = v] =
         [loc EXCEPT ![w] = [req |-> loc[w].req, box |-> loc[w].box, fd |-> loc[w].fd,
            msg |-> loc[w].msg, total_read |-> v, count |-> loc[w].count]]
<1>1. /\ DOMAIN loc = Workers
      /\ loc[w] = [req |-> loc[w].req, box |-> loc[w].box, fd |-> loc[w].fd, msg |-> loc[w].msg,
            total_read |-> loc[w].total_read, count |-> loc[w].count]
  BY LocalsRecord
<1>2. [loc[w] EXCEPT !.total_read = v] =
         [req |-> loc[w].req, box |-> loc[w].box, fd |-> loc[w].fd, msg |-> loc[w].msg,
          total_read |-> v, count |-> loc[w].count]
  BY <1>1
<1> QED BY <1>2

(* The same for count.  *)
LEMMA SetCount ==
  ASSUME loc \in [Workers -> Locals], NEW w \in Workers, NEW v
  PROVE  [loc EXCEPT ![w].count = v] =
         [loc EXCEPT ![w] = [req |-> loc[w].req, box |-> loc[w].box, fd |-> loc[w].fd,
            msg |-> loc[w].msg, total_read |-> loc[w].total_read, count |-> v]]
<1>1. /\ DOMAIN loc = Workers
      /\ loc[w] = [req |-> loc[w].req, box |-> loc[w].box, fd |-> loc[w].fd, msg |-> loc[w].msg,
            total_read |-> loc[w].total_read, count |-> loc[w].count]
  BY LocalsRecord
<1>2. [loc[w] EXCEPT !.count = v] =
         [req |-> loc[w].req, box |-> loc[w].box, fd |-> loc[w].fd, msg |-> loc[w].msg,
          total_read |-> loc[w].total_read, count |-> v]
  BY <1>1
<1> QED BY <1>2

(* delete_box sets two of them.                                               *)
LEMMA SetBoxMsg ==
  ASSUME loc \in [Workers -> Locals], NEW w \in Workers, NEW b, NEW m
  PROVE  [loc EXCEPT ![w].box = b, ![w].msg = m] =
         [loc EXCEPT ![w] = [req |-> loc[w].req, box |-> b, fd |-> loc[w].fd,
            msg |-> m, total_read |-> loc[w].total_read, count |-> loc[w].count]]
<1>1. /\ DOMAIN loc = Workers
      /\ loc[w] = [req |-> loc[w].req, box |-> loc[w].box, fd |-> loc[w].fd, msg |-> loc[w].msg,
            total_read |-> loc[w].total_read, count |-> loc[w].count]
  BY LocalsRecord
<1> DEFINE l == [loc[w] EXCEPT !.box = b]
<1>2. l = [req |-> loc[w].req, box |-> b, fd |-> loc[w].fd, msg |-> loc[w].msg,
           total_read |-> loc[w].total_read, count |-> loc[w].count]
  BY <1>1
<1>3. [loc EXCEPT ![w].box = b, ![w].msg = m] = [loc EXCEPT ![w] = [l EXCEPT !.msg = m]]
  BY <1>1
<1> HIDE DEF l
<1>4. [l EXCEPT !.msg = m] = [req |-> loc[w].req, box |-> b, fd |-> loc[w].fd, msg |-> m,
                              total_read |-> loc[w].total_read, count |-> loc[w].count]
  BY <1>2
<1> QED BY <1>3, <1>4

(* A step of one worker keeps what the workers' variables hold.               *)
LEMMA Moved ==
  ASSUME WorkersOK, NEW w \in Workers, NEW to \in WorkerPCs, NEW l \in Locals, Role(to, l),
         pc' = [pc EXCEPT ![w] = to], loc' = [loc EXCEPT ![w] = l]
  PROVE  WorkersOK'
<1>1. pc' \in [Workers -> WorkerPCs] /\ loc' \in [Workers -> Locals]
  BY DEF WorkersOK
<1>2. pc'[w] = to /\ loc'[w] = l
  BY DEF WorkersOK
<1>3. \A u \in Workers : u # w => pc'[u] = pc[u] /\ loc'[u] = loc[u]
  BY DEF WorkersOK
<1>4. \A u \in Workers : Role(pc[u], loc[u])
  BY DEF WorkersOK
<1>5. \A u \in Workers : Role(pc'[u], loc'[u])
  BY <1>2, <1>3, <1>4, Zenon
<1> QED BY <1>1, <1>5 DEF WorkersOK

(* The same when the worker's variables do not change.                        *)
LEMMA Stepped ==
  ASSUME WorkersOK, NEW w \in Workers, NEW to \in WorkerPCs, Role(to, loc[w]),
         pc' = [pc EXCEPT ![w] = to], UNCHANGED loc
  PROVE  WorkersOK'
<1>1. loc' = [loc EXCEPT ![w] = loc[w]] /\ loc[w] \in Locals
  BY DEF WorkersOK
<1> QED BY <1>1, Moved

(* A broadcast moves the workers that sleep on the box too, and so does the   *)
(* copy over its condition variable.                                          *)
LEMMA MovedAll ==
  ASSUME WorkersOK, NEW w \in Workers, NEW l \in Locals, Role(pc'[w], l),
         pc' \in [Workers -> WorkerPCs],
         \A u \in Workers : u # w => \/ pc'[u] = pc[u]
                                     \/ pc[u] = "s_asleep" /\ pc'[u] \in {"s_woken", "s_orphan"},
         loc' = [loc EXCEPT ![w] = l]
  PROVE  WorkersOK'
<1>2. loc' \in [Workers -> Locals]
  BY DEF WorkersOK
<1>3. loc'[w] = l
  BY DEF WorkersOK
<1>4. ASSUME NEW u \in Workers, u # w PROVE Role(pc'[u], loc'[u])
  <2>1. loc'[u] = loc[u] /\ Role(pc[u], loc[u])
    BY <1>4 DEF WorkersOK
  <2>2. CASE pc'[u] = pc[u]
    BY <2>1, <2>2
  <2>3. CASE pc[u] = "s_asleep" /\ pc'[u] \in {"s_woken", "s_orphan"}
    BY <2>1, <2>3 DEF Role, P_PCs, S_PCs, C_PCs, D_PCs, M_PCs, L_PCs, BoxPCs, PubSession, SubSession
  <2> QED BY <1>4, <2>2, <2>3
<1>5. \A u \in Workers : Role(pc'[u], loc'[u])
  BY <1>3, <1>4
<1> QED BY <1>2, <1>5 DEF WorkersOK

(* get_box returns a box in use that has the name, or none has it.            *)
LEMMA BoxFound ==
  ASSUME BoxesOK, NEW name
  PROVE  /\ get_box(name) # NoBox => /\ get_box(name) \in BoxSlots
                                     /\ boxes[get_box(name)].alloc_state = "USED"
                                     /\ boxes[get_box(name)].name = name
         /\ get_box(name) = NoBox => \A b \in BoxSlots : ~(/\ boxes[b].alloc_state = "USED"
                                                           /\ boxes[b].name = name)
<1>1. Matches(name) \subseteq Nat /\ NoBox \notin Matches(name)
  BY BrokerAssumption DEF Matches, BoxSlots, NoBox
<1>2. CASE Matches(name) = {}
  BY <1>2 DEF get_box, Matches
<1>3. CASE Matches(name) # {}
  <2>1. First(Matches(name)) \in Matches(name)
    BY <1>1, <1>3, FirstLeast
  <2>2. get_box(name) \in Matches(name) /\ get_box(name) # NoBox
    BY <1>1, <1>3, <2>1 DEF get_box
  <2> QED BY <2>2 DEF Matches
<1> QED BY <1>2, <1>3

(* create_box takes the first slot that is not in use.                        *)
LEMMA SlotFound ==
  ASSUME BoxesOK, UnusedSlots # {}
  PROVE  First(UnusedSlots) \in BoxSlots /\ boxes[First(UnusedSlots)].alloc_state = "NOT_USED"
<1>1. UnusedSlots \subseteq Nat
  BY BrokerAssumption DEF UnusedSlots, BoxSlots
<1>2. First(UnusedSlots) \in UnusedSlots
  BY <1>1, FirstLeast
<1> QED BY <1>2 DEF UnusedSlots

(* A name tfs_open created or found is one an entry can hold.                 *)
LEMMA NameOpened ==
  ASSUME FsInv, NEW name, NEW mode, NEW fd, tfs_open(name, mode, fd), fd # -1
  PROVE  name \in FileNames
<1>1. CASE OpenExisting(name, mode, fd)
  <2>1. find_in_dir(name) # -1
    BY <1>1 DEF OpenExisting
  <2>2. PICK s \in Slots : dir[s].d_name = name /\ dir[s].d_inumber = find_in_dir(name)
    BY <2>1, EntryFound DEF FsInv
  <2> QED BY <2>1, <2>2 DEF FsInv, DirectoryConsistent
<1>2. CASE OpenCreate(name, fd)
  BY <1>2 DEF OpenCreate
<1> QED BY <1>1, <1>2 DEF tfs_open

-----------------------------------------------------------------------------
(* The steps of the workers *)

(* The handler returns: the worker has no request.                            *)
LEMMA Idle ==
  ASSUME WorkersOK, NEW w \in Workers,
         pc' = [pc EXCEPT ![w] = "idle"], loc' = [loc EXCEPT ![w] = NoLocals]
  PROVE  WorkersOK'
<1>1. NoLocals \in Locals
  BY DEF NoLocals, Locals
<1>2. "idle" \in WorkerPCs /\ Role("idle", NoLocals)
  BY DEF Role, P_PCs, S_PCs, C_PCs, D_PCs, M_PCs, L_PCs, BoxPCs, PubSession,
      SubSession, WorkerPCs
<1> QED BY <1>1, <1>2, Moved

(* The look for the box.                                                      *)
LEMMA WorkersGetBox ==
  ASSUME BInv, NEW w \in Workers, NEW from, NEW to \in {"p_register", "s_register"},
         from \in {"p_get_box", "s_get_box"}, GetBox(w, from, to),
         from = "p_get_box" <=> to = "p_register"
  PROVE  WorkersOK'
<1>0. /\ WorkersOK /\ loc \in [Workers -> Locals] /\ loc[w] \in Locals /\ Role(pc[w], loc[w])
      /\ BoxesOK /\ pc[w] = from
  BY DEF BInv, WorkersOK, GetBox
<1> DEFINE b == get_box(BoxOf[loc[w].req])
<1>1. b # NoBox => b \in BoxSlots
  BY <1>0, BoxFound
<1>2. \/ b # NoBox /\ Goto(w, to) /\ loc' = [loc EXCEPT ![w].box = b]
      \/ ClosePipeAndReturn(w)
  BY DEF GetBox
<1> HIDE DEF b
<1>3. CASE b # NoBox /\ Goto(w, to) /\ loc' = [loc EXCEPT ![w].box = b]
  <2> DEFINE l == [req |-> loc[w].req, box |-> b, fd |-> loc[w].fd, msg |-> loc[w].msg,
                   total_read |-> loc[w].total_read, count |-> loc[w].count]
  <2>1. loc' = [loc EXCEPT ![w] = l]
    BY <1>0, <1>3, SetBox
  <2>2. l \in Locals /\ l.req = loc[w].req /\ l.box \in BoxSlots
    BY <1>0, <1>1, <1>3 DEF Locals
  <2> HIDE DEF l
  <2>3. Role(to, l) /\ to \in WorkerPCs
    BY <1>0, <2>2 DEF Role, P_PCs, S_PCs, C_PCs, D_PCs, M_PCs, L_PCs, BoxPCs, PubSession,
      SubSession, WorkerPCs
  <2> QED BY <1>0, <1>3, <2>1, <2>2, <2>3, Moved DEF Goto
<1>4. CASE ClosePipeAndReturn(w)
  BY <1>0, <1>4, Idle DEF ClosePipeAndReturn
<1> QED BY <1>2, <1>3, <1>4

(* A worker that keeps its other variables gets a handle.                     *)
LEMMA WorkersSetFd ==
  ASSUME WorkersOK, NEW w \in Workers, NEW to \in WorkerPCs, NEW fd \in Handles \cup {-1},
         pc' = [pc EXCEPT ![w] = to], loc' = [loc EXCEPT ![w].fd = fd],
         Role(to, loc[w])
  PROVE  WorkersOK'
<1>0. loc \in [Workers -> Locals] /\ loc[w] \in Locals
  BY DEF WorkersOK
<1> DEFINE l == [req |-> loc[w].req, box |-> loc[w].box, fd |-> fd, msg |-> loc[w].msg,
                 total_read |-> loc[w].total_read, count |-> loc[w].count]
<1>1. loc' = [loc EXCEPT ![w] = l]
  BY <1>0, SetFd
<1>2. l \in Locals /\ l.req = loc[w].req /\ l.box = loc[w].box /\ l.msg = loc[w].msg
  BY <1>0 DEF Locals
<1> HIDE DEF l
<1>3. Role(to, l)
  BY <1>2 DEF Role
<1> QED BY <1>1, <1>2, <1>3, Moved

(* cond_broadcast wakes the workers that sleep on the box.                    *)
LEMMA Broadcasted ==
  ASSUME WorkersOK, NEW w \in Workers, NEW from, NEW to \in WorkerPCs, NEW b,
         Broadcast(w, b, from, to), UNCHANGED loc, Role(to, loc[w])
  PROVE  WorkersOK'
<1>1. loc' = [loc EXCEPT ![w] = loc[w]] /\ loc[w] \in Locals
  BY DEF WorkersOK
<1>2. /\ pc' \in [Workers -> WorkerPCs] /\ pc'[w] = to
      /\ \A u \in Workers : u # w => \/ pc'[u] = pc[u]
                                     \/ pc[u] = "s_asleep" /\ pc'[u] \in {"s_woken", "s_orphan"}
  <2>1. "s_woken" \in WorkerPCs
    BY DEF WorkerPCs
  <2> QED BY <2>1 DEF Broadcast, WorkersOK
<1> QED BY <1>1, <1>2, MovedAll

(* A request goes to the handler of its kind.                                 *)
LEMMA HandlerKind ==
  ASSUME NEW c \in Clients
  PROVE  /\ Handler(c) \in {"p_get_box", "s_get_box", "c_get_box", "d_get_box", "l_scan"}
         /\ Handler(c) = "p_get_box" => c \in Publishers
         /\ Handler(c) = "s_get_box" => c \in Subscribers
         /\ Handler(c) = "c_get_box" => c \in Creators
         /\ Handler(c) = "d_get_box" => c \in Deleters
         /\ Handler(c) = "l_scan" => c \in Listers
<1>1. c \in Publishers \/ c \in Subscribers \/ c \in Creators \/ c \in Deleters \/ c \in Listers
  BY DEF Clients
<1> QED BY <1>1, ClientsAssumption DEF Handler

(* A worker takes a request from the queue.                                   *)
LEMMA WorkersRequest ==
  ASSUME BInv, NEW w \in Workers, RequestsHandler(w)
  PROVE  WorkersOK'
<1>0. WorkersOK /\ loc \in [Workers -> Locals] /\ requests_queue \in Seq(Clients)
  BY DEF BInv, WorkersOK, RequestsOK
<1> DEFINE c == Head(requests_queue)
<1>1. requests_queue # <<>> /\ c \in Clients
  BY <1>0 DEF RequestsHandler
<1>2. \/ pc' = [pc EXCEPT ![w] = Handler(c)] /\ loc' = [loc EXCEPT ![w].req = c]
      \/ pc' = [pc EXCEPT ![w] = "in_open"] /\ UNCHANGED loc
      \/ UNCHANGED <<pc, loc>>
  BY DEF RequestsHandler
<1> HIDE DEF c
<1>3. CASE pc' = [pc EXCEPT ![w] = Handler(c)] /\ loc' = [loc EXCEPT ![w].req = c]
  <2> DEFINE l == [req |-> c, box |-> loc[w].box, fd |-> loc[w].fd, msg |-> loc[w].msg,
                   total_read |-> loc[w].total_read, count |-> loc[w].count]
  <2>1. loc' = [loc EXCEPT ![w] = l]
    BY <1>0, <1>3, SetReq
  <2>2. l \in Locals /\ l.req = c
    <3>1. loc[w] \in Locals
      BY <1>0
    <3> QED BY <1>1, <3>1 DEF Locals
  <2>3. Handler(c) \in WorkerPCs
    BY <1>1, HandlerKind DEF WorkerPCs
  <2>4. Role(Handler(c), l)
    BY <1>1, <2>2, HandlerKind DEF Role, P_PCs, S_PCs, C_PCs, D_PCs, M_PCs, L_PCs, BoxPCs, PubSession, SubSession
  <2> HIDE DEF l
  <2> QED BY <1>0, <1>3, <2>1, <2>2, <2>3, <2>4, Moved
<1>4. CASE pc' = [pc EXCEPT ![w] = "in_open"] /\ UNCHANGED loc
  <2>1. "in_open" \in WorkerPCs /\ Role("in_open", loc[w])
    BY DEF Role, P_PCs, S_PCs, C_PCs, D_PCs, M_PCs, L_PCs, BoxPCs, PubSession,
      SubSession, WorkerPCs
  <2> QED BY <1>0, <1>4, <2>1, Stepped
<1>5. CASE UNCHANGED <<pc, loc>>
  BY <1>0, <1>5 DEF WorkersOK
<1> QED BY <1>2, <1>3, <1>4, <1>5

(* The steps of handle_publisher.                                             *)
LEMMA WorkersPublisher ==
  ASSUME BInv, NEW w \in Workers, PublisherStep(w)
  PROVE  WorkersOK'
<1>0. WorkersOK /\ loc \in [Workers -> Locals] /\ loc[w] \in Locals /\ Role(pc[w], loc[w])
  BY DEF BInv, WorkersOK
<1>1. CASE P_GetBox(w)
  BY <1>0, <1>1, WorkersGetBox DEF P_GetBox, Role, P_PCs, S_PCs, C_PCs, D_PCs, M_PCs, L_PCs, BoxPCs, PubSession,
      SubSession, WorkerPCs
<1>2. CASE P_Register(w)
  <2>1. CASE ClosePipeAndReturn(w)
    BY <1>0, <2>1, Idle DEF ClosePipeAndReturn
  <2>2. ASSUME NEW fd \in Handles \cup {-1},
               pc' = [pc EXCEPT ![w] = "p_read"], loc' = [loc EXCEPT ![w].fd = fd]
        PROVE  WorkersOK'
    <3>1. pc[w] = "p_register"
      BY <1>2 DEF P_Register
    <3> QED BY <1>0, <2>2, <3>1, WorkersSetFd DEF Role, P_PCs, S_PCs, C_PCs, D_PCs, M_PCs, L_PCs, BoxPCs, PubSession,
      SubSession, WorkerPCs
  <2> QED BY <1>2, <2>1, <2>2 DEF P_Register
<1>3. CASE P_Read(w)
  <2>0. pc[w] = "p_read" /\ loc[w].req \in Publishers /\ loc[w].box \in BoxSlots
    BY <1>0, <1>3 DEF P_Read, Role, P_PCs, BoxPCs, PubSession
  <2>1. CASE /\ pipe[loc[w].req] # <<>>
             /\ loc' = [loc EXCEPT ![w].msg = Head(pipe[loc[w].req])]
             /\ \/ Goto(w, "p_write")
                \/ Goto(w, "p_end")
    <3> DEFINE m == Head(pipe[loc[w].req])
    <3>1. m \in Seq(Bytes \ {NUL})
      <4>1. pipe[loc[w].req] \in Seq(Seq(Bytes \ {NUL}))
        BY <2>0 DEF BInv, PipesOK
      <4> QED BY <2>1, <4>1
    <3>2. m \in Seq(Symbols)
      BY <3>1 DEF Symbols
    <3> HIDE DEF m
    <3> DEFINE l == [req |-> loc[w].req, box |-> loc[w].box, fd |-> loc[w].fd, msg |-> m,
                     total_read |-> loc[w].total_read, count |-> loc[w].count]
    <3>3. loc' = [loc EXCEPT ![w] = l]
      BY <1>0, <2>1, SetMsg DEF m
    <3>4. l \in Locals /\ l.req \in Publishers /\ l.box \in BoxSlots /\ l.msg \in Seq(Bytes \ {NUL})
      BY <1>0, <2>0, <3>1, <3>2 DEF Locals
    <3> HIDE DEF l
    <3>5. Role("p_write", l) /\ Role("p_end", l) /\ "p_write" \in WorkerPCs /\ "p_end" \in WorkerPCs
      BY <3>4 DEF Role, P_PCs, S_PCs, C_PCs, D_PCs, M_PCs, L_PCs, BoxPCs, PubSession,
      SubSession, WorkerPCs
    <3> QED BY <1>0, <2>1, <3>3, <3>4, <3>5, Moved DEF Goto
  <2>2. CASE Goto(w, "p_end") /\ UNCHANGED loc
    <3>1. Role("p_end", loc[w]) /\ "p_end" \in WorkerPCs
      BY <2>0 DEF Role, P_PCs, S_PCs, C_PCs, D_PCs, M_PCs, L_PCs, BoxPCs, PubSession,
      SubSession, WorkerPCs
    <3> QED BY <1>0, <2>2, <3>1, Stepped DEF Goto
  <2> QED BY <1>3, <2>1, <2>2 DEF P_Read
<1>4. CASE P_Write(w)
  <2>1. pc[w] = "p_write" /\ UNCHANGED loc /\ (Goto(w, "p_terminate") \/ Goto(w, "p_end"))
    BY <1>4 DEF P_Write
  <2>2. /\ Role("p_terminate", loc[w]) /\ "p_terminate" \in WorkerPCs
        /\ Role("p_end", loc[w]) /\ "p_end" \in WorkerPCs
    BY <1>0, <2>1 DEF Role, P_PCs, S_PCs, C_PCs, D_PCs, M_PCs, L_PCs, BoxPCs, PubSession,
      SubSession, WorkerPCs
  <2> QED BY <1>0, <2>1, <2>2, Stepped DEF Goto
<1>5. CASE P_Terminate(w)
  <2>1. pc[w] = "p_terminate" /\ UNCHANGED loc /\ (Goto(w, "p_broadcast") \/ Goto(w, "p_end"))
    BY <1>5 DEF P_Terminate
  <2>2. /\ Role("p_broadcast", loc[w]) /\ "p_broadcast" \in WorkerPCs
        /\ Role("p_end", loc[w]) /\ "p_end" \in WorkerPCs
    BY <1>0, <2>1 DEF Role, P_PCs, S_PCs, C_PCs, D_PCs, M_PCs, L_PCs, BoxPCs, PubSession,
      SubSession, WorkerPCs
  <2> QED BY <1>0, <2>1, <2>2, Stepped DEF Goto
<1>6. CASE P_Broadcast(w)
  <2>1. pc[w] = "p_broadcast" /\ UNCHANGED loc /\ Broadcast(w, loc[w].box, "p_broadcast", "p_read")
    BY <1>6 DEF P_Broadcast, Broadcast
  <2>2. Role("p_read", loc[w]) /\ "p_read" \in WorkerPCs
    BY <1>0, <2>1 DEF Role, P_PCs, S_PCs, C_PCs, D_PCs, M_PCs, L_PCs, BoxPCs, PubSession,
      SubSession, WorkerPCs
  <2> QED BY <1>0, <2>1, <2>2, Broadcasted
<1>7. CASE P_End(w)
  <2>1. pc[w] = "p_end" /\ UNCHANGED loc /\ Goto(w, "p_close")
    BY <1>7 DEF P_End
  <2>2. Role("p_close", loc[w]) /\ "p_close" \in WorkerPCs
    BY <1>0, <2>1 DEF Role, P_PCs, S_PCs, C_PCs, D_PCs, M_PCs, L_PCs, BoxPCs, PubSession,
      SubSession, WorkerPCs
  <2> QED BY <1>0, <2>1, <2>2, Stepped DEF Goto
<1>8. CASE P_Close(w)
  BY <1>0, <1>8, Idle DEF P_Close, ClosePipeAndReturn
<1> QED BY <1>1, <1>2, <1>3, <1>4, <1>5, <1>6, <1>7, <1>8 DEF PublisherStep

(* The steps of handle_subscriber, and a wakeup without a broadcast.          *)
LEMMA WorkersSubscriber ==
  ASSUME BInv, NEW w \in Workers, SubscriberStep(w) \/ S_SpuriousWakeup(w)
  PROVE  WorkersOK'
<1>0. WorkersOK /\ loc \in [Workers -> Locals] /\ loc[w] \in Locals /\ Role(pc[w], loc[w])
  BY DEF BInv, WorkersOK
<1>1. CASE S_GetBox(w)
  BY <1>0, <1>1, WorkersGetBox DEF S_GetBox, Role, P_PCs, S_PCs, C_PCs, D_PCs, M_PCs, L_PCs, BoxPCs, PubSession,
      SubSession, WorkerPCs
<1>2. CASE S_Register(w)
  <2>1. CASE ClosePipeAndReturn(w)
    BY <1>0, <2>1, Idle DEF ClosePipeAndReturn
  <2>2. ASSUME NEW fd \in Handles \cup {-1},
               pc' = [pc EXCEPT ![w] = "s_loop"], loc' = [loc EXCEPT ![w].fd = fd]
        PROVE  WorkersOK'
    <3>1. pc[w] = "s_register"
      BY <1>2 DEF S_Register
    <3> QED BY <1>0, <2>2, <3>1, WorkersSetFd DEF Role, P_PCs, S_PCs, C_PCs, D_PCs, M_PCs, L_PCs, BoxPCs, PubSession,
      SubSession, WorkerPCs
  <2> QED BY <1>2, <2>1, <2>2 DEF S_Register
<1>3. CASE S_Loop(w) \/ S_Reacquire(w) \/ S_SpuriousWakeup(w) \/ S_Signal(w)
  <2>1. /\ pc[w] \in SubSession /\ UNCHANGED loc
        /\ Goto(w, "s_asleep") \/ Goto(w, "s_read") \/ Goto(w, "s_woken") \/ Goto(w, "s_end")
    BY <1>3 DEF S_Loop, S_Reacquire, S_SpuriousWakeup, S_Signal, SubSession
  <2>2. \A to \in {"s_asleep", "s_read", "s_woken", "s_end"} :
           Role(to, loc[w]) /\ to \in WorkerPCs
    BY <1>0, <2>1 DEF Role, P_PCs, S_PCs, C_PCs, D_PCs, M_PCs, L_PCs, BoxPCs, PubSession,
      SubSession, WorkerPCs
  <2> QED BY <1>0, <2>1, <2>2, Stepped DEF Goto
<1>4. CASE S_Read(w)
  <2>0. pc[w] = "s_read" /\ loc[w].req \in Subscribers /\ loc[w].box \in BoxSlots
    BY <1>0, <1>4 DEF S_Read, Role, S_PCs, BoxPCs, SubSession
  <2>1. CASE Goto(w, "s_end") /\ UNCHANGED loc
    <3>1. Role("s_end", loc[w]) /\ "s_end" \in WorkerPCs
      BY <2>0 DEF Role, P_PCs, S_PCs, C_PCs, D_PCs, M_PCs, L_PCs, BoxPCs, PubSession,
      SubSession, WorkerPCs
    <3> QED BY <1>0, <2>1, <3>1, Stepped DEF Goto
  <2>2. ASSUME NEW byte \in Bytes \cup {Junk, "none"}, Goto(w, "s_read"),
               loc' = [loc EXCEPT ![w].msg = Append(loc[w].msg, byte)]
        PROVE  WorkersOK'
    <3> DEFINE m == Append(loc[w].msg, byte)
    <3>1. m \in Seq(Symbols)
      <4>1. loc[w].msg \in Seq(Symbols) /\ byte \in Symbols
        BY <1>0 DEF Locals, Symbols
      <4> QED BY <4>1
    <3>2. loc' = [loc EXCEPT ![w].msg = m]
      BY <2>2
    <3> HIDE DEF m
    <3> DEFINE l == [req |-> loc[w].req, box |-> loc[w].box, fd |-> loc[w].fd, msg |-> m,
                     total_read |-> loc[w].total_read, count |-> loc[w].count]
    <3>3. loc' = [loc EXCEPT ![w] = l]
      BY <1>0, <3>2, SetMsg
    <3>4. l \in Locals /\ l.req \in Subscribers /\ l.box \in BoxSlots
      BY <1>0, <2>0, <3>1 DEF Locals
    <3> HIDE DEF l
    <3>5. Role("s_read", l) /\ "s_read" \in WorkerPCs
      BY <3>4 DEF Role, P_PCs, S_PCs, C_PCs, D_PCs, M_PCs, L_PCs, BoxPCs, PubSession,
      SubSession, WorkerPCs
    <3> QED BY <1>0, <2>2, <3>3, <3>4, <3>5, Moved DEF Goto
  <2>3. ASSUME NEW byte \in Bytes \cup {Junk, "none"}, Goto(w, "s_send"),
               loc' = [loc EXCEPT ![w].total_read = @ + Len(Append(loc[w].msg, byte))]
        PROVE  WorkersOK'
    <3> DEFINE n == loc[w].total_read + Len(Append(loc[w].msg, byte))
    <3>1. n \in Nat
      <4>1. loc[w].msg \in Seq(Symbols) /\ byte \in Symbols /\ loc[w].total_read \in Nat
        BY <1>0 DEF Locals, Symbols
      <4> QED BY <4>1
    <3>2. loc' = [loc EXCEPT ![w].total_read = n]
      BY <2>3, <1>0
    <3> HIDE DEF n
    <3> DEFINE l == [req |-> loc[w].req, box |-> loc[w].box, fd |-> loc[w].fd, msg |-> loc[w].msg,
                     total_read |-> n, count |-> loc[w].count]
    <3>3. loc' = [loc EXCEPT ![w] = l]
      BY <1>0, <3>2, SetTotalRead
    <3>4. l \in Locals /\ l.req \in Subscribers /\ l.box \in BoxSlots
      BY <1>0, <2>0, <3>1 DEF Locals
    <3> HIDE DEF l
    <3>5. Role("s_send", l) /\ "s_send" \in WorkerPCs
      BY <3>4 DEF Role, P_PCs, S_PCs, C_PCs, D_PCs, M_PCs, L_PCs, BoxPCs, PubSession,
      SubSession, WorkerPCs
    <3> QED BY <1>0, <2>3, <3>3, <3>4, <3>5, Moved DEF Goto
  <2> QED BY <1>4, <2>1, <2>2, <2>3 DEF S_Read
<1>5. CASE S_Send(w)
  <2>0. pc[w] = "s_send" /\ loc[w].req \in Subscribers /\ loc[w].box \in BoxSlots
    BY <1>0, <1>5 DEF S_Send, Role, S_PCs, BoxPCs, SubSession
  <2>1. CASE Goto(w, "s_loop") /\ loc' = [loc EXCEPT ![w].msg = <<>>]
    <3> DEFINE l == [req |-> loc[w].req, box |-> loc[w].box, fd |-> loc[w].fd, msg |-> <<>>,
                     total_read |-> loc[w].total_read, count |-> loc[w].count]
    <3>1. loc' = [loc EXCEPT ![w] = l]
      BY <1>0, <2>1, SetMsg
    <3>2. l \in Locals /\ l.req \in Subscribers /\ l.box \in BoxSlots
      BY <1>0, <2>0 DEF Locals
    <3> HIDE DEF l
    <3>3. Role("s_loop", l) /\ "s_loop" \in WorkerPCs
      BY <3>2 DEF Role, P_PCs, S_PCs, C_PCs, D_PCs, M_PCs, L_PCs, BoxPCs, PubSession,
      SubSession, WorkerPCs
    <3> QED BY <1>0, <2>1, <3>1, <3>2, <3>3, Moved DEF Goto
  <2>2. CASE Goto(w, "s_signal") /\ UNCHANGED loc
    <3>1. Role("s_signal", loc[w]) /\ "s_signal" \in WorkerPCs
      BY <2>0 DEF Role, P_PCs, S_PCs, C_PCs, D_PCs, M_PCs, L_PCs, BoxPCs, PubSession,
      SubSession, WorkerPCs
    <3> QED BY <1>0, <2>2, <3>1, Stepped DEF Goto
  <2> QED BY <1>5, <2>1, <2>2 DEF S_Send
<1>6. CASE S_End(w)
  BY <1>0, <1>6, Idle DEF S_End, ClosePipeAndReturn
<1> QED BY <1>1, <1>2, <1>3, <1>4, <1>5, <1>6 DEF SubscriberStep

(* The steps of handle_manager and handle_list.                               *)
LEMMA WorkersManager ==
  ASSUME BInv, NEW w \in Workers, ManagerStep(w)
  PROVE  WorkersOK'
<1>0. WorkersOK /\ loc \in [Workers -> Locals] /\ loc[w] \in Locals /\ Role(pc[w], loc[w])
  BY DEF BInv, WorkersOK
\* a response, and the rest of the local variables
<1>r. ASSUME NEW to \in WorkerPCs, NEW answer \in {"OK", "ERR"}, Respond(w, to, answer),
             to \notin {"p_write", "p_terminate"}, Role(to, loc[w])
      PROVE  WorkersOK'
  <2> DEFINE m == <<answer>>
  <2>1. m \in Seq(Symbols) /\ loc' = [loc EXCEPT ![w].msg = m]
    BY <1>r DEF Symbols, Respond
  <2> HIDE DEF m
  <2> DEFINE l == [req |-> loc[w].req, box |-> loc[w].box, fd |-> loc[w].fd, msg |-> m,
                   total_read |-> loc[w].total_read, count |-> loc[w].count]
  <2>2. loc' = [loc EXCEPT ![w] = l]
    BY <1>0, <2>1, SetMsg
  <2>3. l \in Locals /\ l.req = loc[w].req /\ l.box = loc[w].box
    BY <1>0, <2>1 DEF Locals
  <2> HIDE DEF l
  <2>4. Role(to, l)
    BY <1>r, <2>3 DEF Role
  <2> QED BY <1>0, <1>r, <2>2, <2>3, <2>4, Moved DEF Respond, Goto
<1>1. CASE C_GetBox(w)
  <2>1. pc[w] = "c_get_box" /\ (Respond(w, "c_tfs_open", "OK") \/ Respond(w, "m_send", "ERR"))
    BY <1>1 DEF C_GetBox
  <2>2. \A to \in {"c_tfs_open", "m_send"} : /\ Role(to, loc[w]) /\ to \in WorkerPCs
                                             /\ to \notin {"p_write", "p_terminate"}
    BY <1>0, <2>1 DEF Role, P_PCs, S_PCs, C_PCs, D_PCs, M_PCs, L_PCs, BoxPCs, PubSession,
      SubSession, WorkerPCs
  <2> QED BY <2>1, <2>2, <1>r
<1>2. CASE C_TfsOpen(w)
  <2>0. pc[w] = "c_tfs_open"
    BY <1>2 DEF C_TfsOpen
  <2>1. CASE Respond(w, "m_send", "ERR")
    <3>1. Role("m_send", loc[w]) /\ "m_send" \in WorkerPCs
      BY <1>0, <2>0 DEF Role, P_PCs, S_PCs, C_PCs, D_PCs, M_PCs, L_PCs, BoxPCs, PubSession,
      SubSession, WorkerPCs
    <3> QED BY <2>1, <3>1, <1>r
  <2>2. ASSUME NEW fd \in Handles, tfs_open(BoxOf[loc[w].req], {"CREAT"}, fd), fd # -1,
               Goto(w, "c_tfs_close"), loc' = [loc EXCEPT ![w].fd = fd]
        PROVE  WorkersOK'
    <3>1. BoxOf[loc[w].req] \in FileNames
      BY <2>2, NameOpened DEF BInv
    <3>2. Role("c_tfs_close", loc[w]) /\ "c_tfs_close" \in WorkerPCs
      BY <1>0, <2>0, <3>1 DEF Role, P_PCs, S_PCs, C_PCs, D_PCs, M_PCs, L_PCs, BoxPCs, PubSession,
      SubSession, WorkerPCs
    <3> QED BY <1>0, <2>2, <3>2, WorkersSetFd DEF Goto
  <2> QED BY <1>2, <2>1, <2>2 DEF C_TfsOpen
<1>3. CASE C_TfsClose(w)
  <2>1. pc[w] = "c_tfs_close" /\ UNCHANGED loc /\ Goto(w, "c_slot")
    BY <1>3 DEF C_TfsClose
  <2>2. Role("c_slot", loc[w]) /\ "c_slot" \in WorkerPCs
    BY <1>0, <2>1 DEF Role, P_PCs, S_PCs, C_PCs, D_PCs, M_PCs, L_PCs, BoxPCs, PubSession,
      SubSession, WorkerPCs
  <2> QED BY <1>0, <2>1, <2>2, Stepped DEF Goto
<1>4. CASE C_Slot(w)
  <2>0. pc[w] = "c_slot"
    BY <1>4 DEF C_Slot
  <2>1. CASE pc' = [pc EXCEPT ![w] = "m_load"] /\ UNCHANGED loc
    <3>1. Role("m_load", loc[w]) /\ "m_load" \in WorkerPCs
      BY <1>0, <2>0 DEF Role, P_PCs, S_PCs, C_PCs, D_PCs, M_PCs, L_PCs, BoxPCs, PubSession,
      SubSession, WorkerPCs
    <3> QED BY <1>0, <2>1, <3>1, Stepped
  <2>2. CASE UnusedSlots # {}
    <3> DEFINE b == First(UnusedSlots)
               l == [req |-> loc[w].req, box |-> b, fd |-> loc[w].fd, msg |-> loc[w].msg,
                     total_read |-> loc[w].total_read, count |-> loc[w].count]
    <3>1. b \in BoxSlots
      BY <2>2, SlotFound DEF BInv
    <3>2. /\ loc' = [loc EXCEPT ![w].box = b]
          /\ pc' = [u \in Workers |->
                      IF u = w THEN "c_used"
                      ELSE IF pc[u] = "s_asleep" /\ loc[u].box = b THEN "s_orphan" ELSE pc[u]]
      BY <1>4, <2>2 DEF C_Slot
    <3> HIDE DEF b
    <3>3. loc' = [loc EXCEPT ![w] = l]
      BY <1>0, <3>2, SetBox
    <3>4. l \in Locals /\ l.req = loc[w].req /\ l.box \in BoxSlots
      BY <1>0, <3>1 DEF Locals
    <3> HIDE DEF l
    <3>5. Role("c_used", l)
      BY <1>0, <2>0, <3>4 DEF Role, P_PCs, S_PCs, C_PCs, D_PCs, M_PCs, L_PCs, BoxPCs, PubSession,
      SubSession, WorkerPCs
    <3>6. /\ pc' \in [Workers -> WorkerPCs] /\ pc'[w] = "c_used"
          /\ \A u \in Workers : u # w => \/ pc'[u] = pc[u]
                                         \/ pc[u] = "s_asleep" /\ pc'[u] \in {"s_woken", "s_orphan"}
      <4>1. "s_orphan" \in WorkerPCs /\ "c_used" \in WorkerPCs
        BY DEF WorkerPCs
      <4> QED BY <1>0, <3>2, <4>1 DEF WorkersOK
    <3>7. Role(pc'[w], l)
      BY <3>5, <3>6
    <3> QED BY <1>0, <3>3, <3>4, <3>6, <3>7, MovedAll
  <2> QED BY <1>4, <2>1, <2>2 DEF C_Slot
<1>5. CASE C_Used(w)
  <2>1. pc[w] = "c_used" /\ UNCHANGED loc /\ Goto(w, "m_load")
    BY <1>5 DEF C_Used
  <2>2. Role("m_load", loc[w]) /\ "m_load" \in WorkerPCs
    BY <1>0, <2>1 DEF Role, P_PCs, S_PCs, C_PCs, D_PCs, M_PCs, L_PCs, BoxPCs, PubSession,
      SubSession, WorkerPCs
  <2> QED BY <1>0, <2>1, <2>2, Stepped DEF Goto
<1>6. CASE D_GetBox(w)
  <2> DEFINE b == get_box(BoxOf[loc[w].req])
             m == <<"OK">>
  <2>1. b # NoBox => b \in BoxSlots
    BY BoxFound DEF BInv
  <2>2. /\ pc[w] = "d_get_box"
        /\ \/ b # NoBox /\ Goto(w, "d_unlink") /\ loc' = [loc EXCEPT ![w].box = b, ![w].msg = m]
           \/ Respond(w, "m_send", "ERR")
    BY <1>6 DEF D_GetBox
  <2>m. m \in Seq(Symbols)
    BY DEF Symbols
  <2> HIDE DEF b, m
  <2>3. CASE b # NoBox /\ Goto(w, "d_unlink") /\ loc' = [loc EXCEPT ![w].box = b, ![w].msg = m]
    <3> DEFINE l == [req |-> loc[w].req, box |-> b, fd |-> loc[w].fd, msg |-> m,
                     total_read |-> loc[w].total_read, count |-> loc[w].count]
    <3>1. loc' = [loc EXCEPT ![w] = l]
      BY <1>0, <2>3, SetBoxMsg
    <3>2. l \in Locals /\ l.req = loc[w].req /\ l.box \in BoxSlots
      BY <1>0, <2>1, <2>3, <2>m DEF Locals
    <3> HIDE DEF l
    <3>3. Role("d_unlink", l) /\ "d_unlink" \in WorkerPCs
      BY <1>0, <2>2, <3>2 DEF Role, P_PCs, S_PCs, C_PCs, D_PCs, M_PCs, L_PCs, BoxPCs, PubSession,
      SubSession, WorkerPCs
    <3> QED BY <1>0, <2>3, <3>1, <3>2, <3>3, Moved DEF Goto
  <2>4. CASE Respond(w, "m_send", "ERR")
    <3>1. Role("m_send", loc[w]) /\ "m_send" \in WorkerPCs
      BY <1>0, <2>2 DEF Role, P_PCs, S_PCs, C_PCs, D_PCs, M_PCs, L_PCs, BoxPCs, PubSession,
      SubSession, WorkerPCs
    <3> QED BY <2>4, <3>1, <1>r
  <2> QED BY <2>2, <2>3, <2>4
<1>7. CASE D_Unlink(w)
  <2>1. /\ pc[w] = "d_unlink"
        /\ Respond(w, "m_send", "ERR") \/ (Goto(w, "d_broadcast") /\ UNCHANGED loc)
    BY <1>7 DEF D_Unlink
  <2>2. \A to \in {"m_send", "d_broadcast"} : /\ Role(to, loc[w]) /\ to \in WorkerPCs
                                              /\ to \notin {"p_write", "p_terminate"}
    BY <1>0, <2>1 DEF Role, P_PCs, S_PCs, C_PCs, D_PCs, M_PCs, L_PCs, BoxPCs, PubSession,
      SubSession, WorkerPCs
  <2>3. CASE Respond(w, "m_send", "ERR")
    BY <2>2, <2>3, <1>r
  <2>4. CASE Goto(w, "d_broadcast") /\ UNCHANGED loc
    BY <1>0, <2>2, <2>4, Stepped DEF Goto
  <2> QED BY <2>1, <2>3, <2>4
<1>8. CASE D_Broadcast(w)
  <2>1. /\ pc[w] = "d_broadcast" /\ UNCHANGED loc
        /\ Broadcast(w, loc[w].box, "d_broadcast", "m_load")
    BY <1>8 DEF D_Broadcast, Broadcast
  <2>2. Role("m_load", loc[w]) /\ "m_load" \in WorkerPCs
    BY <1>0, <2>1 DEF Role, P_PCs, S_PCs, C_PCs, D_PCs, M_PCs, L_PCs, BoxPCs, PubSession,
      SubSession, WorkerPCs
  <2> QED BY <1>0, <2>1, <2>2, Broadcasted
<1>9. CASE M_Load(w)
  <2> DEFINE n == box_count
             l == [req |-> loc[w].req, box |-> loc[w].box, fd |-> loc[w].fd, msg |-> loc[w].msg,
                   total_read |-> loc[w].total_read, count |-> n]
  <2>1. pc[w] = "m_load" /\ Goto(w, "m_store") /\ loc' = [loc EXCEPT ![w].count = n] /\ n \in Int
    BY <1>9 DEF M_Load, BInv, BoxesOK
  <2> HIDE DEF n
  <2>2. loc' = [loc EXCEPT ![w] = l]
    BY <1>0, <2>1, SetCount
  <2>3. l \in Locals /\ l.req = loc[w].req
    BY <1>0, <2>1 DEF Locals
  <2> HIDE DEF l
  <2>4. Role("m_store", l) /\ "m_store" \in WorkerPCs
    BY <1>0, <2>1, <2>3 DEF Role, P_PCs, S_PCs, C_PCs, D_PCs, M_PCs, L_PCs, BoxPCs, PubSession,
      SubSession, WorkerPCs
  <2> QED BY <1>0, <2>1, <2>2, <2>3, <2>4, Moved DEF Goto
<1>10. CASE M_Store(w)
  <2>1. pc[w] = "m_store" /\ UNCHANGED loc /\ Goto(w, "m_send")
    BY <1>10 DEF M_Store
  <2>2. Role("m_send", loc[w]) /\ "m_send" \in WorkerPCs
    BY <1>0, <2>1 DEF Role, P_PCs, S_PCs, C_PCs, D_PCs, M_PCs, L_PCs, BoxPCs, PubSession,
      SubSession, WorkerPCs
  <2> QED BY <1>0, <2>1, <2>2, Stepped DEF Goto
<1>11. CASE M_Send(w)
  BY <1>0, <1>11, Idle DEF M_Send, ClosePipeAndReturn, Goto
<1>12. CASE L_Scan(w) \/ L_Send(w)
  <2>0. /\ pc[w] \in {"l_scan", "l_send"} /\ loc[w].req \in Listers
        /\ loc[w].count \in Int /\ loc[w].total_read \in Nat
    BY <1>0, <1>12 DEF L_Scan, L_Send, Role, L_PCs, Locals
  <2>1. \/ ClosePipeAndReturn(w)
        \/ Goto(w, "l_send") /\ loc' = [loc EXCEPT ![w].count = loc[w].count + 1]
        \/ loc' = [loc EXCEPT ![w].total_read = loc[w].total_read + 1] /\ (UNCHANGED pc \/ Goto(w, "l_scan"))
    BY <1>0, <1>12 DEF L_Scan, L_Send
  <2>2. CASE ClosePipeAndReturn(w)
    BY <1>0, <2>2, Idle DEF ClosePipeAndReturn
  <2>3. CASE Goto(w, "l_send") /\ loc' = [loc EXCEPT ![w].count = loc[w].count + 1]
    <3> DEFINE n == loc[w].count + 1
               l == [req |-> loc[w].req, box |-> loc[w].box, fd |-> loc[w].fd, msg |-> loc[w].msg,
                     total_read |-> loc[w].total_read, count |-> n]
    <3>1. n \in Int /\ loc' = [loc EXCEPT ![w].count = n]
      BY <2>0, <2>3
    <3> HIDE DEF n
    <3>2. loc' = [loc EXCEPT ![w] = l]
      BY <1>0, <3>1, SetCount
    <3>3. l \in Locals /\ l.req \in Listers
      BY <1>0, <2>0, <3>1 DEF Locals
    <3> HIDE DEF l
    <3>4. Role("l_send", l) /\ "l_send" \in WorkerPCs
      BY <3>3 DEF Role, P_PCs, S_PCs, C_PCs, D_PCs, M_PCs, L_PCs, BoxPCs, PubSession,
      SubSession, WorkerPCs
    <3> QED BY <1>0, <2>3, <3>2, <3>3, <3>4, Moved DEF Goto
  <2>4. CASE /\ loc' = [loc EXCEPT ![w].total_read = loc[w].total_read + 1]
             /\ UNCHANGED pc \/ Goto(w, "l_scan")
    <3> DEFINE n == loc[w].total_read + 1
               l == [req |-> loc[w].req, box |-> loc[w].box, fd |-> loc[w].fd, msg |-> loc[w].msg,
                     total_read |-> n, count |-> loc[w].count]
    <3>1. n \in Nat /\ loc' = [loc EXCEPT ![w].total_read = n]
      BY <2>0, <2>4
    <3> HIDE DEF n
    <3>2. loc' = [loc EXCEPT ![w] = l]
      BY <1>0, <3>1, SetTotalRead
    <3>3. l \in Locals /\ l.req \in Listers
      BY <1>0, <2>0, <3>1 DEF Locals
    <3> HIDE DEF l
    <3>4. \A to \in {"l_scan", "l_send"} : Role(to, l) /\ to \in WorkerPCs
      BY <3>3 DEF Role, P_PCs, S_PCs, C_PCs, D_PCs, M_PCs, L_PCs, BoxPCs, PubSession,
      SubSession, WorkerPCs
    <3>5. \E to \in {"l_scan", "l_send"} : pc' = [pc EXCEPT ![w] = to]
      BY <1>0, <2>0, <2>4 DEF Goto, WorkersOK
    <3> QED BY <1>0, <3>2, <3>3, <3>4, <3>5, Moved
  <2> QED BY <2>1, <2>2, <2>3, <2>4
<1> QED BY <1>1, <1>2, <1>3, <1>4, <1>5, <1>6, <1>7, <1>8, <1>9, <1>10, <1>11, <1>12 DEF ManagerStep

(* Every step keeps what the workers' variables hold.                         *)
LEMMA WorkersStep ==
  ASSUME BInv, Next
  PROVE  WorkersOK'
<1>1. CASE UNCHANGED <<pc, loc>>
  BY <1>1 DEF BInv, WorkersOK
<1>2. ASSUME NEW w \in Workers, WorkerStep(w) PROVE WorkersOK'
  <2>1. CASE KilledBySigpipe(w)
    BY <1>1, <2>1 DEF KilledBySigpipe
  <2> QED BY <1>2, <2>1, WorkersRequest, WorkersPublisher, WorkersSubscriber, WorkersManager
       DEF WorkerStep
<1>3. ASSUME NEW w \in Workers, S_SpuriousWakeup(w) PROVE WorkersOK'
  BY <1>3, WorkersSubscriber
<1>4. CASE ~(\E w \in Workers : WorkerStep(w) \/ S_SpuriousWakeup(w))
  <2>1. UNCHANGED <<pc, loc>>
    BY <1>4 DEF Next, Register, PublisherSend, ClientClose, ClientRead, Die, GiveUp, MainLoop, Sigint
  <2> QED BY <2>1, <1>1
<1> QED BY <1>2, <1>3, <1>4

-----------------------------------------------------------------------------
(* The box table *)

\* the fields of a box
BoxType == [name : FileNames \cup {NoName}, n_publishers : Nat, n_subscribers : Nat,
            size : Nat, alloc_state : {"USED", "NOT_USED"}]

(* An assignment to one field of a box leaves the others.                     *)
LEMMA SetPublishers ==
  ASSUME BoxesOK, NEW b \in BoxSlots, NEW v
  PROVE  [boxes EXCEPT ![b].n_publishers = v] =
         [boxes EXCEPT ![b] = [name |-> boxes[b].name, n_publishers |-> v,
            n_subscribers |-> boxes[b].n_subscribers, size |-> boxes[b].size,
            alloc_state |-> boxes[b].alloc_state]]
<1>1. DOMAIN boxes = BoxSlots /\ boxes[b] \in BoxType
  BY DEF BoxesOK, BoxType
<1>2. boxes[b] = [name |-> boxes[b].name, n_publishers |-> boxes[b].n_publishers,
                  n_subscribers |-> boxes[b].n_subscribers, size |-> boxes[b].size,
                  alloc_state |-> boxes[b].alloc_state]
  BY <1>1 DEF BoxType
<1>3. [boxes[b] EXCEPT !.n_publishers = v] =
         [name |-> boxes[b].name, n_publishers |-> v,
          n_subscribers |-> boxes[b].n_subscribers, size |-> boxes[b].size,
          alloc_state |-> boxes[b].alloc_state]
  BY <1>2
<1> QED BY <1>1, <1>3

(* The same for n_subscribers. *)
LEMMA SetSubscribers ==
  ASSUME BoxesOK, NEW b \in BoxSlots, NEW v
  PROVE  [boxes EXCEPT ![b].n_subscribers = v] =
         [boxes EXCEPT ![b] = [name |-> boxes[b].name, n_publishers |-> boxes[b].n_publishers,
            n_subscribers |-> v, size |-> boxes[b].size,
            alloc_state |-> boxes[b].alloc_state]]
<1>1. DOMAIN boxes = BoxSlots /\ boxes[b] \in BoxType
  BY DEF BoxesOK, BoxType
<1>2. boxes[b] = [name |-> boxes[b].name, n_publishers |-> boxes[b].n_publishers,
                  n_subscribers |-> boxes[b].n_subscribers, size |-> boxes[b].size,
                  alloc_state |-> boxes[b].alloc_state]
  BY <1>1 DEF BoxType
<1>3. [boxes[b] EXCEPT !.n_subscribers = v] =
         [name |-> boxes[b].name, n_publishers |-> boxes[b].n_publishers,
          n_subscribers |-> v, size |-> boxes[b].size,
          alloc_state |-> boxes[b].alloc_state]
  BY <1>2
<1> QED BY <1>1, <1>3

(* The same for size. *)
LEMMA SetSize ==
  ASSUME BoxesOK, NEW b \in BoxSlots, NEW v
  PROVE  [boxes EXCEPT ![b].size = v] =
         [boxes EXCEPT ![b] = [name |-> boxes[b].name, n_publishers |-> boxes[b].n_publishers,
            n_subscribers |-> boxes[b].n_subscribers, size |-> v,
            alloc_state |-> boxes[b].alloc_state]]
<1>1. DOMAIN boxes = BoxSlots /\ boxes[b] \in BoxType
  BY DEF BoxesOK, BoxType
<1>2. boxes[b] = [name |-> boxes[b].name, n_publishers |-> boxes[b].n_publishers,
                  n_subscribers |-> boxes[b].n_subscribers, size |-> boxes[b].size,
                  alloc_state |-> boxes[b].alloc_state]
  BY <1>1 DEF BoxType
<1>3. [boxes[b] EXCEPT !.size = v] =
         [name |-> boxes[b].name, n_publishers |-> boxes[b].n_publishers,
          n_subscribers |-> boxes[b].n_subscribers, size |-> v,
          alloc_state |-> boxes[b].alloc_state]
  BY <1>2
<1> QED BY <1>1, <1>3

(* The same for alloc_state. *)
LEMMA SetAllocState ==
  ASSUME BoxesOK, NEW b \in BoxSlots, NEW v
  PROVE  [boxes EXCEPT ![b].alloc_state = v] =
         [boxes EXCEPT ![b] = [name |-> boxes[b].name, n_publishers |-> boxes[b].n_publishers,
            n_subscribers |-> boxes[b].n_subscribers, size |-> boxes[b].size,
            alloc_state |-> v]]
<1>1. DOMAIN boxes = BoxSlots /\ boxes[b] \in BoxType
  BY DEF BoxesOK, BoxType
<1>2. boxes[b] = [name |-> boxes[b].name, n_publishers |-> boxes[b].n_publishers,
                  n_subscribers |-> boxes[b].n_subscribers, size |-> boxes[b].size,
                  alloc_state |-> boxes[b].alloc_state]
  BY <1>1 DEF BoxType
<1>3. [boxes[b] EXCEPT !.alloc_state = v] =
         [name |-> boxes[b].name, n_publishers |-> boxes[b].n_publishers,
          n_subscribers |-> boxes[b].n_subscribers, size |-> boxes[b].size,
          alloc_state |-> v]
  BY <1>2
<1> QED BY <1>1, <1>3

(* A table in which one box is replaced has its type.                         *)
LEMMA BoxReplaced ==
  ASSUME BoxesOK, NEW b \in BoxSlots, NEW x \in BoxType, boxes' = [boxes EXCEPT ![b] = x]
  PROVE  boxes' \in [BoxSlots -> BoxType]
  BY DEF BoxesOK, BoxType

(* The unsigned decrement of a counter stays a number.                        *)
LEMMA DecrementNat ==
  ASSUME NEW n \in Nat
  PROVE  /\ Decrement(n) \in Nat
         /\ n \in 1..Cardinality(Workers) => Decrement(n) = n - 1
<1>1. SizeModulus \in Nat \ {0} /\ Cardinality(Workers) \in Nat
  BY SizesAssumption, BlockBelowModulus, WorkersAssumption, FS_CardinalityType
<1>2. (n - 1) % SizeModulus \in Nat
  BY <1>1
<1>3. n \in 1..Cardinality(Workers) => (n - 1) % SizeModulus = n - 1
  BY <1>1, WorkersAssumption
<1> QED BY <1>2, <1>3 DEF Decrement

(* Every step keeps the types of the box table and of its locks.              *)
LEMMA BoxesStep ==
  ASSUME BInv, Next
  PROVE  BoxesOK'
<1>0. /\ BoxesOK /\ WorkersOK /\ boxes \in [BoxSlots -> BoxType]
      /\ mutex \in [BoxSlots -> Workers \cup {Nobody}]
      /\ boxes_lock \in Workers \cup {Nobody} /\ box_count \in Int
  BY DEF BInv, BoxesOK, BoxType
<1>1. CASE UNCHANGED table
  BY <1>0, <1>1 DEF BoxesOK, BoxType, table
<1>2. ASSUME NEW w \in Workers, WorkerStep(w) PROVE BoxesOK'
  <2>0. /\ loc[w] \in Locals /\ Role(pc[w], loc[w]) /\ loc[w].count \in Int
        /\ loc[w].msg \in Seq(Symbols)
    BY <1>0 DEF WorkersOK, Locals
  <2>1. box_count' \in Int
    <3>1. CASE M_Store(w)
      BY <2>0, <3>1 DEF M_Store
    <3>2. CASE ~M_Store(w)
      BY <1>0, <1>2, <3>2 DEF WorkerStep, RequestsHandler, PublisherStep, SubscriberStep, ManagerStep,
        KilledBySigpipe, P_GetBox, GetBox, P_Register, P_Read, P_Write, P_Terminate, P_Broadcast,
        P_End, P_Close, S_GetBox, S_Register, S_Loop, S_Reacquire, S_Read, S_Send, S_Signal, S_End,
        C_GetBox, C_TfsOpen, C_TfsClose, C_Slot, C_Used, D_GetBox, D_Unlink, D_Broadcast, M_Load,
        M_Send, L_Scan, L_Send, table
    <3> QED BY <3>1, <3>2
  <2>2. mutex' \in [BoxSlots -> Workers \cup {Nobody}] /\ boxes_lock' \in Workers \cup {Nobody}
    BY <1>0, <1>2 DEF WorkerStep, RequestsHandler, PublisherStep, SubscriberStep, ManagerStep,
      KilledBySigpipe, P_GetBox, GetBox, P_Register, P_Read, P_Write, P_Terminate, P_Broadcast,
      P_End, P_Close, S_GetBox, S_Register, S_Loop, S_Reacquire, S_Read, S_Send, S_Signal, S_End,
      C_GetBox, C_TfsOpen, C_TfsClose, C_Slot, C_Used, D_GetBox, D_Unlink, D_Broadcast, M_Load, M_Store,
      M_Send, L_Scan, L_Send, table, Lock, Unlock
  <2>3. boxes' \in [BoxSlots -> BoxType]
    <3>1. CASE UNCHANGED boxes
      BY <1>0, <3>1
    <3>2. CASE P_Register(w) \/ P_End(w)
      <4>1. loc[w].box \in BoxSlots
        BY <2>0, <3>2 DEF P_Register, P_End, Role, BoxPCs, PubSession
      <4>2. ASSUME NEW v \in Nat, boxes' = [boxes EXCEPT ![loc[w].box].n_publishers = v]
            PROVE  boxes' \in [BoxSlots -> BoxType]
        BY <1>0, <4>1, <4>2, SetPublishers, BoxReplaced DEF BoxType
      <4>3. boxes[loc[w].box].n_publishers \in Nat
        BY <1>0, <4>1 DEF BoxType
      <4>4. /\ boxes[loc[w].box].n_publishers + 1 \in Nat
            /\ Decrement(boxes[loc[w].box].n_publishers) \in Nat
        BY <4>3, DecrementNat
      <4>5. \/ UNCHANGED boxes
            \/ boxes' = [boxes EXCEPT ![loc[w].box].n_publishers = boxes[loc[w].box].n_publishers + 1]
            \/ boxes' = [boxes EXCEPT ![loc[w].box].n_publishers =
                                                   Decrement(boxes[loc[w].box].n_publishers)]
        BY <1>0, <3>2, <4>1 DEF P_Register, P_End
      <4> QED BY <3>1, <4>2, <4>4, <4>5
    <3>3. CASE S_Register(w) \/ S_End(w)
      <4>1. loc[w].box \in BoxSlots
        BY <2>0, <3>3 DEF S_Register, S_End, Role, BoxPCs, SubSession
      <4>2. ASSUME NEW v \in Nat, boxes' = [boxes EXCEPT ![loc[w].box].n_subscribers = v]
            PROVE  boxes' \in [BoxSlots -> BoxType]
        BY <1>0, <4>1, <4>2, SetSubscribers, BoxReplaced DEF BoxType
      <4>3. boxes[loc[w].box].n_subscribers \in Nat
        BY <1>0, <4>1 DEF BoxType
      <4>4. /\ boxes[loc[w].box].n_subscribers + 1 \in Nat
            /\ Decrement(boxes[loc[w].box].n_subscribers) \in Nat
        BY <4>3, DecrementNat
      <4>5. \/ UNCHANGED boxes
            \/ boxes' = [boxes EXCEPT ![loc[w].box].n_subscribers = boxes[loc[w].box].n_subscribers + 1]
            \/ boxes' = [boxes EXCEPT ![loc[w].box].n_subscribers =
                                                   Decrement(boxes[loc[w].box].n_subscribers)]
        BY <1>0, <3>3, <4>1 DEF S_Register, S_End
      <4> QED BY <3>1, <4>2, <4>4, <4>5
    <3>4. CASE P_Terminate(w)
      <4>1. loc[w].box \in BoxSlots
        BY <2>0, <3>4 DEF P_Terminate, Role, BoxPCs, PubSession
      <4>2. boxes[loc[w].box].size + Len(loc[w].msg) + 1 \in Nat
        <5>1. boxes[loc[w].box].size \in Nat
          BY <1>0, <4>1 DEF BoxType
        <5> QED BY <5>1, <2>0
      <4>3. \/ UNCHANGED boxes
            \/ boxes' = [boxes EXCEPT ![loc[w].box].size =
                                           boxes[loc[w].box].size + Len(loc[w].msg) + 1]
        BY <1>0, <3>4, <4>1 DEF P_Terminate
      <4>4. ASSUME NEW v \in Nat, boxes' = [boxes EXCEPT ![loc[w].box].size = v]
            PROVE  boxes' \in [BoxSlots -> BoxType]
        BY <1>0, <4>1, <4>4, SetSize, BoxReplaced DEF BoxType
      <4> QED BY <3>1, <4>2, <4>3, <4>4
    <3>5. CASE C_Used(w) \/ D_Unlink(w)
      <4>1. loc[w].box \in BoxSlots
        BY <2>0, <3>5 DEF C_Used, D_Unlink, Role, BoxPCs
      <4>2. \/ UNCHANGED boxes
            \/ \E v \in {"USED", "NOT_USED"} : boxes' = [boxes EXCEPT ![loc[w].box].alloc_state = v]
        BY <3>5 DEF C_Used, D_Unlink
      <4>3. ASSUME NEW v \in {"USED", "NOT_USED"},
                   boxes' = [boxes EXCEPT ![loc[w].box].alloc_state = v]
            PROVE  boxes' \in [BoxSlots -> BoxType]
        BY <1>0, <4>1, <4>3, SetAllocState, BoxReplaced DEF BoxType
      <4> QED BY <3>1, <4>2, <4>3
    <3>6. CASE C_Slot(w)
      <4>1. BoxOf[loc[w].req] \in FileNames
        BY <2>0, <3>6 DEF C_Slot, Role
      <4>2. ASSUME UnusedSlots # {}, boxes' = [boxes EXCEPT ![First(UnusedSlots)] =
                           [EmptyBox(BoxOf[loc[w].req]) EXCEPT !.alloc_state = "NOT_USED"]]
            PROVE  boxes' \in [BoxSlots -> BoxType]
        <5>1. First(UnusedSlots) \in BoxSlots
          BY <1>0, <4>2, SlotFound
        <5>2. [EmptyBox(BoxOf[loc[w].req]) EXCEPT !.alloc_state = "NOT_USED"] \in BoxType
          BY <4>1 DEF EmptyBox, BoxType
        <5> QED BY <1>0, <4>2, <5>1, <5>2
      <4> QED BY <3>1, <3>6, <4>2 DEF C_Slot
    <3> QED BY <1>2, <3>1, <3>2, <3>3, <3>4, <3>5, <3>6 DEF WorkerStep, RequestsHandler, PublisherStep,
      SubscriberStep, ManagerStep, KilledBySigpipe, P_GetBox, GetBox, P_Read, P_Write, P_Broadcast,
      P_Close, S_GetBox, S_Loop, S_Reacquire, S_Read, S_Send, S_Signal, C_GetBox, C_TfsOpen,
      C_TfsClose, D_GetBox, D_Broadcast, M_Load, M_Store, M_Send, L_Scan, L_Send, table
  <2> QED BY <2>1, <2>2, <2>3 DEF BoxesOK, BoxType
<1>3. CASE ~(\E w \in Workers : WorkerStep(w))
  <2>1. UNCHANGED table
    BY <1>3 DEF Next, Register, PublisherSend, ClientClose, ClientRead, Die, GiveUp, MainLoop, Sigint,
      S_SpuriousWakeup
  <2> QED BY <2>1, <1>1
<1> QED BY <1>2, <1>3

-----------------------------------------------------------------------------
(* The requests and the pipes *)

(* Main never queues more than max_sessions requests.                         *)
LEMMA RequestsStep ==
  ASSUME BInv, Next
  PROVE  RequestsOK'
<1>0. RequestsOK /\ Cardinality(Workers) \in Nat
  BY WorkersAssumption, FS_CardinalityType DEF BInv
<1>1. CASE UNCHANGED <<registration_pipe, requests_queue, main_req>>
  BY <1>0, <1>1 DEF RequestsOK
<1>2. ASSUME NEW c \in Clients, Register(c) PROVE RequestsOK'
  BY <1>0, <1>2 DEF RequestsOK, Register
<1>3. ASSUME NEW c \in Clients, pcq_enqueue(c)
      PROVE  /\ requests_queue' \in Seq(Clients) /\ Len(requests_queue') <= Cardinality(Workers)
             /\ main_req' \in Clients \cup {Nobody}
  <2>0. /\ requests_queue \in Seq(Clients) /\ Len(requests_queue) <= Cardinality(Workers)
        /\ Len(requests_queue) \in Nat
    BY <1>0 DEF RequestsOK
  <2>1. CASE Len(requests_queue) < Cardinality(Workers) /\ requests_queue' = Append(requests_queue, c)
    <3>1. requests_queue' \in Seq(Clients) /\ Len(requests_queue') = Len(requests_queue) + 1
      BY <2>0, <2>1
    <3>2. main_req' \in Clients \cup {Nobody}
      BY <1>3 DEF pcq_enqueue
    <3> QED BY <1>0, <2>0, <2>1, <3>1, <3>2
  <2>2. CASE main_req' = c /\ UNCHANGED requests_queue
    BY <2>0, <2>2
  <2> QED BY <1>3, <2>1, <2>2 DEF pcq_enqueue
<1>4. CASE MainLoop
  <2>1. CASE MainRead
    <3>1. registration_pipe' \in Seq(Clients) /\ Head(registration_pipe) \in Clients
      BY <1>0, <2>1 DEF MainRead, RequestsOK
    <3>2. \/ pcq_enqueue(Head(registration_pipe))
          \/ UNCHANGED <<requests_queue, main_req>>
      BY <2>1 DEF MainRead
    <3> QED BY <1>0, <1>3, <3>1, <3>2 DEF RequestsOK
  <2>2. CASE MainResumes
    <3>1. main_req \in Clients /\ pcq_enqueue(main_req) /\ UNCHANGED registration_pipe
      BY <1>0, <2>2 DEF MainResumes, RequestsOK
    <3> QED BY <1>0, <1>3, <3>1 DEF RequestsOK
  <2> QED BY <1>4, <2>1, <2>2 DEF MainLoop
<1>5. ASSUME NEW w \in Workers, RequestsHandler(w) PROVE RequestsOK'
  <2>1. /\ requests_queue # <<>> /\ requests_queue' = Tail(requests_queue)
        /\ UNCHANGED <<registration_pipe, main_req>>
    BY <1>5 DEF RequestsHandler
  <2>2. requests_queue' \in Seq(Clients) /\ Len(requests_queue') = Len(requests_queue) - 1
    BY <1>0, <2>1 DEF RequestsOK
  <2> QED BY <1>0, <2>1, <2>2 DEF RequestsOK
<1>6. ASSUME NEW w \in Workers, WorkerStep(w), ~RequestsHandler(w) PROVE RequestsOK'
  <2>1. UNCHANGED requests
    BY <1>6 DEF WorkerStep, PublisherStep, SubscriberStep, ManagerStep,
      KilledBySigpipe, P_GetBox, GetBox, P_Register, P_Read, P_Write, P_Terminate, P_Broadcast,
      P_End, P_Close, S_GetBox, S_Register, S_Loop, S_Reacquire, S_Read, S_Send, S_Signal, S_End,
      C_GetBox, C_TfsOpen, C_TfsClose, C_Slot, C_Used, D_GetBox, D_Unlink, D_Broadcast, M_Load,
      M_Store, M_Send, L_Scan, L_Send, process, requests
  <2> QED BY <2>1, <1>1 DEF requests
<1>7. CASE ~(\E w \in Workers : WorkerStep(w)) /\ ~(\E c \in Clients : Register(c)) /\ ~MainLoop
  <2>1. UNCHANGED <<registration_pipe, requests_queue, main_req>>
    BY <1>7 DEF Next, PublisherSend, ClientClose, ClientRead, Die, GiveUp, Sigint,
      S_SpuriousWakeup, process, requests
  <2> QED BY <2>1, <1>1
<1> QED BY <1>2, <1>4, <1>5, <1>6, <1>7

(* The ends of a client's pipe, and that a publisher's holds messages.        *)
LEMMA PipesStep ==
  ASSUME BInv, Next
  PROVE  PipesOK'
<1>0. /\ PipesOK /\ WorkersOK /\ RequestsOK
      /\ client \in [Clients -> {"new", "opening", "dead", "removed", "open", "closed", "eof"}]
      /\ broker_end \in [Clients -> {"none", "open", "closed"}]
      /\ DOMAIN pipe = Clients
      /\ sent \in [Publishers -> Nat]
      /\ \A c \in Publishers : pipe[c] \in Seq(Seq(Bytes \ {NUL}))
      /\ Publishers \subseteq Clients
  BY DEF BInv, PipesOK, Clients
<1>1. CASE UNCHANGED pipes
  BY <1>0, <1>1 DEF PipesOK, pipes
\* a pipe that is not a publisher's
<1>p. ASSUME NEW c \in Clients \ Publishers, NEW v, pipe' = [pipe EXCEPT ![c] = v]
      PROVE  DOMAIN pipe' = Clients /\ \A d \in Publishers : pipe'[d] \in Seq(Seq(Bytes \ {NUL}))
  BY <1>0, <1>p
<1>2. ASSUME NEW c \in Clients, Register(c) \/ ClientClose(c) \/ Die(c) \/ GiveUp(c) PROVE PipesOK'
  BY <1>0, <1>2 DEF PipesOK, Register, ClientClose, Die, GiveUp, SetClient
<1>3. ASSUME NEW c \in Publishers, PublisherSend(c) PROVE PipesOK'
  <2>1. Script[c] \in Seq(Seq(Bytes \ {NUL})) /\ sent[c] \in Nat /\ sent[c] < Len(Script[c])
    BY <1>0, <1>3, BrokerAssumption DEF PublisherSend
  <2>2. Script[c][sent[c] + 1] \in Seq(Bytes \ {NUL})
    BY <2>1
  <2>3. Append(pipe[c], Script[c][sent[c] + 1]) \in Seq(Seq(Bytes \ {NUL}))
    BY <1>0, <2>2
  <2>4. CASE pipe' = [pipe EXCEPT ![c] = Append(@, Script[c][sent[c] + 1])]
    <3>1. DOMAIN pipe' = Clients /\ \A d \in Publishers : pipe'[d] \in Seq(Seq(Bytes \ {NUL}))
      BY <1>0, <2>3, <2>4
    <3>2. sent' \in [Publishers -> Nat]
      <4>1. sent' = [sent EXCEPT ![c] = sent[c] + 1] \/ UNCHANGED sent
        BY <1>0, <1>3 DEF PublisherSend
      <4>2. sent[c] + 1 \in Nat
        BY <2>1
      <4> QED BY <1>0, <4>1, <4>2
    <3>3. UNCHANGED broker_end /\ client' \in [Clients -> {"new", "opening", "dead", "removed",
                                                           "open", "closed", "eof"}]
      BY <1>0, <1>3 DEF PublisherSend, SetClient
    <3> QED BY <1>0, <3>1, <3>2, <3>3 DEF PipesOK
  <2>5. CASE UNCHANGED <<pipe, sent>>
    <3>1. UNCHANGED broker_end /\ client' \in [Clients -> {"new", "opening", "dead", "removed",
                                                           "open", "closed", "eof"}]
      BY <1>0, <1>3 DEF PublisherSend, SetClient
    <3> QED BY <1>0, <2>5, <3>1 DEF PipesOK
  <2> QED BY <1>3, <2>4, <2>5 DEF PublisherSend
<1>4. ASSUME NEW c \in Clients \ Publishers, ClientRead(c) PROVE PipesOK'
  <2>1. /\ client' \in [Clients -> {"new", "opening", "dead", "removed", "open", "closed", "eof"}]
        /\ UNCHANGED <<broker_end, sent>>
    BY <1>0, <1>4 DEF ClientRead, SetClient
  <2>2. pipe' = [pipe EXCEPT ![c] = Tail(@)] \/ UNCHANGED pipe
    BY <1>4 DEF ClientRead
  <2>3. DOMAIN pipe' = Clients /\ \A d \in Publishers : pipe'[d] \in Seq(Seq(Bytes \ {NUL}))
    BY <1>0, <1>p, <2>2
  <2> QED BY <1>0, <2>1, <2>3 DEF PipesOK
<1>5. ASSUME NEW w \in Workers, WorkerStep(w) PROVE PipesOK'
  <2>0. Role(pc[w], loc[w])
    BY <1>0 DEF WorkersOK
  <2>1. CASE RequestsHandler(w)
    <3>1. Head(requests_queue) \in Clients
      BY <1>0, <2>1 DEF RequestsHandler, RequestsOK
    <3>2. /\ client' \in [Clients -> {"new", "opening", "dead", "removed", "open", "closed", "eof"}]
          /\ broker_end' \in [Clients -> {"none", "open", "closed"}]
          /\ UNCHANGED <<pipe, sent>>
      BY <1>0, <2>1, <3>1 DEF RequestsHandler, SetClient
    <3> QED BY <1>0, <3>2 DEF PipesOK
  <2>2. ~RequestsHandler(w) => /\ UNCHANGED <<client, sent>>
                               /\ UNCHANGED broker_end \/ ClosePipeAndReturn(w)
    BY <1>5 DEF WorkerStep, PublisherStep, SubscriberStep, ManagerStep,
      KilledBySigpipe, P_GetBox, GetBox, P_Register, P_Read, P_Write, P_Terminate, P_Broadcast,
      P_End, P_Close, S_GetBox, S_Register, S_Loop, S_Reacquire, S_Read, S_Send, S_Signal, S_End,
      C_GetBox, C_TfsOpen, C_TfsClose, C_Slot, C_Used, D_GetBox, D_Unlink, D_Broadcast, M_Load,
      M_Store, M_Send, L_Scan, L_Send, pipes, ClosePipeAndReturn
  <2>3. ~RequestsHandler(w) => /\ client' \in [Clients -> {"new", "opening", "dead", "removed",
                                                           "open", "closed", "eof"}]
                               /\ broker_end' \in [Clients -> {"none", "open", "closed"}]
                               /\ sent' \in [Publishers -> Nat]
    BY <1>0, <2>2 DEF ClosePipeAndReturn
  <2>4. CASE UNCHANGED pipe /\ ~RequestsHandler(w)
    BY <1>0, <2>3, <2>4 DEF PipesOK
  <2>5. CASE P_Read(w)
    <3>1. loc[w].req \in Publishers /\ ~RequestsHandler(w)
      BY <2>0, <2>5 DEF P_Read, RequestsHandler, Role, P_PCs, PubSession
    <3>2. \/ pipe[loc[w].req] # <<>> /\ pipe' = [pipe EXCEPT ![loc[w].req] = Tail(@)]
          \/ UNCHANGED pipe
      BY <2>5 DEF P_Read
    <3>3. pipe[loc[w].req] # <<>> => Tail(pipe[loc[w].req]) \in Seq(Seq(Bytes \ {NUL}))
      BY <1>0, <3>1
    <3>4. DOMAIN pipe' = Clients /\ \A d \in Publishers : pipe'[d] \in Seq(Seq(Bytes \ {NUL}))
      BY <1>0, <3>2, <3>3
    <3> QED BY <2>3, <3>1, <3>4 DEF PipesOK
  <2>6. CASE P_Close(w)
    <3>1. /\ ~RequestsHandler(w)
          /\ pipe' = [pipe EXCEPT ![loc[w].req] = <<>>]
      BY <2>6 DEF P_Close, RequestsHandler
    <3>2. DOMAIN pipe' = Clients /\ \A d \in Publishers : pipe'[d] \in Seq(Seq(Bytes \ {NUL}))
      BY <1>0, <3>1
    <3> QED BY <2>3, <3>1, <3>2 DEF PipesOK
  <2>7. CASE S_Send(w) \/ M_Send(w) \/ L_Send(w)
    <3>1. loc[w].req \in Subscribers \cup Creators \cup Deleters \cup Listers /\ ~RequestsHandler(w)
      BY <2>0, <2>7 DEF S_Send, M_Send, L_Send, RequestsHandler, Role, S_PCs, M_PCs, L_PCs, SubSession
    <3>2. loc[w].req \in Clients \ Publishers
      BY <3>1, ClientsAssumption DEF Clients
    <3>3. (\E v : pipe' = [pipe EXCEPT ![loc[w].req] = v]) \/ UNCHANGED pipe
      BY <2>7 DEF S_Send, M_Send, L_Send, pipes
    <3>4. DOMAIN pipe' = Clients /\ \A d \in Publishers : pipe'[d] \in Seq(Seq(Bytes \ {NUL}))
      BY <1>0, <1>p, <3>2, <3>3
    <3> QED BY <2>3, <3>1, <3>4 DEF PipesOK
  <2>8. ~(P_Read(w) \/ P_Close(w) \/ S_Send(w) \/ M_Send(w) \/ L_Send(w)) => UNCHANGED pipe
    BY <1>5 DEF WorkerStep, RequestsHandler, PublisherStep, SubscriberStep, ManagerStep,
      KilledBySigpipe, P_GetBox, GetBox, P_Register, P_Write, P_Terminate, P_Broadcast,
      P_End, S_GetBox, S_Register, S_Loop, S_Reacquire, S_Read, S_Signal, S_End, C_GetBox, C_TfsOpen,
      C_TfsClose, C_Slot, C_Used, D_GetBox, D_Unlink, D_Broadcast, M_Load, M_Store, L_Scan, pipes
  <2> QED BY <2>1, <2>4, <2>5, <2>6, <2>7, <2>8
<1>6. CASE MainLoop \/ Sigint \/ \E w \in Workers : S_SpuriousWakeup(w)
  <2>1. UNCHANGED pipes
    BY <1>6 DEF MainLoop, Sigint, S_SpuriousWakeup
  <2> QED BY <2>1, <1>1
<1> QED BY <1>2, <1>3, <1>4, <1>5, <1>6, <1>0, BrokerAssumption DEF Next, Clients

-----------------------------------------------------------------------------
(* The file system below the broker *)

(* Every tfs_* call of the broker keeps the tables of the file system         *)
(* consistent.                                                                *)
LEMMA FilesStep ==
  ASSUME BInv, Next
  PROVE  FsInv'
<1>0. FsInv /\ WorkersOK
  BY DEF BInv
<1>1. CASE UNCHANGED fs
  BY <1>0, <1>1 DEF fs, FsInv, TablesTyped, BlocksOwned, DirectoryConsistent, RootKept, Live
<1>2. ASSUME NEW why, Dies(why) PROVE FsInv'
  BY <1>0, <1>2 DEF Dies, FsInv, TablesTyped, BlocksOwned, DirectoryConsistent, RootKept, Live
<1>3. ASSUME NEW w \in Workers, WorkerStep(w) PROVE FsInv'
  <2>0. loc[w] \in Locals /\ Role(pc[w], loc[w])
    BY <1>0 DEF WorkersOK
  <2>1. CASE P_Register(w) \/ S_Register(w) \/ C_TfsOpen(w)
    <3>1. UNCHANGED fs \/ \E name, mode, ret : tfs_open(name, mode, ret)
      BY <2>1 DEF P_Register, S_Register, C_TfsOpen
    <3> QED BY <1>0, <1>1, <3>1, OpenInv
  <2>2. CASE P_Close(w) \/ S_End(w) \/ C_TfsClose(w)
    <3>1. \E ret : tfs_close(loc[w].fd, ret)
      BY <2>2 DEF P_Close, S_End, C_TfsClose
    <3> QED BY <1>0, <3>1, CloseInv
  <2>3. CASE D_Unlink(w)
    BY <1>0, <2>3, UnlinkInv DEF D_Unlink
  <2>4. ASSUME NEW data \in Seq(Bytes), NEW ret, tfs_write(loc[w].fd, data, ret) PROVE FsInv'
    <3>1. CASE loc[w].fd \in Handles
      BY <1>0, <2>4, <3>1, WriteInv
    <3>2. CASE loc[w].fd \notin Handles
      <4>1. UNCHANGED fs
        BY <2>4, <3>2 DEF tfs_write, IsOpenHandle
      <4> QED BY <4>1, <1>1
    <3> QED BY <3>1, <3>2
  <2>5. CASE P_Write(w)
    <3>1. loc[w].msg \in Seq(Bytes)
      <4>1. loc[w].msg \in Seq(Bytes \ {NUL})
        BY <2>0, <2>5 DEF P_Write, Role
      <4> QED BY <4>1
    <3> QED BY <2>4, <2>5, <3>1 DEF P_Write
  <2>6. CASE P_Terminate(w)
    <3>1. <<NUL>> \in Seq(Bytes)
      BY BrokerAssumption
    <3> QED BY <2>4, <2>6, <3>1 DEF P_Terminate
  <2>7. CASE S_Read(w)
    <3>1. PICK ret, buffer : tfs_read(loc[w].fd, 1, ret, buffer)
      BY <2>7 DEF S_Read
    <3>2. CASE loc[w].fd \in Handles
      <4> DEFINE len == 1
      <4>1. len \in Nat /\ tfs_read(loc[w].fd, len, ret, buffer)
        BY <3>1
      <4> HIDE DEF len
      <4> QED BY <1>0, <3>2, <4>1, ReadInv
    <3>3. CASE loc[w].fd \notin Handles
      <4>1. UNCHANGED fs
        BY <3>1, <3>3 DEF tfs_read, IsOpenHandle
      <4> QED BY <4>1, <1>1
    <3> QED BY <3>2, <3>3
  <2>8. CASE KilledBySigpipe(w)
    BY <1>2, <2>8 DEF KilledBySigpipe
  <2>9. CASE ~(\/ P_Register(w) \/ S_Register(w) \/ C_TfsOpen(w) \/ P_Close(w) \/ S_End(w)
               \/ C_TfsClose(w) \/ D_Unlink(w) \/ P_Write(w) \/ P_Terminate(w) \/ S_Read(w)
               \/ KilledBySigpipe(w))
    <3>1. UNCHANGED fs
      BY <1>3, <2>9 DEF WorkerStep, RequestsHandler, PublisherStep, SubscriberStep, ManagerStep,
        P_GetBox, GetBox, P_Read, P_Broadcast, P_End, S_GetBox, S_Loop, S_Reacquire, S_Send, S_Signal,
        C_GetBox, C_Slot, C_Used, D_GetBox, D_Broadcast, M_Load, M_Store, M_Send, L_Scan, L_Send
    <3> QED BY <3>1, <1>1
  <2> QED BY <2>1, <2>2, <2>3, <2>5, <2>6, <2>7, <2>8, <2>9
<1>4. CASE MainLoop \/ Sigint
  <2>1. UNCHANGED fs \/ \E why : Dies(why)
    BY <1>4 DEF MainLoop, MainRead, MainResumes, Sigint
  <2> QED BY <2>1, <1>1, <1>2
<1>5. CASE ~(\E w \in Workers : WorkerStep(w)) /\ ~MainLoop /\ ~Sigint
  <2>1. UNCHANGED fs
    BY <1>5 DEF Next, Register, PublisherSend, ClientClose, ClientRead, Die, GiveUp, S_SpuriousWakeup
  <2> QED BY <2>1, <1>1
<1> QED BY <1>3, <1>4, <1>5

(* init_mbroker and the creation of the initial boxes.                        *)
LEMMA BInvInit == Init => BInv
<1> SUFFICES ASSUME Init PROVE BInv
  OBVIOUS
<1>1. FsInv
  BY BrokerAssumption, InitTables DEF Init
<1>2. WorkersOK
  <2>1. NoLocals \in Locals
    BY DEF NoLocals, Locals
  <2>2. "idle" \in WorkerPCs /\ Role("idle", NoLocals)
    BY DEF Role, P_PCs, S_PCs, C_PCs, D_PCs, M_PCs, L_PCs, BoxPCs, PubSession,
      SubSession, WorkerPCs
  <2> HIDE DEF NoLocals
  <2> QED BY <2>1, <2>2 DEF Init, WorkersOK
<1>3. BoxesOK
  <2> DEFINE n == Len(InitialBoxes)
  <2>1. n \in Nat /\ n <= BOX_COUNT_MAX /\ \A i \in 1..n : InitialBoxes[i] \in FileNames
    BY BrokerAssumption
  <2>2. [EmptyBox(NoName) EXCEPT !.alloc_state = "NOT_USED"] \in BoxType
    BY DEF EmptyBox, BoxType
  <2>3. \A i \in 1..n : EmptyBox(InitialBoxes[i]) \in BoxType
    BY <2>1 DEF EmptyBox, BoxType
  <2>4. boxes \in [BoxSlots -> BoxType]
    <3>1. boxes = [b \in BoxSlots |-> IF b < n THEN EmptyBox(InitialBoxes[b + 1])
                                      ELSE [EmptyBox(NoName) EXCEPT !.alloc_state = "NOT_USED"]]
      BY DEF Init
    <3>2. \A b \in BoxSlots : b < n => b + 1 \in 1..n
      BY <2>1, BrokerAssumption DEF BoxSlots
    <3> HIDE DEF n
    <3> QED BY <2>2, <2>3, <3>1, <3>2
  <2>5. /\ mutex = [b \in BoxSlots |-> Nobody] /\ boxes_lock = Nobody /\ box_count = n
    BY DEF Init
  <2> HIDE DEF n
  <2> QED BY <2>1, <2>4, <2>5 DEF BoxesOK, BoxType
<1>4. RequestsOK
  <2>1. Cardinality(Workers) \in Nat
    BY WorkersAssumption, FS_CardinalityType
  <2> QED BY <2>1 DEF Init, RequestsOK
<1>5. PipesOK
  BY DEF Init, PipesOK, Clients
<1> QED BY <1>1, <1>2, <1>3, <1>4, <1>5 DEF BInv

(* The tables of the broker and of its file system stay consistent.           *)
LEMMA BInvStep == BInv /\ [Next]_vars => BInv'
<1> SUFFICES ASSUME BInv, [Next]_vars PROVE BInv'
  OBVIOUS
<1>1. CASE Next
  BY <1>1, FilesStep, WorkersStep, BoxesStep, RequestsStep, PipesStep DEF BInv
<1>2. CASE UNCHANGED vars
  <2>1. FsInv'
    BY <1>2 DEF BInv, vars, fs, FsInv, TablesTyped, BlocksOwned, DirectoryConsistent, RootKept, Live
  <2>2. WorkersOK'
    BY <1>2 DEF BInv, vars, WorkersOK
  <2>3. BoxesOK' /\ RequestsOK' /\ PipesOK'
    BY <1>2 DEF BInv, vars, table, process, requests, pipes, BoxesOK, RequestsOK, PipesOK
  <2> QED BY <2>1, <2>2, <2>3 DEF BInv
<1> QED BY <1>1, <1>2

(* Whatever the clients do, two boxes never share a block and no block of a   *)
(* box is FREE: also when boxes are deleted under their publishers, whose     *)
(* write_message goes on with the old handle.                                 *)
THEOREM BoxesNeverShareBlocks == Spec => []BlocksOwned
  BY BInvInit, BInvStep, PTL DEF Spec, BInv, FsInv

(* Every box file keeps one entry and one inode in the root directory.        *)
THEOREM BoxDirectoryAgrees == Spec => []DirectoryConsistent
  BY BInvInit, BInvStep, PTL DEF Spec, BInv, FsInv

-----------------------------------------------------------------------------
(* The sessions *)

\* While boxes are only created, or only deleted, no slot is given to another box.
\* The counters are right then even for the boxes that are not in use any more.
Counted == \A b \in BoxSlots :
    /\ boxes[b].n_publishers = Cardinality(Publishing(b)) /\ boxes[b].n_publishers <= 1
    /\ boxes[b].n_subscribers = Cardinality(Subscribed(b))

\* a session's box is in use, unless boxes are deleted: no creation takes its slot
InUse == Deleters = {} => \A w \in Workers :
    pc[w] \in PubSession \cup SubSession \cup {"p_register", "s_register"}
       => boxes[loc[w].box].alloc_state = "USED"

SInv == BInv /\ Counted /\ InUse

OthersStay(w) == \A u \in Workers \ {w} :
    /\ loc'[u] = loc[u]
    /\ pc'[u] \in PubSession <=> pc[u] \in PubSession
    /\ pc'[u] \in SubSession <=> pc[u] \in SubSession
    /\ pc'[u] \in {"p_register", "s_register"} => pc'[u] = pc[u]

SessionKept(w) == /\ pc'[w] \in PubSession <=> pc[w] \in PubSession
                  /\ pc'[w] \in SubSession <=> pc[w] \in SubSession
                  /\ pc'[w] \in PubSession \cup SubSession => loc'[w].box = loc[w].box

(* A worker's step does not move the others, but for those that sleep on the  *)
(* box whose condition variable it signals or overwrites.                     *)
LEMMA OthersMove ==
  ASSUME BInv, NEW w \in Workers, WorkerStep(w) \/ S_SpuriousWakeup(w)
  PROVE  \A u \in Workers \ {w} :
            /\ loc'[u] = loc[u]
            /\ \/ pc'[u] = pc[u]
               \/ pc[u] = "s_asleep" /\ pc'[u] \in {"s_woken", "s_orphan"}
<1>0. pc \in [Workers -> WorkerPCs] /\ loc \in [Workers -> Locals]
  BY DEF BInv, WorkersOK
<1>1. \A u \in Workers \ {w} : loc'[u] = loc[u]
  BY <1>0 DEF WorkerStep, S_SpuriousWakeup, RequestsHandler, PublisherStep, SubscriberStep, ManagerStep,
      KilledBySigpipe, P_GetBox, GetBox, P_Register, P_Read, P_Write, P_Terminate, P_Broadcast,
      P_End, P_Close, S_GetBox, S_Register, S_Loop, S_Reacquire, S_Read, S_Send, S_Signal, S_End,
      C_GetBox, C_TfsOpen, C_TfsClose, C_Slot, C_Used, D_GetBox, D_Unlink, D_Broadcast, M_Load,
      M_Store, M_Send, L_Scan, L_Send,
      ClosePipeAndReturn, Respond
<1>2. \A u \in Workers \ {w} : \/ pc'[u] = pc[u]
                               \/ pc[u] = "s_asleep" /\ pc'[u] \in {"s_woken", "s_orphan"}
  BY <1>0 DEF WorkerStep, S_SpuriousWakeup, RequestsHandler, PublisherStep, SubscriberStep, ManagerStep,
      KilledBySigpipe, P_GetBox, GetBox, P_Register, P_Read, P_Write, P_Terminate, P_Broadcast,
      P_End, P_Close, S_GetBox, S_Register, S_Loop, S_Reacquire, S_Read, S_Send, S_Signal, S_End,
      C_GetBox, C_TfsOpen, C_TfsClose, C_Slot, C_Used, D_GetBox, D_Unlink, D_Broadcast, M_Load,
      M_Store, M_Send, L_Scan, L_Send,
      ClosePipeAndReturn, Respond, Goto, Broadcast
<1> QED BY <1>1, <1>2

(* So it leaves their sessions alone.                                         *)
LEMMA OthersKept ==
  ASSUME BInv, NEW w \in Workers, WorkerStep(w) \/ S_SpuriousWakeup(w)
  PROVE  OthersStay(w)
  BY OthersMove DEF OthersStay, PubSession, SubSession

(* What that means for the workers in a session on a box.                     *)
LEMMA SessionSets ==
  ASSUME NEW w \in Workers, OthersStay(w), NEW b
  PROVE  /\ SessionKept(w) => /\ Publishing(b)' = Publishing(b)
                              /\ Subscribed(b)' = Subscribed(b)
         /\ (pc'[w] \in PubSession /\ loc'[w].box = b <=> pc[w] \in PubSession /\ loc[w].box = b)
               => Publishing(b)' = Publishing(b)
         /\ (pc'[w] \in SubSession /\ loc'[w].box = b <=> pc[w] \in SubSession /\ loc[w].box = b)
               => Subscribed(b)' = Subscribed(b)
         /\ pc[w] \notin PubSession /\ pc'[w] \in PubSession /\ loc'[w].box = b
               => Publishing(b)' = Publishing(b) \cup {w} /\ w \notin Publishing(b)
         /\ pc[w] \in PubSession /\ loc[w].box = b /\ pc'[w] \notin PubSession
               => Publishing(b)' = Publishing(b) \ {w} /\ w \in Publishing(b)
         /\ pc[w] \notin SubSession /\ pc'[w] \in SubSession /\ loc'[w].box = b
               => Subscribed(b)' = Subscribed(b) \cup {w} /\ w \notin Subscribed(b)
         /\ pc[w] \in SubSession /\ loc[w].box = b /\ pc'[w] \notin SubSession
               => Subscribed(b)' = Subscribed(b) \ {w} /\ w \in Subscribed(b)
<1>1. /\ Publishing(b) = {u \in Workers : loc[u].box = b /\ pc[u] \in PubSession}
      /\ Publishing(b)' = {u \in Workers : loc'[u].box = b /\ pc'[u] \in PubSession}
  BY DEF Publishing, PubSession
<1>2. /\ Subscribed(b) = {u \in Workers : loc[u].box = b /\ pc[u] \in SubSession}
      /\ Subscribed(b)' = {u \in Workers : loc'[u].box = b /\ pc'[u] \in SubSession}
  BY DEF Subscribed, SubSession
<1>3. \A u \in Workers : u # w => /\ loc'[u] = loc[u]
                                  /\ pc'[u] \in PubSession <=> pc[u] \in PubSession
                                  /\ pc'[u] \in SubSession <=> pc[u] \in SubSession
  BY DEF OthersStay
<1> QED BY <1>1, <1>2, <1>3 DEF SessionKept

(* The sessions on a box are at most as many as the workers.                  *)
LEMMA SessionsFinite ==
  ASSUME NEW b
  PROVE  /\ IsFiniteSet(Publishing(b)) /\ IsFiniteSet(Subscribed(b))
         /\ Cardinality(Publishing(b)) \in Nat /\ Cardinality(Subscribed(b)) \in Nat
         /\ Cardinality(Publishing(b)) <= Cardinality(Workers)
         /\ Cardinality(Subscribed(b)) <= Cardinality(Workers)
<1>1. Publishing(b) \subseteq Workers /\ Subscribed(b) \subseteq Workers
  BY DEF Publishing, Subscribed
<1> QED BY <1>1, WorkersAssumption, FS_Subset, FS_CardinalityType

(* The variables of a worker after an assignment to one of them.              *)
LEMMA AfterMsg ==
  ASSUME loc \in [Workers -> Locals], NEW w \in Workers, NEW v,
         loc' = [loc EXCEPT ![w].msg = v]
  PROVE  /\ loc'[w].req = loc[w].req /\ loc'[w].box = loc[w].box /\ loc'[w].fd = loc[w].fd
         /\ loc'[w].msg = v /\ loc'[w].total_read = loc[w].total_read /\ loc'[w].count = loc[w].count
<1> DEFINE l == [req |-> loc[w].req, box |-> loc[w].box, fd |-> loc[w].fd, msg |-> v,
                 total_read |-> loc[w].total_read, count |-> loc[w].count]
<1>1. loc' = [loc EXCEPT ![w] = l]
  BY SetMsg
<1>2. loc'[w] = l
  BY <1>1
<1> QED BY <1>2

(* The same for total_read. *)
LEMMA AfterTotalRead ==
  ASSUME loc \in [Workers -> Locals], NEW w \in Workers, NEW v,
         loc' = [loc EXCEPT ![w].total_read = v]
  PROVE  /\ loc'[w].req = loc[w].req /\ loc'[w].box = loc[w].box /\ loc'[w].fd = loc[w].fd
         /\ loc'[w].msg = loc[w].msg /\ loc'[w].total_read = v /\ loc'[w].count = loc[w].count
<1> DEFINE l == [req |-> loc[w].req, box |-> loc[w].box, fd |-> loc[w].fd, msg |-> loc[w].msg,
                 total_read |-> v, count |-> loc[w].count]
<1>1. loc' = [loc EXCEPT ![w] = l]
  BY SetTotalRead
<1>2. loc'[w] = l
  BY <1>1
<1> QED BY <1>2

(* The same for fd. *)
LEMMA AfterFd ==
  ASSUME loc \in [Workers -> Locals], NEW w \in Workers, NEW v,
         loc' = [loc EXCEPT ![w].fd = v]
  PROVE  /\ loc'[w].req = loc[w].req /\ loc'[w].box = loc[w].box /\ loc'[w].fd = v
         /\ loc'[w].msg = loc[w].msg /\ loc'[w].total_read = loc[w].total_read /\ loc'[w].count = loc[w].count
<1> DEFINE l == [req |-> loc[w].req, box |-> loc[w].box, fd |-> v, msg |-> loc[w].msg,
                 total_read |-> loc[w].total_read, count |-> loc[w].count]
<1>1. loc' = [loc EXCEPT ![w] = l]
  BY SetFd
<1>2. loc'[w] = l
  BY <1>1
<1> QED BY <1>2

(* The same for box. *)
LEMMA AfterBox ==
  ASSUME loc \in [Workers -> Locals], NEW w \in Workers, NEW v,
         loc' = [loc EXCEPT ![w].box = v]
  PROVE  /\ loc'[w].req = loc[w].req /\ loc'[w].box = v /\ loc'[w].fd = loc[w].fd
         /\ loc'[w].msg = loc[w].msg /\ loc'[w].total_read = loc[w].total_read /\ loc'[w].count = loc[w].count
<1> DEFINE l == [req |-> loc[w].req, box |-> v, fd |-> loc[w].fd, msg |-> loc[w].msg,
                 total_read |-> loc[w].total_read, count |-> loc[w].count]
<1>1. loc' = [loc EXCEPT ![w] = l]
  BY SetBox
<1>2. loc'[w] = l
  BY <1>1
<1> QED BY <1>2

(* The same for count. *)
LEMMA AfterCount ==
  ASSUME loc \in [Workers -> Locals], NEW w \in Workers, NEW v,
         loc' = [loc EXCEPT ![w].count = v]
  PROVE  /\ loc'[w].req = loc[w].req /\ loc'[w].box = loc[w].box /\ loc'[w].fd = loc[w].fd
         /\ loc'[w].msg = loc[w].msg /\ loc'[w].total_read = loc[w].total_read /\ loc'[w].count = v
<1> DEFINE l == [req |-> loc[w].req, box |-> loc[w].box, fd |-> loc[w].fd, msg |-> loc[w].msg,
                 total_read |-> loc[w].total_read, count |-> v]
<1>1. loc' = [loc EXCEPT ![w] = l]
  BY SetCount
<1>2. loc'[w] = l
  BY <1>1
<1> QED BY <1>2

(* The same for req, the first assignment of a handler.                       *)
LEMMA AfterReq ==
  ASSUME loc \in [Workers -> Locals], NEW w \in Workers, NEW v,
         loc' = [loc EXCEPT ![w].req = v]
  PROVE  /\ loc'[w].req = v /\ loc'[w].box = loc[w].box /\ loc'[w].fd = loc[w].fd
         /\ loc'[w].msg = loc[w].msg /\ loc'[w].total_read = loc[w].total_read
         /\ loc'[w].count = loc[w].count
<1> DEFINE l == [req |-> v, box |-> loc[w].box, fd |-> loc[w].fd, msg |-> loc[w].msg,
                 total_read |-> loc[w].total_read, count |-> loc[w].count]
<1>1. loc' = [loc EXCEPT ![w] = l]
  BY SetReq
<1>2. loc'[w] = l
  BY <1>1
<1> QED BY <1>2

(* The same for the two assignments of delete_box.                            *)
LEMMA AfterBoxMsg ==
  ASSUME loc \in [Workers -> Locals], NEW w \in Workers, NEW b, NEW m,
         loc' = [loc EXCEPT ![w].box = b, ![w].msg = m]
  PROVE  /\ loc'[w].req = loc[w].req /\ loc'[w].box = b /\ loc'[w].fd = loc[w].fd
         /\ loc'[w].msg = m /\ loc'[w].total_read = loc[w].total_read
         /\ loc'[w].count = loc[w].count
<1> DEFINE l == [req |-> loc[w].req, box |-> b, fd |-> loc[w].fd, msg |-> m,
                 total_read |-> loc[w].total_read, count |-> loc[w].count]
<1>1. loc' = [loc EXCEPT ![w] = l]
  BY SetBoxMsg
<1>2. loc'[w] = l
  BY <1>1
<1> QED BY <1>2

(* Only the ends of sessions, and the registrations that succeed, change      *)
(* which sessions there are.                                                  *)
LEMMA StepKeepsSession ==
  ASSUME BInv, NEW w \in Workers, WorkerStep(w) \/ S_SpuriousWakeup(w),
         ~P_Register(w), ~P_End(w), ~S_Register(w), ~S_End(w)
  PROVE  SessionKept(w)
<1>0. /\ pc \in [Workers -> WorkerPCs] /\ loc \in [Workers -> Locals] /\ loc[w] \in Locals
  BY DEF BInv, WorkersOK
<1>1. CASE PublisherStep(w)
  <2>1. CASE P_GetBox(w)
    <3>1. pc[w] = "p_get_box" /\ pc'[w] \in {"p_register", "idle"}
      BY <1>0, <2>1 DEF P_GetBox, GetBox, Goto, ClosePipeAndReturn
    <3> QED BY <3>1 DEF SessionKept, PubSession, SubSession
  <2>2. CASE P_Read(w)
    <3>1. pc[w] = "p_read" /\ pc'[w] \in {"p_write", "p_end"}
      BY <1>0, <2>2 DEF P_Read, Goto
    <3>2. loc'[w].box = loc[w].box
      BY <1>0, <2>2, AfterMsg DEF P_Read
    <3> QED BY <3>1, <3>2 DEF SessionKept, PubSession, SubSession
  <2>3. CASE P_Write(w) \/ P_Terminate(w) \/ P_Broadcast(w)
    <3>1. /\ pc[w] \in {"p_write", "p_terminate", "p_broadcast"}
          /\ pc'[w] \in {"p_terminate", "p_end", "p_broadcast", "p_read"} /\ UNCHANGED loc
      BY <1>0, <2>3 DEF P_Write, P_Terminate, P_Broadcast, Broadcast, Goto
    <3> QED BY <3>1 DEF SessionKept, PubSession, SubSession
  <2>4. CASE P_Close(w)
    <3>1. pc[w] = "p_close" /\ pc'[w] = "idle"
      BY <1>0, <2>4 DEF P_Close, ClosePipeAndReturn
    <3> QED BY <3>1 DEF SessionKept, PubSession, SubSession
  <2> QED BY <1>1, <2>1, <2>2, <2>3, <2>4 DEF PublisherStep
<1>2. CASE SubscriberStep(w) \/ S_SpuriousWakeup(w)
  <2>1. CASE S_GetBox(w)
    <3>1. pc[w] = "s_get_box" /\ pc'[w] \in {"s_register", "idle"}
      BY <1>0, <2>1 DEF S_GetBox, GetBox, Goto, ClosePipeAndReturn
    <3> QED BY <3>1 DEF SessionKept, PubSession, SubSession
  <2>2. CASE S_Loop(w) \/ S_Reacquire(w) \/ S_Signal(w) \/ S_SpuriousWakeup(w)
    <3>1. /\ pc[w] \in {"s_loop", "s_woken", "s_signal", "s_asleep", "s_orphan"}
          /\ pc'[w] \in {"s_asleep", "s_read", "s_end", "s_woken"} /\ UNCHANGED loc
      BY <1>0, <2>2 DEF S_Loop, S_Reacquire, S_Signal, S_SpuriousWakeup, Goto
    <3> QED BY <3>1 DEF SessionKept, PubSession, SubSession
  <2>3. CASE S_Read(w)
    <3>1. pc[w] = "s_read" /\ pc'[w] \in {"s_read", "s_send", "s_end"}
      BY <1>0, <2>3 DEF S_Read, Goto
    <3>2. \/ UNCHANGED loc
          \/ \E v : loc' = [loc EXCEPT ![w].msg = v]
          \/ \E v : loc' = [loc EXCEPT ![w].total_read = v]
      BY <1>0, <2>3 DEF S_Read
    <3>3. loc'[w].box = loc[w].box
      BY <1>0, <3>2, AfterMsg, AfterTotalRead
    <3> QED BY <3>1, <3>3 DEF SessionKept, PubSession, SubSession
  <2>4. CASE S_Send(w)
    <3>1. pc[w] = "s_send" /\ pc'[w] \in {"s_loop", "s_signal"}
      BY <1>0, <2>4 DEF S_Send, Goto
    <3>2. UNCHANGED loc \/ loc' = [loc EXCEPT ![w].msg = <<>>]
      BY <2>4 DEF S_Send
    <3>3. loc'[w].box = loc[w].box
      BY <1>0, <3>2, AfterMsg
    <3> QED BY <3>1, <3>3 DEF SessionKept, PubSession, SubSession
  <2> QED BY <1>2, <2>1, <2>2, <2>3, <2>4 DEF SubscriberStep
<1>3. CASE ManagerStep(w)
  <2>1. /\ pc[w] \in C_PCs \cup D_PCs \cup M_PCs \cup L_PCs
        /\ pc'[w] \in C_PCs \cup D_PCs \cup M_PCs \cup L_PCs \cup {"idle"}
    BY <1>0, <1>3 DEF ManagerStep, C_GetBox, C_TfsOpen, C_TfsClose, C_Slot, C_Used, D_GetBox, D_Unlink,
      D_Broadcast, M_Load, M_Store, M_Send, L_Scan, L_Send, Goto, Respond, ClosePipeAndReturn,
      Broadcast, C_PCs, D_PCs, M_PCs, L_PCs
  <2> QED BY <2>1 DEF SessionKept, PubSession, SubSession, C_PCs, D_PCs, M_PCs, L_PCs
<1>4. CASE RequestsHandler(w)
  <2>1. Head(requests_queue) \in Clients
    BY <1>4 DEF BInv, RequestsOK, RequestsHandler
  <2>2. pc[w] = "idle" /\ pc'[w] \in {"idle", "in_open", Handler(Head(requests_queue))}
    BY <1>0, <1>4 DEF RequestsHandler
  <2> QED BY <2>1, <2>2, HandlerKind DEF SessionKept, PubSession, SubSession
<1>5. CASE KilledBySigpipe(w)
  BY <1>5 DEF KilledBySigpipe, SessionKept
<1> QED BY <1>1, <1>2, <1>3, <1>4, <1>5 DEF WorkerStep

(* The fields of the boxes after an assignment to one of them.                *)
LEMMA AfterField ==
  ASSUME BoxesOK, NEW b \in BoxSlots, NEW v, NEW x \in BoxSlots
  PROVE  /\ boxes' = [boxes EXCEPT ![b].alloc_state = v]
               => /\ boxes'[x].n_publishers = boxes[x].n_publishers
                  /\ boxes'[x].n_subscribers = boxes[x].n_subscribers
                  /\ boxes'[x].name = boxes[x].name /\ boxes'[x].size = boxes[x].size
                  /\ boxes'[x].alloc_state = IF x = b THEN v ELSE boxes[x].alloc_state
         /\ boxes' = [boxes EXCEPT ![b].size = v]
               => /\ boxes'[x].n_publishers = boxes[x].n_publishers
                  /\ boxes'[x].n_subscribers = boxes[x].n_subscribers
                  /\ boxes'[x].name = boxes[x].name
                  /\ boxes'[x].size = IF x = b THEN v ELSE boxes[x].size
                  /\ boxes'[x].alloc_state = boxes[x].alloc_state
         /\ boxes' = [boxes EXCEPT ![b].n_publishers = v]
               => /\ boxes'[x].n_publishers = IF x = b THEN v ELSE boxes[x].n_publishers
                  /\ boxes'[x].n_subscribers = boxes[x].n_subscribers
                  /\ boxes'[x].name = boxes[x].name /\ boxes'[x].size = boxes[x].size
                  /\ boxes'[x].alloc_state = boxes[x].alloc_state
         /\ boxes' = [boxes EXCEPT ![b].n_subscribers = v]
               => /\ boxes'[x].n_publishers = boxes[x].n_publishers
                  /\ boxes'[x].n_subscribers = IF x = b THEN v ELSE boxes[x].n_subscribers
                  /\ boxes'[x].name = boxes[x].name /\ boxes'[x].size = boxes[x].size
                  /\ boxes'[x].alloc_state = boxes[x].alloc_state
<1>0. DOMAIN boxes = BoxSlots
  BY DEF BoxesOK, BoxType
<1>1. ASSUME NEW r, boxes' = [boxes EXCEPT ![b] = r]
      PROVE  boxes'[x] = IF x = b THEN r ELSE boxes[x]
  BY <1>0, <1>1
<1>2. ASSUME boxes' = [boxes EXCEPT ![b].alloc_state = v]
      PROVE  boxes'[x] = IF x = b
                THEN [name |-> boxes[b].name, n_publishers |-> boxes[b].n_publishers,
                      n_subscribers |-> boxes[b].n_subscribers, size |-> boxes[b].size,
                      alloc_state |-> v]
                ELSE boxes[x]
  BY <1>1, <1>2, SetAllocState
<1>3. ASSUME boxes' = [boxes EXCEPT ![b].size = v]
      PROVE  boxes'[x] = IF x = b
                THEN [name |-> boxes[b].name, n_publishers |-> boxes[b].n_publishers,
                      n_subscribers |-> boxes[b].n_subscribers, size |-> v,
                      alloc_state |-> boxes[b].alloc_state]
                ELSE boxes[x]
  BY <1>1, <1>3, SetSize
<1>4. ASSUME boxes' = [boxes EXCEPT ![b].n_publishers = v]
      PROVE  boxes'[x] = IF x = b
                THEN [name |-> boxes[b].name, n_publishers |-> v,
                      n_subscribers |-> boxes[b].n_subscribers, size |-> boxes[b].size,
                      alloc_state |-> boxes[b].alloc_state]
                ELSE boxes[x]
  BY <1>1, <1>4, SetPublishers
<1>5. ASSUME boxes' = [boxes EXCEPT ![b].n_subscribers = v]
      PROVE  boxes'[x] = IF x = b
                THEN [name |-> boxes[b].name, n_publishers |-> boxes[b].n_publishers,
                      n_subscribers |-> v, size |-> boxes[b].size,
                      alloc_state |-> boxes[b].alloc_state]
                ELSE boxes[x]
  BY <1>1, <1>5, SetSubscribers
<1> QED BY <1>2, <1>3, <1>4, <1>5

(* Only create_box and delete_box change which boxes there are.               *)
LEMMA BoxesKept ==
  ASSUME BInv, NEW w \in Workers, WorkerStep(w) \/ S_SpuriousWakeup(w),
         ~C_Slot(w), ~C_Used(w), ~D_Unlink(w)
  PROVE  \A b \in BoxSlots : /\ boxes'[b].alloc_state = boxes[b].alloc_state
                             /\ boxes'[b].name = boxes[b].name
<1>0. BoxesOK /\ Role(pc[w], loc[w])
  BY DEF BInv, WorkersOK
<1>1. CASE UNCHANGED boxes
  BY <1>1
<1>2. CASE P_Register(w) \/ P_End(w) \/ S_Register(w) \/ S_End(w) \/ P_Terminate(w)
  <2>1. loc[w].box \in BoxSlots
    BY <1>0, <1>2 DEF P_Register, P_End, S_Register, S_End, P_Terminate, Role, BoxPCs, PubSession,
      SubSession
  <2>2. CASE P_Register(w) \/ P_End(w) \/ S_Register(w) \/ S_End(w)
    <3> DEFINE p == boxes[loc[w].box].n_publishers
               s == boxes[loc[w].box].n_subscribers
    <3>1. \/ UNCHANGED boxes
          \/ boxes' = [boxes EXCEPT ![loc[w].box].n_publishers = p + 1]
          \/ boxes' = [boxes EXCEPT ![loc[w].box].n_publishers = Decrement(p)]
          \/ boxes' = [boxes EXCEPT ![loc[w].box].n_subscribers = s + 1]
          \/ boxes' = [boxes EXCEPT ![loc[w].box].n_subscribers = Decrement(s)]
      BY <1>0, <2>1, <2>2 DEF P_Register, P_End, S_Register, S_End, BoxesOK
    <3> HIDE DEF p, s
    <3> QED BY <1>0, <2>1, <3>1, AfterField
  <2>3. CASE P_Terminate(w)
    <3> DEFINE size == boxes[loc[w].box].size + Len(loc[w].msg) + 1
    <3>1. UNCHANGED boxes \/ boxes' = [boxes EXCEPT ![loc[w].box].size = size]
      BY <1>0, <2>1, <2>3 DEF P_Terminate, BoxesOK
    <3> HIDE DEF size
    <3> QED BY <1>0, <2>1, <3>1, AfterField
  <2> QED BY <1>2, <2>2, <2>3
<1>3. \/ UNCHANGED boxes
      \/ P_Register(w) \/ P_End(w) \/ S_Register(w) \/ S_End(w) \/ P_Terminate(w)
  BY DEF WorkerStep, S_SpuriousWakeup, RequestsHandler,
      PublisherStep, SubscriberStep, ManagerStep, KilledBySigpipe, P_GetBox, GetBox, P_Read,
      P_Write, P_Broadcast, P_Close, S_GetBox, S_Loop, S_Reacquire, S_Read, S_Send, S_Signal,
      C_GetBox, C_TfsOpen, C_TfsClose, D_GetBox, D_Broadcast, M_Load, M_Store, M_Send,
      L_Scan, L_Send, table
<1> QED BY <1>1, <1>2, <1>3

(* Without deletions a box that is in use stays so, under its name.           *)
LEMMA UsedKept ==
  ASSUME BInv, Next, Deleters = {}, NEW b \in BoxSlots, boxes[b].alloc_state = "USED"
  PROVE  boxes'[b].alloc_state = "USED" /\ boxes'[b].name = boxes[b].name
<1>0. BoxesOK /\ boxes \in [BoxSlots -> BoxType]
  BY DEF BInv, BoxesOK, BoxType
<1>1. ASSUME NEW w \in Workers, WorkerStep(w) \/ S_SpuriousWakeup(w)
      PROVE  boxes'[b].alloc_state = "USED" /\ boxes'[b].name = boxes[b].name
  <2>0. Role(pc[w], loc[w])
    BY DEF BInv, WorkersOK
  <2>1. CASE C_Slot(w)
    <3>1. CASE UnusedSlots = {}
      BY <2>1, <3>1 DEF C_Slot
    <3>2. CASE UnusedSlots # {}
      <4>1. First(UnusedSlots) \in BoxSlots /\ boxes[First(UnusedSlots)].alloc_state = "NOT_USED"
        BY <1>0, <3>2, SlotFound
      <4>2. boxes' = [boxes EXCEPT ![First(UnusedSlots)] =
                        [EmptyBox(BoxOf[loc[w].req]) EXCEPT !.alloc_state = "NOT_USED"]]
        BY <2>1, <3>2 DEF C_Slot
      <4>3. boxes'[b] = boxes[b]
        BY <1>0, <4>1, <4>2
      <4> QED BY <4>3
    <3> QED BY <3>1, <3>2
  <2>2. CASE C_Used(w)
    <3>1. loc[w].box \in BoxSlots /\ boxes' = [boxes EXCEPT ![loc[w].box].alloc_state = "USED"]
      BY <2>0, <2>2 DEF C_Used, Role, BoxPCs
    <3> QED BY <1>0, <3>1, AfterField
  <2>3. ~D_Unlink(w)
    BY <2>0 DEF D_Unlink, Role, D_PCs
  <2> QED BY <1>1, <2>1, <2>2, <2>3, BoxesKept
<1>2. CASE ~(\E w \in Workers : WorkerStep(w) \/ S_SpuriousWakeup(w))
  <2>1. UNCHANGED boxes
    BY <1>2 DEF Next, Register, PublisherSend, ClientClose, ClientRead, Die, GiveUp, MainLoop, Sigint,
      table
  <2> QED BY <2>1
<1> QED BY <1>1, <1>2

(* Every step keeps the counters right.                                       *)
LEMMA CountedStep ==
  ASSUME Deleters = {} \/ Creators = {}, SInv, Next
  PROVE  Counted'
<1>0. BInv /\ Counted /\ InUse /\ BoxesOK /\ WorkersOK /\ loc \in [Workers -> Locals]
      /\ pc \in [Workers -> WorkerPCs] /\ boxes \in [BoxSlots -> BoxType]
  BY DEF SInv, BInv, WorkersOK, BoxesOK, BoxType
<1>c. ASSUME NEW b \in BoxSlots,
             boxes'[b].n_publishers = Cardinality(Publishing(b)'), boxes'[b].n_publishers <= 1,
             boxes'[b].n_subscribers = Cardinality(Subscribed(b)'),
             \A x \in BoxSlots : x # b => /\ boxes'[x] = boxes[x]
                                         /\ Publishing(x)' = Publishing(x)
                                         /\ Subscribed(x)' = Subscribed(x)
      PROVE  Counted'
  <2>1. ASSUME NEW x \in BoxSlots
        PROVE  /\ boxes'[x].n_publishers = Cardinality(Publishing(x)')
               /\ boxes'[x].n_publishers <= 1
               /\ boxes'[x].n_subscribers = Cardinality(Subscribed(x)')
    BY <1>0, <1>c, <2>1 DEF Counted
  <2> QED BY <2>1 DEF Counted
\* the counters stay, and so do the sessions
<1>1. ASSUME NEW w \in Workers, OthersStay(w), SessionKept(w),
             \A b \in BoxSlots : /\ boxes'[b].n_publishers = boxes[b].n_publishers
                                 /\ boxes'[b].n_subscribers = boxes[b].n_subscribers
      PROVE  Counted'
  <2>1. \A b \in BoxSlots : Publishing(b)' = Publishing(b) /\ Subscribed(b)' = Subscribed(b)
    BY <1>1, SessionSets
  <2> QED BY <1>0, <1>1, <2>1 DEF Counted
<1>2. ASSUME NEW w \in Workers, WorkerStep(w) \/ S_SpuriousWakeup(w) PROVE Counted'
  <2>0. OthersStay(w) /\ loc[w] \in Locals /\ Role(pc[w], loc[w])
    BY <1>0, <1>2, OthersKept DEF WorkersOK
  <2>1. CASE P_Register(w)
    <3>0. pc[w] = "p_register" /\ loc[w].box \in BoxSlots
      BY <2>0, <2>1 DEF P_Register, Role, BoxPCs
    <3> PICK b \in BoxSlots : b = loc[w].box
      BY <3>0
    <3> DEFINE n == boxes[b].n_publishers + 1
    <3>1. pc[w] = "p_register" /\ b \in BoxSlots /\ b = loc[w].box
      BY <3>0
    <3>2. CASE pc' = [pc EXCEPT ![w] = "idle"] /\ UNCHANGED boxes
      <4>1. pc'[w] = "idle"
        BY <1>0, <3>2
      <4>2. SessionKept(w)
        BY <3>1, <4>1 DEF SessionKept, PubSession, SubSession
      <4> QED BY <1>1, <2>0, <3>2, <4>2
    <3>3. ASSUME NEW fd, pc' = [pc EXCEPT ![w] = "p_read"], loc' = [loc EXCEPT ![w].fd = fd],
                 boxes[b].n_publishers # 1, boxes' = [boxes EXCEPT ![b].n_publishers = n]
          PROVE  Counted'
      <4>1. pc'[w] = "p_read" /\ loc'[w].box = b
        BY <1>0, <3>3, AfterFd
      <4>2. /\ boxes'[b].n_publishers = n /\ boxes'[b].n_subscribers = boxes[b].n_subscribers
            /\ \A x \in BoxSlots : x # b => boxes'[x] = boxes[x]
        BY <1>0, <3>1, <3>3, SetPublishers
      <4>3. \A x \in BoxSlots : Subscribed(x)' = Subscribed(x)
        BY <2>0, <3>1, <4>1, SessionSets DEF SubSession
      <4>4. \A x \in BoxSlots : x # b => Publishing(x)' = Publishing(x)
        BY <2>0, <3>1, <4>1, SessionSets DEF PubSession
      <4>5. Publishing(b)' = Publishing(b) \cup {w} /\ w \notin Publishing(b)
        BY <2>0, <3>1, <4>1, SessionSets DEF PubSession
      <4>6. Cardinality(Publishing(b)') = Cardinality(Publishing(b)) + 1
        BY <4>5, SessionsFinite, FS_AddElement
      <4>7. boxes[b].n_publishers = 0 /\ Cardinality(Publishing(b)) = 0 /\ n = 1
        BY <1>0, <3>1, <3>3, SessionsFinite DEF Counted
      <4>8. boxes'[b].n_publishers = Cardinality(Publishing(b)') /\ boxes'[b].n_publishers <= 1
        BY <4>2, <4>6, <4>7
      <4>9. boxes'[b].n_subscribers = Cardinality(Subscribed(b)')
        BY <1>0, <4>2, <4>3 DEF Counted
      <4> QED BY <1>c, <4>2, <4>3, <4>4, <4>8, <4>9
    <3> QED BY <1>0, <2>1, <3>1, <3>2, <3>3 DEF P_Register, ClosePipeAndReturn
  <2>2. CASE P_End(w)
    <3>0. pc[w] = "p_end" /\ loc[w].box \in BoxSlots /\ pc'[w] = "p_close" /\ UNCHANGED loc
      BY <1>0, <2>0, <2>2 DEF P_End, Goto, Role, BoxPCs, PubSession
    <3> PICK b \in BoxSlots : b = loc[w].box
      BY <3>0
    <3> DEFINE n == Decrement(boxes[b].n_publishers)
    <3>1. /\ pc[w] = "p_end" /\ b \in BoxSlots /\ b = loc[w].box /\ pc'[w] = "p_close"
          /\ UNCHANGED loc
      BY <3>0
    <3>2. boxes' = [boxes EXCEPT ![b].n_publishers = n]
      BY <1>0, <2>2, <3>1 DEF P_End
    <3>3. /\ boxes'[b].n_publishers = n /\ boxes'[b].n_subscribers = boxes[b].n_subscribers
          /\ \A x \in BoxSlots : x # b => boxes'[x] = boxes[x]
      BY <1>0, <3>1, <3>2, SetPublishers
    <3>4. \A x \in BoxSlots : Subscribed(x)' = Subscribed(x)
      BY <2>0, <3>1, SessionSets DEF SubSession
    <3>5. \A x \in BoxSlots : x # b => Publishing(x)' = Publishing(x)
      BY <2>0, <3>1, SessionSets DEF PubSession
    <3>6. Publishing(b)' = Publishing(b) \ {w} /\ w \in Publishing(b)
      BY <2>0, <3>1, SessionSets DEF PubSession
    <3>7. Cardinality(Publishing(b)') = Cardinality(Publishing(b)) - 1
      BY <3>6, SessionsFinite, FS_RemoveElement
    <3>8. Cardinality(Publishing(b)) # 0
      BY <3>6, SessionsFinite, FS_EmptySet
    <3>9. boxes[b].n_publishers \in 1..Cardinality(Workers) /\ boxes[b].n_publishers \in Nat
      BY <1>0, <3>1, <3>8, SessionsFinite, WorkersAssumption, FS_CardinalityType DEF Counted
    <3>10. n = boxes[b].n_publishers - 1
      BY <3>9, DecrementNat
    <3>11. boxes[b].n_publishers = Cardinality(Publishing(b)) /\ boxes[b].n_publishers <= 1
      BY <1>0, <3>1 DEF Counted
    <3>12. boxes'[b].n_publishers = Cardinality(Publishing(b)') /\ boxes'[b].n_publishers <= 1
      BY <3>3, <3>7, <3>9, <3>10, <3>11
    <3>13. boxes'[b].n_subscribers = Cardinality(Subscribed(b)')
      BY <1>0, <3>3, <3>4 DEF Counted
    <3> QED BY <1>c, <3>3, <3>4, <3>5, <3>12, <3>13
  <2>3. CASE S_Register(w)
    <3>0. pc[w] = "s_register" /\ loc[w].box \in BoxSlots
      BY <2>0, <2>3 DEF S_Register, Role, BoxPCs
    <3> PICK b \in BoxSlots : b = loc[w].box
      BY <3>0
    <3> DEFINE n == boxes[b].n_subscribers + 1
    <3>1. pc[w] = "s_register" /\ b \in BoxSlots /\ b = loc[w].box
      BY <3>0
    <3>2. CASE pc' = [pc EXCEPT ![w] = "idle"] /\ UNCHANGED boxes
      <4>1. pc'[w] = "idle"
        BY <1>0, <3>2
      <4>2. SessionKept(w)
        BY <3>1, <4>1 DEF SessionKept, PubSession, SubSession
      <4> QED BY <1>1, <2>0, <3>2, <4>2
    <3>3. ASSUME NEW fd, pc' = [pc EXCEPT ![w] = "s_loop"], loc' = [loc EXCEPT ![w].fd = fd],
                 boxes' = [boxes EXCEPT ![b].n_subscribers = n]
          PROVE  Counted'
      <4>1. pc'[w] = "s_loop" /\ loc'[w].box = b
        BY <1>0, <3>3, AfterFd
      <4>2. /\ boxes'[b].n_subscribers = n /\ boxes'[b].n_publishers = boxes[b].n_publishers
            /\ \A x \in BoxSlots : x # b => boxes'[x] = boxes[x]
        BY <1>0, <3>1, <3>3, SetSubscribers
      <4>3. \A x \in BoxSlots : Publishing(x)' = Publishing(x)
        BY <2>0, <3>1, <4>1, SessionSets DEF PubSession
      <4>4. \A x \in BoxSlots : x # b => Subscribed(x)' = Subscribed(x)
        BY <2>0, <3>1, <4>1, SessionSets DEF SubSession
      <4>5. Subscribed(b)' = Subscribed(b) \cup {w} /\ w \notin Subscribed(b)
        BY <2>0, <3>1, <4>1, SessionSets DEF SubSession
      <4>6. Cardinality(Subscribed(b)') = Cardinality(Subscribed(b)) + 1
        BY <4>5, SessionsFinite, FS_AddElement
      <4>7. boxes[b].n_subscribers = Cardinality(Subscribed(b))
        BY <1>0, <3>1 DEF Counted
      <4>8. boxes'[b].n_subscribers = Cardinality(Subscribed(b)')
        BY <4>2, <4>6, <4>7
      <4>9. boxes'[b].n_publishers = Cardinality(Publishing(b)') /\ boxes'[b].n_publishers <= 1
        BY <1>0, <4>2, <4>3 DEF Counted
      <4> QED BY <1>c, <4>2, <4>3, <4>4, <4>8, <4>9
    <3> QED BY <1>0, <2>3, <3>1, <3>2, <3>3 DEF S_Register, ClosePipeAndReturn
  <2>4. CASE S_End(w)
    <3>0. pc[w] = "s_end" /\ loc[w].box \in BoxSlots /\ pc'[w] = "idle"
      BY <1>0, <2>0, <2>4 DEF S_End, ClosePipeAndReturn, Role, BoxPCs, SubSession
    <3> PICK b \in BoxSlots : b = loc[w].box
      BY <3>0
    <3> DEFINE n == Decrement(boxes[b].n_subscribers)
    <3>1. pc[w] = "s_end" /\ b \in BoxSlots /\ b = loc[w].box /\ pc'[w] = "idle"
      BY <3>0
    <3>2. boxes' = [boxes EXCEPT ![b].n_subscribers = n]
      BY <1>0, <2>4, <3>1 DEF S_End
    <3>3. /\ boxes'[b].n_subscribers = n /\ boxes'[b].n_publishers = boxes[b].n_publishers
          /\ \A x \in BoxSlots : x # b => boxes'[x] = boxes[x]
      BY <1>0, <3>1, <3>2, SetSubscribers
    <3>4. \A x \in BoxSlots : Publishing(x)' = Publishing(x)
      BY <2>0, <3>1, SessionSets DEF PubSession
    <3>5. \A x \in BoxSlots : x # b => Subscribed(x)' = Subscribed(x)
      BY <2>0, <3>1, SessionSets DEF SubSession
    <3>6. Subscribed(b)' = Subscribed(b) \ {w} /\ w \in Subscribed(b)
      BY <2>0, <3>1, SessionSets DEF SubSession
    <3>7. Cardinality(Subscribed(b)') = Cardinality(Subscribed(b)) - 1
      BY <3>6, SessionsFinite, FS_RemoveElement
    <3>8. Cardinality(Subscribed(b)) # 0
      BY <3>6, SessionsFinite, FS_EmptySet
    <3>9. boxes[b].n_subscribers = Cardinality(Subscribed(b))
      BY <1>0, <3>1 DEF Counted
    <3>10. boxes[b].n_subscribers \in 1..Cardinality(Workers) /\ boxes[b].n_subscribers \in Nat
      BY <3>8, <3>9, SessionsFinite, WorkersAssumption, FS_CardinalityType
    <3>11. n = boxes[b].n_subscribers - 1
      BY <3>10, DecrementNat
    <3>12. boxes'[b].n_subscribers = Cardinality(Subscribed(b)')
      BY <3>3, <3>7, <3>9, <3>11
    <3>13. boxes'[b].n_publishers = Cardinality(Publishing(b)') /\ boxes'[b].n_publishers <= 1
      BY <1>0, <3>3, <3>4 DEF Counted
    <3> QED BY <1>c, <3>3, <3>4, <3>5, <3>12, <3>13
  <2>5. CASE C_Slot(w) /\ UnusedSlots # {}
    <3> DEFINE b == First(UnusedSlots)
               new == [EmptyBox(BoxOf[loc[w].req]) EXCEPT !.alloc_state = "NOT_USED"]
    <3>0. /\ new.n_publishers = 0 /\ new.n_subscribers = 0
      BY DEF EmptyBox
    <3>1. b \in BoxSlots /\ boxes[b].alloc_state = "NOT_USED"
      BY <1>0, <2>5, SlotFound
    <3>2. boxes' = [boxes EXCEPT ![b] = new] /\ pc[w] = "c_slot"
      BY <2>5 DEF C_Slot
    <3>3. Deleters = {}
      <4>1. loc[w].req \in Creators
        BY <2>0, <3>2 DEF Role, C_PCs
      <4> QED BY <4>1
    <3> HIDE DEF b, new
    <3>4. Publishing(b) = {} /\ Subscribed(b) = {}
      BY <1>0, <3>1, <3>3 DEF InUse, Publishing, Subscribed, PubSession, SubSession
    <3>5. boxes[b].n_publishers = 0 /\ boxes[b].n_subscribers = 0
      BY <1>0, <3>1, <3>4, FS_EmptySet DEF Counted
    <3>6. SessionKept(w)
      BY <1>0, <1>2, <2>5, StepKeepsSession DEF C_Slot, P_Register, P_End, S_Register, S_End
    <3>7. boxes'[b] = new /\ \A x \in BoxSlots : x # b => boxes'[x] = boxes[x]
      BY <1>0, <3>1, <3>2
    <3> QED BY <1>1, <2>0, <3>0, <3>5, <3>6, <3>7
  <2>6. CASE /\ ~P_Register(w) /\ ~P_End(w) /\ ~S_Register(w) /\ ~S_End(w)
             /\ ~(C_Slot(w) /\ UnusedSlots # {})
    <3>1. SessionKept(w)
      BY <1>0, <1>2, <2>6, StepKeepsSession
    <3>2. CASE UNCHANGED boxes
      BY <1>1, <2>0, <3>1, <3>2
    <3>3. CASE C_Used(w) \/ D_Unlink(w) \/ P_Terminate(w)
      <4>1. loc[w].box \in BoxSlots
        BY <2>0, <3>3 DEF C_Used, D_Unlink, P_Terminate, Role, BoxPCs, PubSession
      <4> DEFINE size == boxes[loc[w].box].size + Len(loc[w].msg) + 1
      <4>2. \/ UNCHANGED boxes
            \/ boxes' = [boxes EXCEPT ![loc[w].box].alloc_state = "USED"]
            \/ boxes' = [boxes EXCEPT ![loc[w].box].alloc_state = "NOT_USED"]
            \/ boxes' = [boxes EXCEPT ![loc[w].box].size = size]
        <5>1. CASE C_Used(w) \/ D_Unlink(w)
          BY <5>1 DEF C_Used, D_Unlink
        <5>2. CASE P_Terminate(w)
          BY <1>0, <4>1, <5>2 DEF P_Terminate
        <5> QED BY <3>3, <5>1, <5>2
      <4> HIDE DEF size
      <4>3. \A b \in BoxSlots : /\ boxes'[b].n_publishers = boxes[b].n_publishers
                                /\ boxes'[b].n_subscribers = boxes[b].n_subscribers
        <5>1. CASE boxes' = [boxes EXCEPT ![loc[w].box].alloc_state = "USED"]
          BY <1>0, <4>1, <5>1, AfterField
        <5>2. CASE boxes' = [boxes EXCEPT ![loc[w].box].alloc_state = "NOT_USED"]
          BY <1>0, <4>1, <5>2, AfterField
        <5>3. CASE boxes' = [boxes EXCEPT ![loc[w].box].size = size]
          BY <1>0, <4>1, <5>3, AfterField
        <5> QED BY <4>2, <5>1, <5>2, <5>3
      <4> QED BY <1>1, <2>0, <3>1, <4>3
    <3>4. UNCHANGED boxes \/ C_Used(w) \/ D_Unlink(w) \/ P_Terminate(w)
      BY <1>2, <2>6 DEF WorkerStep, S_SpuriousWakeup, RequestsHandler, PublisherStep,
        SubscriberStep, ManagerStep, KilledBySigpipe, P_GetBox, GetBox, P_Read, P_Write, P_Broadcast,
        P_Close, S_GetBox, S_Loop, S_Reacquire, S_Read, S_Send, S_Signal, C_GetBox, C_TfsOpen,
        C_TfsClose, C_Slot, D_GetBox, D_Broadcast, M_Load, M_Store, M_Send, L_Scan, L_Send, table
    <3> QED BY <3>2, <3>3, <3>4
  <2> QED BY <2>1, <2>2, <2>3, <2>4, <2>5, <2>6
<1>3. CASE ~(\E w \in Workers : WorkerStep(w) \/ S_SpuriousWakeup(w))
  <2>1. UNCHANGED <<boxes, pc, loc>>
    BY <1>3 DEF Next, Register, PublisherSend, ClientClose, ClientRead, Die, GiveUp, MainLoop, Sigint,
      table
  <2> QED BY <1>0, <2>1 DEF Counted, Publishing, Subscribed
<1> QED BY <1>2, <1>3

(* Without deletions the box of a session stays in use.                       *)
LEMMA InUseStep ==
  ASSUME SInv, Next
  PROVE  InUse'
<1> SUFFICES ASSUME Deleters = {}
             PROVE  \A u \in Workers :
                       pc'[u] \in PubSession \cup SubSession \cup {"p_register", "s_register"}
                          => boxes'[loc'[u].box].alloc_state = "USED"
  BY DEF InUse
<1>0. BInv /\ InUse /\ BoxesOK /\ WorkersOK /\ loc \in [Workers -> Locals]
      /\ pc \in [Workers -> WorkerPCs] /\ boxes \in [BoxSlots -> BoxType]
  BY DEF SInv, BInv, WorkersOK, BoxesOK, BoxType
<1>d. \A u \in Workers : pc[u] \in PubSession \cup SubSession \cup {"p_register", "s_register"}
                            => loc[u].box \in BoxSlots /\ boxes[loc[u].box].alloc_state = "USED"
  BY <1>0 DEF InUse, WorkersOK, Role, BoxPCs
<1>1. ASSUME NEW w \in Workers, WorkerStep(w) \/ S_SpuriousWakeup(w)
      PROVE  \A u \in Workers :
                pc'[u] \in PubSession \cup SubSession \cup {"p_register", "s_register"}
                   => boxes'[loc'[u].box].alloc_state = "USED"
  <2>0. OthersStay(w) /\ loc[w] \in Locals /\ Role(pc[w], loc[w])
    BY <1>0, <1>1, OthersKept DEF WorkersOK
  <2>1. \A b \in BoxSlots : boxes[b].alloc_state = "USED" => boxes'[b].alloc_state = "USED"
    BY <1>0, UsedKept
  <2>2. ASSUME NEW u \in Workers, u # w,
               pc'[u] \in PubSession \cup SubSession \cup {"p_register", "s_register"}
        PROVE  boxes'[loc'[u].box].alloc_state = "USED"
    <3>1. pc[u] \in PubSession \cup SubSession \cup {"p_register", "s_register"} /\ loc'[u] = loc[u]
      BY <2>0, <2>2 DEF OthersStay
    <3> QED BY <1>d, <2>1, <3>1
  <2>3. ASSUME pc'[w] \in PubSession \cup SubSession \cup {"p_register", "s_register"}
        PROVE  boxes'[loc'[w].box].alloc_state = "USED"
    <3>1. CASE P_GetBox(w) \/ S_GetBox(w)
      <4> DEFINE b == get_box(BoxOf[loc[w].req])
      <4>1. \/ pc'[w] = "idle"
            \/ b # NoBox /\ loc' = [loc EXCEPT ![w].box = b]
        BY <1>0, <3>1 DEF P_GetBox, S_GetBox, GetBox, ClosePipeAndReturn
      <4>2. b # NoBox => b \in BoxSlots /\ boxes[b].alloc_state = "USED"
        BY <1>0, BoxFound
      <4> HIDE DEF b
      <4>3. b # NoBox /\ loc'[w].box = b
        BY <1>0, <2>3, <4>1, AfterBox DEF PubSession, SubSession
      <4> QED BY <2>1, <4>2, <4>3
    <3>2. CASE P_Register(w) \/ S_Register(w)
      <4>1. pc[w] \in {"p_register", "s_register"}
        BY <3>2 DEF P_Register, S_Register
      <4>2. \/ pc'[w] = "idle"
            \/ \E v : loc' = [loc EXCEPT ![w].fd = v]
        BY <1>0, <3>2 DEF P_Register, S_Register, ClosePipeAndReturn
      <4>3. loc'[w].box = loc[w].box
        BY <1>0, <2>3, <4>2, AfterFd DEF PubSession, SubSession
      <4> QED BY <1>d, <2>1, <4>1, <4>3
    <3>3. CASE P_End(w) \/ S_End(w)
      <4>1. pc'[w] \in {"p_close", "idle"}
        BY <1>0, <3>3 DEF P_End, S_End, Goto, ClosePipeAndReturn
      <4> QED BY <2>3, <4>1 DEF PubSession, SubSession
    <3>4. CASE ~(P_GetBox(w) \/ S_GetBox(w) \/ P_Register(w) \/ S_Register(w) \/ P_End(w) \/ S_End(w))
      <4>1. SessionKept(w)
        BY <1>0, <1>1, <3>4, StepKeepsSession
      <4>2. pc'[w] \notin {"p_register", "s_register"} \/ (pc'[w] = pc[w] /\ UNCHANGED loc)
        <5>1. CASE RequestsHandler(w)
          <6>1. Head(requests_queue) \in Clients
            BY <1>0, <5>1 DEF BInv, RequestsOK, RequestsHandler
          <6>2. pc'[w] \in {"idle", "in_open", Handler(Head(requests_queue))}
            BY <1>0, <5>1 DEF RequestsHandler
          <6> QED BY <6>1, <6>2, HandlerKind
        <5>2. CASE KilledBySigpipe(w)
          BY <5>2 DEF KilledBySigpipe
        <5>3. CASE ~RequestsHandler(w) /\ ~KilledBySigpipe(w)
          BY <1>0, <1>1, <3>4, <5>3 DEF WorkerStep, S_SpuriousWakeup, PublisherStep, SubscriberStep,
            ManagerStep, P_Read, P_Write, P_Terminate, P_Broadcast, P_Close, S_Loop, S_Reacquire,
            S_Read, S_Send, S_Signal, C_GetBox, C_TfsOpen, C_TfsClose, C_Slot, C_Used, D_GetBox,
            D_Unlink, D_Broadcast, M_Load, M_Store, M_Send, L_Scan, L_Send, Goto, Respond,
            ClosePipeAndReturn, Broadcast
        <5> QED BY <5>1, <5>2, <5>3
      <4>3. pc[w] \in PubSession \cup SubSession \cup {"p_register", "s_register"}
            /\ loc'[w].box = loc[w].box
        BY <2>3, <4>1, <4>2 DEF SessionKept
      <4> QED BY <1>d, <2>1, <4>3
    <3> QED BY <3>1, <3>2, <3>3, <3>4
  <2> QED BY <2>2, <2>3
<1>2. CASE ~(\E w \in Workers : WorkerStep(w) \/ S_SpuriousWakeup(w))
  <2>1. UNCHANGED <<boxes, pc, loc>>
    BY <1>2 DEF Next, Register, PublisherSend, ClientClose, ClientRead, Die, GiveUp, MainLoop, Sigint,
      table
  <2> QED BY <1>d, <2>1
<1> QED BY <1>1, <1>2

(* The counters are right as long as no slot is given to another box.         *)
LEMMA SInvAlways ==
  ASSUME Deleters = {} \/ Creators = {}
  PROVE  Spec => []SInv
<1>1. Init => SInv
  <2> SUFFICES ASSUME Init PROVE SInv
    OBVIOUS
  <2>0. BInv
    BY BInvInit
  <2>1. \A b \in BoxSlots : Publishing(b) = {} /\ Subscribed(b) = {}
    BY DEF Init, Publishing, Subscribed
  <2>2. \A b \in BoxSlots : boxes[b].n_publishers = 0 /\ boxes[b].n_subscribers = 0
    BY DEF Init, EmptyBox
  <2>3. Counted
    BY <2>1, <2>2, FS_EmptySet DEF Counted
  <2>4. InUse
    BY DEF Init, InUse, PubSession, SubSession
  <2> QED BY <2>0, <2>3, <2>4 DEF SInv
<1>2. SInv /\ [Next]_vars => SInv'
  <2> SUFFICES ASSUME SInv, [Next]_vars PROVE SInv'
    OBVIOUS
  <2>1. BInv'
    BY BInvStep DEF SInv
  <2>2. CASE Next
    BY <2>1, <2>2, CountedStep, InUseStep DEF SInv
  <2>3. CASE UNCHANGED vars
    <3>1. UNCHANGED <<boxes, pc, loc>>
      BY <2>3 DEF vars, table
    <3> QED BY <2>1, <3>1 DEF SInv, Counted, InUse, Publishing, Subscribed
  <2> QED BY <2>2, <2>3
<1> QED BY <1>1, <1>2, PTL DEF Spec

(* The counters of a box never leave their range: none is ever decremented    *)
(* below zero, on any way out of a handler.                                   *)
THEOREM TypeCorrect ==
  ASSUME Deleters = {} \/ Creators = {}
  PROVE  Spec => []TypeOK
<1>1. SInv => TypeOK
  <2> SUFFICES ASSUME SInv PROVE TypeOK
    OBVIOUS
  <2>1. BInv /\ Counted /\ BoxesOK /\ WorkersOK /\ RequestsOK /\ PipesOK
    BY DEF SInv, BInv
  <2>2. \A b \in BoxSlots : /\ boxes[b].n_publishers \in 0..1
                            /\ boxes[b].n_subscribers \in 0..Cardinality(Workers)
    BY <2>1, SessionsFinite, WorkersAssumption, FS_CardinalityType DEF Counted
  <2>3. boxes \in [BoxSlots -> [name : FileNames \cup {NoName}, n_publishers : 0..1,
                                n_subscribers : 0..Cardinality(Workers), size : Nat,
                                alloc_state : {"USED", "NOT_USED"}]]
    BY <2>1, <2>2 DEF BoxesOK
  <2>4. \A w \in Workers : loc[w].box \in BoxSlots \cup {NoBox}
    BY <2>1 DEF WorkersOK, Locals
  <2> QED BY <2>1, <2>3, <2>4 DEF TypeOK, BoxesOK, WorkersOK, RequestsOK, PipesOK
<1>2. Spec => []SInv
  BY SInvAlways
<1> QED BY <1>1, <1>2, PTL

(* The counters of a box are the sessions that are open on it.                *)
THEOREM CountersRight ==
  ASSUME Deleters = {} \/ Creators = {}
  PROVE  Spec => []SessionsCounted
<1>1. SInv => SessionsCounted
  BY DEF SInv, Counted, SessionsCounted
<1>2. Spec => []SInv
  BY SInvAlways
<1> QED BY <1>1, <1>2, PTL

(* No two publishers write to one box.                                        *)
THEOREM PublishersExclusive ==
  ASSUME Deleters = {} \/ Creators = {}
  PROVE  Spec => []OnePublisherPerBox
<1>1. SInv => OnePublisherPerBox
  BY DEF SInv, Counted, OnePublisherPerBox
<1>2. Spec => []SInv
  BY SInvAlways
<1> QED BY <1>1, <1>2, PTL
-----------------------------------------------------------------------------
(* The creations, while no box is deleted *)

Busy(w) == pc[w] \notin {"idle", "in_open"}

\* a client is served once: no two workers have the same request
ReqsDistinct ==
    /\ \A w \in Workers : Busy(w) => client[loc[w].req] \in {"open", "closed", "eof"}
    /\ \A w, u \in Workers : Busy(w) /\ Busy(u) /\ w # u => loc[w].req # loc[u].req

\* between the two steps of the copy the slot is the worker's own, by mbroker_boxes_lock
SlotHeld == \A w \in Workers :
    pc[w] = "c_used" => /\ boxes_lock = w
                        /\ boxes[loc[w].box].name = BoxOf[loc[w].req]
                        /\ boxes[loc[w].box].alloc_state = "NOT_USED"

HasBox(name) == \E b \in BoxSlots : boxes[b].alloc_state = "USED" /\ boxes[b].name = name

\* a success that is on its way to the client
Granted == \A w \in Workers :
    pc[w] \in {"m_load", "m_store", "m_send"} /\ loc[w].msg = <<"OK">>
       => HasBox(BoxOf[loc[w].req])

\* a success that is in the client's pipe or was read
Answered == \A c \in Creators :
    (\E i \in DOMAIN pipe[c] : pipe[c][i] = <<"OK">>)
       \/ (\E i \in DOMAIN received[c] : received[c][i] = <<"OK">>) => HasBox(BoxOf[c])

AnswersOK == /\ DOMAIN received = Clients
             /\ \A c \in Creators : pipe[c] \in Seq(Seq(Symbols)) /\ received[c] \in Seq(Seq(Symbols))

\* the creations that may still take a slot, each at most one
Pending == {c \in Creators : \/ client[c] \in {"new", "opening"}
                             \/ \E w \in Workers : loc[w].req = c /\ pc[w] \in C_PCs}

\* there is a slot for each of them
Room == Cardinality(Pending) <= Cardinality(UnusedSlots)

CInv == BInv /\ ReqsDistinct /\ SlotHeld /\ Granted /\ AnswersOK /\ Answered /\ Room

-----------------------------------------------------------------------------
(* The requests *)

(* A worker that is busy has the request of a client.                         *)
LEMMA ReqClient ==
  ASSUME BInv, NEW w \in Workers, Busy(w)
  PROVE  loc[w].req \in Clients
<1>1. pc[w] \in WorkerPCs /\ Role(pc[w], loc[w])
  BY DEF BInv, WorkersOK
<1> QED BY <1>1 DEF Busy, Role, P_PCs, S_PCs, C_PCs, D_PCs, M_PCs, L_PCs, PubSession, SubSession,
          WorkerPCs, Clients

(* The request of a worker changes only when it takes one or returns.         *)
LEMMA ReqKept ==
  ASSUME BInv, NEW w \in Workers, WorkerStep(w) \/ S_SpuriousWakeup(w), ~RequestsHandler(w)
  PROVE  /\ Busy(w) /\ UNCHANGED client
         /\ pc'[w] = "idle" \/ loc'[w].req = loc[w].req
<1>0. pc \in [Workers -> WorkerPCs] /\ loc \in [Workers -> Locals]
  BY DEF BInv, WorkersOK
<1>1. Busy(w)
  BY DEF Busy, Broadcast, WorkerStep, S_SpuriousWakeup, PublisherStep, SubscriberStep, ManagerStep,
      KilledBySigpipe, P_GetBox, GetBox, P_Register, P_Read, P_Write, P_Terminate, P_Broadcast,
      P_End, P_Close, S_GetBox, S_Register, S_Loop, S_Reacquire, S_Read, S_Send, S_Signal, S_End,
      C_GetBox, C_TfsOpen, C_TfsClose, C_Slot, C_Used, D_GetBox, D_Unlink, D_Broadcast, M_Load,
      M_Store, M_Send, L_Scan, L_Send
<1>2. UNCHANGED client
  BY DEF WorkerStep, S_SpuriousWakeup, PublisherStep, SubscriberStep, ManagerStep,
      KilledBySigpipe, P_GetBox, GetBox, P_Register, P_Read, P_Write, P_Terminate, P_Broadcast,
      P_End, P_Close, S_GetBox, S_Register, S_Loop, S_Reacquire, S_Read, S_Send, S_Signal, S_End,
      C_GetBox, C_TfsOpen, C_TfsClose, C_Slot, C_Used, D_GetBox, D_Unlink, D_Broadcast, M_Load,
      M_Store, M_Send, L_Scan, L_Send,
      ClosePipeAndReturn, pipes
<1>3. \/ pc'[w] = "idle" \/ UNCHANGED loc
      \/ \E v : loc' = [loc EXCEPT ![w].box = v]
      \/ \E v : loc' = [loc EXCEPT ![w].fd = v]
      \/ \E v : loc' = [loc EXCEPT ![w].msg = v]
      \/ \E v : loc' = [loc EXCEPT ![w].total_read = v]
      \/ \E v : loc' = [loc EXCEPT ![w].count = v]
      \/ \E v, m : loc' = [loc EXCEPT ![w].box = v, ![w].msg = m]
  <2>1. CASE PublisherStep(w)
    BY <1>0, <2>1 DEF PublisherStep, P_GetBox, GetBox, P_Register, P_Read, P_Write, P_Terminate,
      P_Broadcast, P_End, P_Close, ClosePipeAndReturn
  <2>2. CASE SubscriberStep(w) \/ S_SpuriousWakeup(w)
    BY <1>0, <2>2 DEF SubscriberStep, S_SpuriousWakeup, S_GetBox, GetBox, S_Register, S_Loop,
      S_Reacquire, S_Read, S_Send, S_Signal, S_End, ClosePipeAndReturn
  <2>3. CASE ManagerStep(w)
    BY <1>0, <2>3 DEF ManagerStep, C_GetBox, C_TfsOpen, C_TfsClose, C_Slot, C_Used, D_GetBox,
      D_Unlink, D_Broadcast, M_Load, M_Store, M_Send, L_Scan, L_Send, ClosePipeAndReturn, Respond,
      Goto
  <2>4. CASE KilledBySigpipe(w)
    BY <2>4 DEF KilledBySigpipe
  <2> QED BY <2>1, <2>2, <2>3, <2>4 DEF WorkerStep
<1>4. ASSUME NEW v, NEW m,
             \/ loc' = [loc EXCEPT ![w].box = v]
             \/ loc' = [loc EXCEPT ![w].fd = v]
             \/ loc' = [loc EXCEPT ![w].msg = v]
             \/ loc' = [loc EXCEPT ![w].total_read = v]
             \/ loc' = [loc EXCEPT ![w].count = v]
             \/ loc' = [loc EXCEPT ![w].box = v, ![w].msg = m]
      PROVE  loc'[w].req = loc[w].req
  BY <1>0, <1>4, AfterBox, AfterFd, AfterMsg, AfterTotalRead, AfterCount, AfterBoxMsg
<1> QED BY <1>1, <1>2, <1>3, <1>4

(* A client that was connected is never new or waiting again.                 *)
LEMMA ClientKept ==
  ASSUME BInv, Next, NEW c \in Clients
  PROVE  /\ client[c] \in {"open", "closed", "eof"} => client'[c] \in {"open", "closed", "eof"}
         /\ client'[c] \in {"new", "opening"} => client[c] \in {"new", "opening"}
<1>0. client \in [Clients -> {"new", "opening", "dead", "removed", "open", "closed", "eof"}]
      /\ requests_queue \in Seq(Clients)
  BY DEF BInv, PipesOK, RequestsOK
<1>1. CASE \E w \in Workers : WorkerStep(w) \/ S_SpuriousWakeup(w)
  <2> PICK w \in Workers : WorkerStep(w) \/ S_SpuriousWakeup(w)
    BY <1>1
  <2>1. CASE RequestsHandler(w)
    BY <1>0, <2>1 DEF RequestsHandler, SetClient
  <2>2. CASE ~RequestsHandler(w)
    BY <2>2, ReqKept
  <2> QED BY <2>1, <2>2
<1>2. CASE ~(\E w \in Workers : WorkerStep(w) \/ S_SpuriousWakeup(w))
  BY <1>0, <1>2 DEF Next, Register, PublisherSend, ClientClose, ClientRead, Die, GiveUp, MainLoop,
    Sigint, SetClient, pipes
<1> QED BY <1>1, <1>2

(* No request is served twice.                                                *)
LEMMA ReqsDistinctStep ==
  ASSUME BInv, ReqsDistinct, Next
  PROVE  ReqsDistinct'
<1>0. /\ client \in [Clients -> {"new", "opening", "dead", "removed", "open", "closed", "eof"}]
      /\ pc \in [Workers -> WorkerPCs] /\ loc \in [Workers -> Locals]
  BY DEF BInv, PipesOK, WorkersOK
<1>1. \A u \in Workers : Busy(u) => /\ loc[u].req \in Clients
                                    /\ client[loc[u].req] \in {"open", "closed", "eof"}
                                    /\ client'[loc[u].req] \in {"open", "closed", "eof"}
  BY ReqClient, ClientKept DEF ReqsDistinct
<1>2. ASSUME NEW w \in Workers, WorkerStep(w) \/ S_SpuriousWakeup(w) PROVE ReqsDistinct'
  <2>1. \A u \in Workers : u # w => loc'[u] = loc[u] /\ (Busy(u)' => Busy(u))
    BY <1>2, OthersMove DEF Busy
  <2>2. CASE RequestsHandler(w)
    <3> DEFINE c == Head(requests_queue)
    <3>0. c \in Clients
      BY <2>2 DEF BInv, RequestsOK, RequestsHandler
    <3>1. CASE client[c] = "opening"
      <4>1. loc'[w].req = c /\ client'[c] = "open"
        BY <1>0, <2>2, <3>0, <3>1, AfterReq DEF RequestsHandler, SetClient
      <4>2. \A u \in Workers : Busy(u) => loc[u].req # c
        BY <1>1, <3>1
      <4> HIDE DEF c
      <4> QED BY <1>1, <2>1, <4>1, <4>2 DEF ReqsDistinct
    <3>2. CASE client[c] # "opening"
      <4>1. ~Busy(w)'
        BY <1>0, <2>2, <3>2 DEF RequestsHandler, Busy
      <4> QED BY <1>1, <2>1, <4>1 DEF ReqsDistinct
    <3> QED BY <3>1, <3>2
  <2>3. CASE ~RequestsHandler(w)
    <3>1. Busy(w) /\ UNCHANGED client /\ (Busy(w)' => loc'[w].req = loc[w].req)
      BY <1>2, <2>3, ReqKept DEF Busy
    <3> QED BY <1>1, <2>1, <3>1 DEF ReqsDistinct
  <2> QED BY <2>2, <2>3
<1>3. CASE ~(\E w \in Workers : WorkerStep(w) \/ S_SpuriousWakeup(w))
  <2>1. UNCHANGED <<pc, loc>>
    BY <1>3 DEF Next, Register, PublisherSend, ClientClose, ClientRead, Die, GiveUp, MainLoop, Sigint
  <2> QED BY <1>1, <2>1 DEF ReqsDistinct, Busy
<1> QED BY <1>2, <1>3

-----------------------------------------------------------------------------
(* The slots *)

(* The copy of a new box into its slot is not disturbed.                      *)
LEMMA SlotHeldStep ==
  ASSUME BInv, SlotHeld, Next, Deleters = {}
  PROVE  SlotHeld'
<1>0. /\ BoxesOK /\ boxes \in [BoxSlots -> BoxType]
      /\ pc \in [Workers -> WorkerPCs] /\ loc \in [Workers -> Locals]
  BY DEF BInv, WorkersOK, BoxesOK, BoxType
<1>1. \A u \in Workers : pc[u] = "c_used" => loc[u].box \in BoxSlots /\ boxes_lock = u /\ u # Nobody
  BY BrokerAssumption DEF BInv, WorkersOK, Role, BoxPCs, SlotHeld
<1>2. ASSUME NEW w \in Workers, WorkerStep(w) \/ S_SpuriousWakeup(w) PROVE SlotHeld'
  <2>0. Role(pc[w], loc[w])
    BY DEF BInv, WorkersOK
  <2>1. \A u \in Workers : u # w => loc'[u] = loc[u] /\ (pc'[u] = "c_used" => pc[u] = "c_used")
    BY <1>2, OthersMove
  <2>2. CASE C_Slot(w)
    <3>1. \A u \in Workers : pc[u] # "c_used"
      BY <1>1, <2>2 DEF C_Slot
    <3>2. CASE UnusedSlots = {}
      <4>1. pc'[w] # "c_used"
        BY <1>0, <2>2, <3>2 DEF C_Slot
      <4> QED BY <2>1, <3>1, <4>1 DEF SlotHeld
    <3>3. CASE UnusedSlots # {}
      <4> DEFINE b == First(UnusedSlots)
                 new == [EmptyBox(BoxOf[loc[w].req]) EXCEPT !.alloc_state = "NOT_USED"]
      <4>1. b \in BoxSlots
        BY <1>0, <3>3, SlotFound
      <4>2. new.name = BoxOf[loc[w].req] /\ new.alloc_state = "NOT_USED"
        BY DEF EmptyBox
      <4>3. boxes' = [boxes EXCEPT ![b] = new] /\ boxes_lock' = w
            /\ loc' = [loc EXCEPT ![w].box = b]
        BY <2>2, <3>3 DEF C_Slot
      <4> HIDE DEF b, new
      <4>4. boxes'[b] = new /\ loc'[w].box = b /\ loc'[w].req = loc[w].req
        BY <1>0, <4>1, <4>3, AfterBox
      <4> QED BY <2>1, <3>1, <4>2, <4>3, <4>4 DEF SlotHeld
    <3> QED BY <3>2, <3>3
  <2>3. CASE C_Used(w)
    <3>1. pc[w] = "c_used" /\ pc'[w] # "c_used"
      BY <1>0, <2>3 DEF C_Used, Goto
    <3>2. \A u \in Workers : u # w => pc[u] # "c_used"
      BY <1>1, <3>1
    <3> QED BY <2>1, <3>1, <3>2 DEF SlotHeld
  <2>4. CASE ~C_Slot(w) /\ ~C_Used(w)
    <3>1. ~D_Unlink(w)
      BY <2>0 DEF D_Unlink, Role, D_PCs
    <3>2. UNCHANGED boxes_lock
      BY <1>2, <2>4 DEF WorkerStep, S_SpuriousWakeup, RequestsHandler,
        PublisherStep, SubscriberStep, ManagerStep,
      KilledBySigpipe, P_GetBox, GetBox, P_Register, P_Read, P_Write, P_Terminate, P_Broadcast,
      P_End, P_Close, S_GetBox, S_Register, S_Loop, S_Reacquire, S_Read, S_Send, S_Signal, S_End,
      C_GetBox, C_TfsOpen, C_TfsClose, C_Slot, C_Used, D_GetBox, D_Unlink, D_Broadcast, M_Load,
      M_Store, M_Send, L_Scan, L_Send, table
    <3>3. pc'[w] # "c_used"
      <4>1. CASE RequestsHandler(w)
        <5>1. Head(requests_queue) \in Clients
          BY <4>1 DEF BInv, RequestsOK, RequestsHandler
        <5>2. pc'[w] \in {"idle", "in_open", Handler(Head(requests_queue))}
          BY <1>0, <4>1 DEF RequestsHandler
        <5> QED BY <5>1, <5>2, HandlerKind
      <4>2. CASE KilledBySigpipe(w)
        BY <4>2 DEF KilledBySigpipe
      <4>3. CASE ~RequestsHandler(w) /\ ~KilledBySigpipe(w)
        BY <1>0, <1>2, <2>4, <4>3 DEF WorkerStep, S_SpuriousWakeup, PublisherStep, SubscriberStep, ManagerStep,
      KilledBySigpipe, P_GetBox, GetBox, P_Register, P_Read, P_Write, P_Terminate, P_Broadcast,
      P_End, P_Close, S_GetBox, S_Register, S_Loop, S_Reacquire, S_Read, S_Send, S_Signal, S_End,
      C_GetBox, C_TfsOpen, C_TfsClose, C_Slot, C_Used, D_GetBox, D_Unlink, D_Broadcast, M_Load,
      M_Store, M_Send, L_Scan, L_Send,
          Goto, Respond, ClosePipeAndReturn, Broadcast
      <4> QED BY <4>1, <4>2, <4>3
    <3> QED BY <1>1, <1>2, <2>1, <2>4, <3>1, <3>2, <3>3, BoxesKept DEF SlotHeld
  <2> QED BY <2>2, <2>3, <2>4
<1>3. CASE ~(\E w \in Workers : WorkerStep(w) \/ S_SpuriousWakeup(w))
  <2>1. UNCHANGED <<pc, loc, boxes, boxes_lock>>
    BY <1>3 DEF Next, Register, PublisherSend, ClientClose, ClientRead, Die, GiveUp, MainLoop, Sigint,
      table
  <2> QED BY <2>1 DEF SlotHeld
<1> QED BY <1>2, <1>3

(* A name that has a box keeps it.                                            *)
LEMMA HasBoxKept ==
  ASSUME BInv, Next, Deleters = {}, NEW name, HasBox(name)
  PROVE  HasBox(name)'
<1>1. PICK b \in BoxSlots : boxes[b].alloc_state = "USED" /\ boxes[b].name = name
  BY DEF HasBox
<1>2. boxes'[b].alloc_state = "USED" /\ boxes'[b].name = name
  BY <1>1, UsedKept
<1> QED BY <1>2 DEF HasBox

(* A creation in progress finds a slot that is not in use.                    *)
LEMMA SlotLeft ==
  ASSUME BInv, Room, IsFiniteSet(Creators), NEW w \in Workers, pc[w] = "c_slot"
  PROVE  UnusedSlots # {}
<1>1. loc[w].req \in Creators
  BY DEF BInv, WorkersOK, Role, C_PCs
<1>2. loc[w].req \in Pending
  BY <1>1 DEF Pending, C_PCs
<1>3. IsFiniteSet(Pending)
  <2>1. Pending \subseteq Creators
    BY DEF Pending
  <2> QED BY <2>1, FS_Subset
<1>4. Cardinality(Pending) # 0 /\ Cardinality(Pending) \in Nat
  BY <1>2, <1>3, FS_EmptySet, FS_CardinalityType
<1> QED BY <1>4, FS_EmptySet DEF Room

(* A worker that answers with success has left a box of that name.            *)
LEMMA GrantedStep ==
  ASSUME CInv, Next, Deleters = {}, IsFiniteSet(Creators)
  PROVE  Granted'
<1>0. /\ BInv /\ SlotHeld /\ Granted /\ Room /\ BoxesOK /\ boxes \in [BoxSlots -> BoxType]
      /\ pc \in [Workers -> WorkerPCs] /\ loc \in [Workers -> Locals]
  BY DEF CInv, BInv, WorkersOK, BoxesOK, BoxType
<1>1. ASSUME NEW w \in Workers, WorkerStep(w) \/ S_SpuriousWakeup(w) PROVE Granted'
  <2>0. Role(pc[w], loc[w]) /\ loc[w] \in Locals
    BY <1>0 DEF BInv, WorkersOK
  <2>1. ASSUME NEW u \in Workers, u # w, pc'[u] \in {"m_load", "m_store", "m_send"},
               loc'[u].msg = <<"OK">>
        PROVE  HasBox(BoxOf[loc[u].req])'
    <3>1. loc'[u] = loc[u] /\ pc'[u] = pc[u]
      BY <1>0, <1>1, <2>1, OthersMove
    <3>2. HasBox(BoxOf[loc[u].req])
      BY <1>0, <2>1, <3>1 DEF Granted
    <3> PICK name : name = BoxOf[loc[u].req]
      OBVIOUS
    <3>3. HasBox(name)'
      BY <1>0, <3>2, HasBoxKept
    <3> QED BY <3>1, <3>3 DEF HasBox
  <2>2. ASSUME pc'[w] \in {"m_load", "m_store", "m_send"}, loc'[w].msg = <<"OK">>
        PROVE  HasBox(BoxOf[loc[w].req])'
    <3>1. CASE M_Load(w) \/ M_Store(w)
      <4>1. pc[w] \in {"m_load", "m_store", "m_send"} /\ loc'[w].req = loc[w].req
            /\ loc'[w].msg = loc[w].msg
        BY <1>0, <3>1, AfterCount DEF M_Load, M_Store
      <4>2. HasBox(BoxOf[loc[w].req])
        BY <1>0, <2>2, <4>1 DEF Granted
      <4> PICK name : name = BoxOf[loc[w].req]
        OBVIOUS
      <4>3. HasBox(name)'
        BY <1>0, <4>2, HasBoxKept
      <4> QED BY <4>1, <4>3 DEF HasBox
    <3>2. CASE C_Used(w)
      <4>1. /\ loc[w].box \in BoxSlots /\ UNCHANGED loc
            /\ boxes' = [boxes EXCEPT ![loc[w].box].alloc_state = "USED"]
            /\ boxes[loc[w].box].name = BoxOf[loc[w].req]
        BY <1>0, <2>0, <3>2 DEF C_Used, Role, BoxPCs, SlotHeld
      <4> PICK b \in BoxSlots : b = loc[w].box
        BY <4>1
      <4>2. boxes' = [boxes EXCEPT ![b].alloc_state = "USED"]
        BY <4>1
      <4>3. \A x \in BoxSlots : boxes'[x].alloc_state = IF x = b THEN "USED"
                                                        ELSE boxes[x].alloc_state
        BY <1>0, <4>2, AfterField
      <4>4. \A x \in BoxSlots : boxes'[x].name = boxes[x].name
        BY <1>0, <4>2, AfterField
      <4> QED BY <4>1, <4>3, <4>4 DEF HasBox
    <3>3. CASE C_GetBox(w) \/ C_TfsOpen(w)
      <4>1. pc'[w] = "m_send" => loc' = [loc EXCEPT ![w].msg = <<"ERR">>]
        BY <1>0, <3>3 DEF C_GetBox, C_TfsOpen, Respond, Goto
      <4>2. pc'[w] \in {"m_send", "c_tfs_open", "c_tfs_close"}
        BY <1>0, <3>3 DEF C_GetBox, C_TfsOpen, Respond, Goto
      <4>3. loc'[w].msg = <<"ERR">>
        BY <1>0, <2>2, <4>1, <4>2, AfterMsg
      <4>4. <<"ERR">> # <<"OK">>
        OBVIOUS
      <4> QED BY <2>2, <4>3, <4>4
    <3>4. CASE C_Slot(w)
      <4>1. UnusedSlots # {}
        BY <1>0, <3>4, SlotLeft DEF C_Slot
      <4>2. pc'[w] = "c_used"
        BY <1>0, <3>4, <4>1 DEF C_Slot
      <4> QED BY <2>2, <4>2
    <3>5. CASE ~(M_Load(w) \/ M_Store(w) \/ C_Used(w) \/ C_GetBox(w) \/ C_TfsOpen(w) \/ C_Slot(w))
      <4>1. ~(D_GetBox(w) \/ D_Unlink(w) \/ D_Broadcast(w))
        BY <2>0 DEF D_GetBox, D_Unlink, D_Broadcast, Broadcast, Role, D_PCs
      <4>2. CASE RequestsHandler(w)
        <5>1. Head(requests_queue) \in Clients
          BY <1>0, <4>2 DEF BInv, RequestsOK, RequestsHandler
        <5>2. pc'[w] \in {"idle", "in_open", Handler(Head(requests_queue))}
          BY <1>0, <4>2 DEF RequestsHandler
        <5> QED BY <2>2, <5>1, <5>2, HandlerKind
      <4>3. CASE KilledBySigpipe(w)
        <5>1. UNCHANGED <<pc, loc, boxes>>
          BY <4>3 DEF KilledBySigpipe, table
        <5> QED BY <1>0, <2>2, <5>1 DEF Granted, HasBox
      <4>4. CASE ~RequestsHandler(w) /\ ~KilledBySigpipe(w)
        <5>1. pc'[w] \notin {"m_load", "m_store", "m_send"}
          BY <1>0, <1>1, <3>5, <4>1, <4>4 DEF WorkerStep, S_SpuriousWakeup, PublisherStep,
            SubscriberStep, ManagerStep, P_GetBox, GetBox, P_Register, P_Read, P_Write, P_Terminate,
            P_Broadcast, P_End, P_Close, S_GetBox, S_Register, S_Loop, S_Reacquire, S_Read, S_Send,
            S_Signal, S_End, C_TfsClose, M_Send, L_Scan, L_Send, Goto, ClosePipeAndReturn, Broadcast
        <5> QED BY <2>2, <5>1
      <4> QED BY <4>2, <4>3, <4>4
    <3> QED BY <3>1, <3>2, <3>3, <3>4, <3>5
  <2> QED BY <2>1, <2>2 DEF Granted
<1>2. CASE ~(\E w \in Workers : WorkerStep(w) \/ S_SpuriousWakeup(w))
  <2>1. UNCHANGED <<pc, loc, boxes>>
    BY <1>2 DEF Next, Register, PublisherSend, ClientClose, ClientRead, Die, GiveUp, MainLoop, Sigint,
      table
  <2> QED BY <1>0, <2>1 DEF Granted, HasBox
<1> QED BY <1>1, <1>2

(* What happens to the answers of a creator: one is written when a worker     *)
(* sends it, one is read when the client takes it, else they stay.            *)
LEMMA AnswersMove ==
  ASSUME BInv, AnswersOK, Next, NEW c \in Creators
  PROVE  \/ pipe'[c] = pipe[c] /\ received'[c] = received[c]
         \/ /\ pipe[c] # <<>> /\ pipe'[c] = Tail(pipe[c])
            /\ received'[c] = Append(received[c], Head(pipe[c]))
         \/ \E w \in Workers : /\ pc[w] = "m_send" /\ loc[w].req = c
                               /\ pipe'[c] = Append(pipe[c], loc[w].msg)
                               /\ received'[c] = received[c]
<1>0. DOMAIN pipe = Clients /\ DOMAIN received = Clients /\ c \in Clients
  BY DEF BInv, PipesOK, AnswersOK, Clients
<1>1. ASSUME NEW w \in Workers, WorkerStep(w) \/ S_SpuriousWakeup(w)
      PROVE  \/ pipe'[c] = pipe[c] /\ received'[c] = received[c]
             \/ /\ pc[w] = "m_send" /\ loc[w].req = c
                /\ pipe'[c] = Append(pipe[c], loc[w].msg) /\ received'[c] = received[c]
  <2>0. Role(pc[w], loc[w])
    BY DEF BInv, WorkersOK
  <2>1. UNCHANGED received
    BY <1>1 DEF WorkerStep, S_SpuriousWakeup, RequestsHandler, PublisherStep, SubscriberStep, ManagerStep,
      KilledBySigpipe, P_GetBox, GetBox, P_Register, P_Read, P_Write, P_Terminate, P_Broadcast,
      P_End, P_Close, S_GetBox, S_Register, S_Loop, S_Reacquire, S_Read, S_Send, S_Signal, S_End,
      C_GetBox, C_TfsOpen, C_TfsClose, C_Slot, C_Used, D_GetBox, D_Unlink, D_Broadcast, M_Load,
      M_Store, M_Send, L_Scan, L_Send,
      ClosePipeAndReturn, pipes
  <2>2. CASE M_Send(w)
    BY <1>0, <2>1, <2>2 DEF M_Send, pipes
  <2>3. CASE P_Read(w) \/ P_Close(w) \/ S_Send(w) \/ L_Send(w)
    <3>1. loc[w].req \in Publishers \cup Subscribers \cup Listers
      BY <2>0, <2>3 DEF P_Read, P_Close, S_Send, L_Send, Role, P_PCs, S_PCs, L_PCs, PubSession,
        SubSession
    <3>2. loc[w].req # c
      BY <3>1, ClientsAssumption
    <3> QED BY <1>0, <2>1, <2>3, <3>2 DEF P_Read, P_Close, S_Send, L_Send
  <2>4. CASE ~(M_Send(w) \/ P_Read(w) \/ P_Close(w) \/ S_Send(w) \/ L_Send(w))
    <3>1. UNCHANGED pipe
      BY <1>1, <2>4 DEF WorkerStep, S_SpuriousWakeup, RequestsHandler, PublisherStep, SubscriberStep, ManagerStep,
      KilledBySigpipe, P_GetBox, GetBox, P_Register, P_Read, P_Write, P_Terminate, P_Broadcast,
      P_End, P_Close, S_GetBox, S_Register, S_Loop, S_Reacquire, S_Read, S_Send, S_Signal, S_End,
      C_GetBox, C_TfsOpen, C_TfsClose, C_Slot, C_Used, D_GetBox, D_Unlink, D_Broadcast, M_Load,
      M_Store, M_Send, L_Scan, L_Send,
        ClosePipeAndReturn, pipes
    <3> QED BY <2>1, <3>1
  <2> QED BY <2>2, <2>3, <2>4
<1>2. CASE ~(\E w \in Workers : WorkerStep(w) \/ S_SpuriousWakeup(w))
  <2>1. CASE \E d \in Publishers : PublisherSend(d)
    BY <1>0, <2>1, ClientsAssumption DEF PublisherSend
  <2>2. CASE \E d \in Clients \ Publishers : ClientRead(d)
    BY <1>0, <2>2 DEF ClientRead
  <2>3. CASE ~(\E d \in Publishers : PublisherSend(d)) /\ ~(\E d \in Clients \ Publishers : ClientRead(d))
    BY <1>2, <2>3 DEF Next, Register, ClientClose, Die, GiveUp, MainLoop, Sigint, pipes
  <2> QED BY <2>1, <2>2, <2>3
<1> QED BY <1>1, <1>2

(* An element of a sequence to  which one was appended.                       *)
LEMMA AppendElements ==
  ASSUME NEW S, NEW s \in Seq(S), NEW e \in S, NEW a, a = Append(s, e)
  PROVE  \A i \in DOMAIN a : a[i] = e \/ (i \in DOMAIN s /\ a[i] = s[i])
<1> SUFFICES ASSUME NEW i \in DOMAIN a PROVE a[i] = e \/ (i \in DOMAIN s /\ a[i] = s[i])
  OBVIOUS
<1>1. i \in 1..Len(s) + 1 /\ Len(s) \in Nat
  OBVIOUS
<1>2. CASE i = Len(s) + 1
  BY <1>2
<1>3. CASE i # Len(s) + 1
  BY <1>1, <1>3
<1> QED BY <1>2, <1>3

(* A client that holds or read a success has its box.                         *)
LEMMA AnsweredStep ==
  ASSUME CInv, Next, Deleters = {}
  PROVE  AnswersOK' /\ Answered'
<1>0. /\ BInv /\ Granted /\ Answered /\ AnswersOK /\ PipesOK
      /\ \A w \in Workers : loc[w].msg \in Seq(Symbols)
  BY DEF CInv, BInv, WorkersOK, Locals
<1>1. DOMAIN received' = Clients
  <2>1. \/ UNCHANGED received
        \/ \E d \in Clients : received' = [received EXCEPT ![d] = Append(@, Head(pipe[d]))]
    <3>1. ASSUME NEW w \in Workers, WorkerStep(w) \/ S_SpuriousWakeup(w) PROVE UNCHANGED received
      BY <3>1 DEF WorkerStep, S_SpuriousWakeup, RequestsHandler, PublisherStep, SubscriberStep, ManagerStep,
      KilledBySigpipe, P_GetBox, GetBox, P_Register, P_Read, P_Write, P_Terminate, P_Broadcast,
      P_End, P_Close, S_GetBox, S_Register, S_Loop, S_Reacquire, S_Read, S_Send, S_Signal, S_End,
      C_GetBox, C_TfsOpen, C_TfsClose, C_Slot, C_Used, D_GetBox, D_Unlink, D_Broadcast, M_Load,
      M_Store, M_Send, L_Scan, L_Send,
        ClosePipeAndReturn, pipes
    <3>2. CASE \E d \in Clients \ Publishers : ClientRead(d)
      BY <3>2 DEF ClientRead
    <3>3. CASE ~(\E w \in Workers : WorkerStep(w) \/ S_SpuriousWakeup(w))
               /\ ~(\E d \in Clients \ Publishers : ClientRead(d))
      BY <3>3 DEF Next, Register, PublisherSend, ClientClose, Die, GiveUp, MainLoop, Sigint, pipes
    <3> QED BY <3>1, <3>2, <3>3
  <2> QED BY <1>0, <2>1 DEF AnswersOK
<1>2. ASSUME NEW c \in Creators
      PROVE  /\ pipe'[c] \in Seq(Seq(Symbols)) /\ received'[c] \in Seq(Seq(Symbols))
             /\ (\E i \in DOMAIN pipe'[c] : pipe'[c][i] = <<"OK">>)
                   \/ (\E i \in DOMAIN received'[c] : received'[c][i] = <<"OK">>)
                      => HasBox(BoxOf[c])'
  <2>0. pipe[c] \in Seq(Seq(Symbols)) /\ received[c] \in Seq(Seq(Symbols))
    BY <1>0 DEF AnswersOK
  <2>1. HasBox(BoxOf[c]) => HasBox(BoxOf[c])'
    BY <1>0, HasBoxKept
  <2>2. (\E i \in DOMAIN pipe[c] : pipe[c][i] = <<"OK">>)
           \/ (\E i \in DOMAIN received[c] : received[c][i] = <<"OK">>) => HasBox(BoxOf[c])'
    BY <1>0, <2>1 DEF Answered
  <2>3. CASE pipe'[c] = pipe[c] /\ received'[c] = received[c]
    BY <2>0, <2>2, <2>3
  <2>4. CASE /\ pipe[c] # <<>> /\ pipe'[c] = Tail(pipe[c])
             /\ received'[c] = Append(received[c], Head(pipe[c]))
    <3>1. \A i \in DOMAIN pipe'[c] : i + 1 \in DOMAIN pipe[c] /\ pipe'[c][i] = pipe[c][i + 1]
      BY <2>0, <2>4
    <3>2. Head(pipe[c]) = pipe[c][1] /\ 1 \in DOMAIN pipe[c]
      BY <2>0, <2>4
    <3>3. \A i \in DOMAIN received'[c] :
             \/ received'[c][i] = Head(pipe[c])
             \/ i \in DOMAIN received[c] /\ received'[c][i] = received[c][i]
      <4>1. Head(pipe[c]) \in Seq(Symbols)
        BY <2>0, <3>2
      <4> DEFINE a == Append(received[c], Head(pipe[c]))
      <4>2. \A i \in DOMAIN a : a[i] = Head(pipe[c]) \/ (i \in DOMAIN received[c] /\ a[i] = received[c][i])
        <5>1. a = Append(received[c], Head(pipe[c]))
          OBVIOUS
        <5> HIDE DEF a
        <5> QED BY <2>0, <4>1, <5>1, AppendElements
      <4>3. received'[c] = a
        BY <2>4
      <4> HIDE DEF a
      <4> QED BY <4>2, <4>3
    <3>4. pipe'[c] \in Seq(Seq(Symbols)) /\ received'[c] \in Seq(Seq(Symbols))
      BY <2>0, <2>4, <3>2
    <3> QED BY <2>2, <3>1, <3>2, <3>3, <3>4
  <2>5. ASSUME NEW w \in Workers, pc[w] = "m_send", loc[w].req = c,
               pipe'[c] = Append(pipe[c], loc[w].msg), received'[c] = received[c]
        PROVE  /\ pipe'[c] \in Seq(Seq(Symbols)) /\ received'[c] \in Seq(Seq(Symbols))
               /\ (\E i \in DOMAIN pipe'[c] : pipe'[c][i] = <<"OK">>)
                     \/ (\E i \in DOMAIN received'[c] : received'[c][i] = <<"OK">>)
                        => HasBox(BoxOf[c])'
    <3>1. \A i \in DOMAIN pipe'[c] :
             \/ pipe'[c][i] = loc[w].msg
             \/ i \in DOMAIN pipe[c] /\ pipe'[c][i] = pipe[c][i]
      <4> DEFINE a == Append(pipe[c], loc[w].msg)
      <4>1. \A i \in DOMAIN a : a[i] = loc[w].msg \/ (i \in DOMAIN pipe[c] /\ a[i] = pipe[c][i])
        <5>1. a = Append(pipe[c], loc[w].msg)
          OBVIOUS
        <5> HIDE DEF a
        <5> QED BY <1>0, <2>0, <5>1, AppendElements
      <4>2. pipe'[c] = a
        BY <2>5
      <4> HIDE DEF a
      <4> QED BY <4>1, <4>2
    <3>2. loc[w].msg = <<"OK">> => HasBox(BoxOf[c])
      BY <1>0, <2>5 DEF Granted
    <3>3. pipe'[c] \in Seq(Seq(Symbols)) /\ received'[c] \in Seq(Seq(Symbols))
      BY <1>0, <2>0, <2>5
    <3> QED BY <2>1, <2>2, <2>5, <3>1, <3>2, <3>3
  <2> QED BY <1>0, <2>3, <2>4, <2>5, AnswersMove
<1> QED BY <1>1, <1>2 DEF AnswersOK, Answered

(* No creation takes a slot that another one needs.                           *)
LEMMA RoomStep ==
  ASSUME CInv, Next, Deleters = {}, IsFiniteSet(Creators)
  PROVE  Room'
<1>0. /\ BInv /\ ReqsDistinct /\ SlotHeld /\ Room /\ BoxesOK /\ boxes \in [BoxSlots -> BoxType]
      /\ pc \in [Workers -> WorkerPCs] /\ loc \in [Workers -> Locals]
  BY DEF CInv, BInv, WorkersOK, BoxesOK, BoxType
<1>1. IsFiniteSet(Pending) /\ IsFiniteSet(Pending') /\ IsFiniteSet(UnusedSlots) /\ IsFiniteSet(UnusedSlots')
  <2>1. IsFiniteSet(BoxSlots)
    BY BrokerAssumption, FS_Interval DEF BoxSlots
  <2>2. Pending \subseteq Creators /\ Pending' \subseteq Creators
        /\ UnusedSlots \subseteq BoxSlots /\ UnusedSlots' \subseteq BoxSlots
    BY DEF Pending, UnusedSlots
  <2> QED BY <2>1, <2>2, FS_Subset
\* the requests are not more, and the slots not fewer
<1>2. ASSUME Pending' \subseteq Pending, UnusedSlots \subseteq UnusedSlots' PROVE Room'
  <2>1. Cardinality(Pending') <= Cardinality(Pending)
        /\ Cardinality(UnusedSlots) <= Cardinality(UnusedSlots')
    BY <1>1, <1>2, FS_Subset
  <2>2. Cardinality(Pending') \in Nat /\ Cardinality(Pending) \in Nat
        /\ Cardinality(UnusedSlots) \in Nat /\ Cardinality(UnusedSlots') \in Nat
    BY <1>1, FS_CardinalityType
  <2> QED BY <1>0, <2>1, <2>2 DEF Room
<1>3. \A c \in Creators : client'[c] \in {"new", "opening"} => client[c] \in {"new", "opening"}
  BY <1>0, ClientKept DEF Clients
<1>4. ASSUME NEW w \in Workers, WorkerStep(w) \/ S_SpuriousWakeup(w) PROVE Room'
  <2>0. Role(pc[w], loc[w])
    BY <1>0 DEF BInv, WorkersOK
  <2>1. \A u \in Workers : u # w => loc'[u] = loc[u] /\ (pc'[u] \in C_PCs => pc[u] = pc'[u])
    BY <1>0, <1>4, OthersMove DEF C_PCs
  <2>2. CASE C_Used(w)
    <3> PICK b \in BoxSlots, c \in Creators : b = loc[w].box /\ c = loc[w].req
      BY <2>0, <2>2 DEF C_Used, Role, BoxPCs, C_PCs
    <3>1. /\ pc[w] = "c_used" /\ pc'[w] = "m_load" /\ UNCHANGED <<loc, client>>
          /\ boxes' = [boxes EXCEPT ![b].alloc_state = "USED"]
          /\ boxes[b].alloc_state = "NOT_USED"
      BY <1>0, <2>2 DEF C_Used, Goto, pipes, SlotHeld
    <3>2. UnusedSlots' = UnusedSlots \ {b} /\ b \in UnusedSlots
      <4>1. \A x \in BoxSlots : boxes'[x].alloc_state = IF x = b THEN "USED" ELSE boxes[x].alloc_state
        BY <1>0, <3>1, AfterField
      <4> QED BY <3>1, <4>1 DEF UnusedSlots
    <3>3. c \in Pending
      BY <3>1 DEF Pending, C_PCs
    <3>4. Pending' \subseteq Pending \ {c}
      <4>1. client[c] \notin {"new", "opening"}
        BY <1>0, <3>1 DEF ReqsDistinct, Busy
      <4>2. \A u \in Workers : pc[u] \in C_PCs /\ u # w => loc[u].req # c
        BY <1>0, <3>1 DEF ReqsDistinct, Busy, C_PCs
      <4>3. pc'[w] \notin C_PCs
        BY <3>1 DEF C_PCs
      <4> QED BY <2>1, <3>1, <4>1, <4>2, <4>3 DEF Pending
    <3>5. Cardinality(UnusedSlots') = Cardinality(UnusedSlots) - 1
      BY <1>1, <3>2, FS_RemoveElement
    <3>6. Cardinality(Pending \ {c}) = Cardinality(Pending) - 1 /\ IsFiniteSet(Pending \ {c})
      BY <1>1, <3>3, FS_RemoveElement
    <3>7. Cardinality(Pending') <= Cardinality(Pending \ {c})
      BY <3>4, <3>6, FS_Subset
    <3>8. Cardinality(Pending') \in Nat /\ Cardinality(Pending) \in Nat
          /\ Cardinality(UnusedSlots) \in Nat
      BY <1>1, FS_CardinalityType
    <3> QED BY <1>0, <3>5, <3>6, <3>7, <3>8 DEF Room
  <2>3. CASE ~C_Used(w)
    <3>1. UnusedSlots \subseteq UnusedSlots'
      <4>1. CASE C_Slot(w)
        <5>1. CASE UnusedSlots = {}
          BY <5>1
        <5>2. CASE UnusedSlots # {}
          <6> DEFINE b == First(UnusedSlots)
                     new == [EmptyBox(BoxOf[loc[w].req]) EXCEPT !.alloc_state = "NOT_USED"]
          <6>1. new.alloc_state = "NOT_USED"
            BY DEF EmptyBox
          <6>2. boxes' = [boxes EXCEPT ![b] = new]
            BY <4>1, <5>2 DEF C_Slot
          <6> HIDE DEF b, new
          <6>3. \A x \in BoxSlots : boxes'[x] = IF x = b THEN new ELSE boxes[x]
            BY <1>0, <6>2
          <6> QED BY <6>1, <6>3 DEF UnusedSlots
        <5> QED BY <5>1, <5>2
      <4>2. CASE ~C_Slot(w)
        <5>1. ~D_Unlink(w)
          BY <2>0 DEF D_Unlink, Role, D_PCs
        <5> QED BY <1>0, <1>4, <2>3, <4>2, <5>1, BoxesKept DEF UnusedSlots
      <4> QED BY <4>1, <4>2
    <3>2. pc'[w] \in C_PCs => \/ pc[w] \in C_PCs /\ loc'[w].req = loc[w].req
                              \/ loc'[w].req \in Creators /\ client[loc'[w].req] = "opening"
      <4>1. CASE RequestsHandler(w)
        <5> DEFINE c == Head(requests_queue)
        <5>1. c \in Clients
          BY <1>0, <4>1 DEF BInv, RequestsOK, RequestsHandler
        <5>2. \/ pc'[w] \in {"idle", "in_open"}
              \/ pc'[w] = Handler(c) /\ client[c] = "opening" /\ loc'[w].req = c
          BY <1>0, <4>1, AfterReq DEF RequestsHandler
        <5> HIDE DEF c
        <5> QED BY <5>1, <5>2, HandlerKind DEF C_PCs
      <4>2. CASE KilledBySigpipe(w)
        BY <4>2 DEF KilledBySigpipe, C_PCs
      <4>3. CASE ~RequestsHandler(w) /\ ~KilledBySigpipe(w)
        <5>1. pc'[w] = "idle" \/ loc'[w].req = loc[w].req
          BY <1>0, <1>4, <4>3, ReqKept
        <5>2. pc'[w] \in C_PCs => pc[w] \in C_PCs
          BY <1>0, <1>4, <4>3 DEF WorkerStep, S_SpuriousWakeup, PublisherStep, SubscriberStep, ManagerStep,
      KilledBySigpipe, P_GetBox, GetBox, P_Register, P_Read, P_Write, P_Terminate, P_Broadcast,
      P_End, P_Close, S_GetBox, S_Register, S_Loop, S_Reacquire, S_Read, S_Send, S_Signal, S_End,
      C_GetBox, C_TfsOpen, C_TfsClose, C_Slot, C_Used, D_GetBox, D_Unlink, D_Broadcast, M_Load,
      M_Store, M_Send, L_Scan, L_Send,
            Goto, Respond, ClosePipeAndReturn, Broadcast, C_PCs
        <5> QED BY <5>1, <5>2 DEF C_PCs
      <4> QED BY <4>1, <4>2, <4>3
    <3>3. Pending' \subseteq Pending
      BY <1>3, <2>1, <3>2 DEF Pending
    <3> QED BY <1>2, <3>1, <3>3
  <2> QED BY <2>2, <2>3
<1>5. CASE ~(\E w \in Workers : WorkerStep(w) \/ S_SpuriousWakeup(w))
  <2>1. UNCHANGED <<pc, loc, boxes>>
    BY <1>5 DEF Next, Register, PublisherSend, ClientClose, ClientRead, Die, GiveUp, MainLoop, Sigint,
      table
  <2> QED BY <1>2, <1>3, <2>1 DEF Pending, UnusedSlots
<1> QED BY <1>4, <1>5

(* The box table has a slot for every creator, besides the boxes that were    *)
(* there.  Then no request is answered with success and no box: two creations *)
(* at once never take the same slot, and a box, once found by get_box, stays. *)
THEOREM CreationsSucceed ==
  ASSUME Deleters = {}, IsFiniteSet(Creators),
         Len(InitialBoxes) + Cardinality(Creators) <= BOX_COUNT_MAX
  PROVE  Spec => []CreatedBoxesExist
<1>1. Init => CInv
  <2> SUFFICES ASSUME Init PROVE CInv
    OBVIOUS
  <2>0. BInv
    BY BInvInit
  <2>1. ReqsDistinct /\ SlotHeld /\ Granted
    BY DEF Init, ReqsDistinct, SlotHeld, Granted, Busy
  <2>2. \A c \in Creators : c \in Clients /\ pipe[c] = <<>> /\ received[c] = <<>>
    BY DEF Init, Clients
  <2>3. AnswersOK /\ Answered
    BY <2>2 DEF Init, AnswersOK, Answered
  <2>4. UnusedSlots = Len(InitialBoxes)..BOX_COUNT_MAX - 1
    BY BrokerAssumption DEF Init, UnusedSlots, EmptyBox, BoxSlots
  <2>5. Cardinality(UnusedSlots) = BOX_COUNT_MAX - Len(InitialBoxes)
    BY <2>4, BrokerAssumption, FS_Interval
  <2>6. Cardinality(Pending) <= Cardinality(Creators) /\ Cardinality(Pending) \in Nat
    <3>1. Pending \subseteq Creators
      BY DEF Pending
    <3> QED BY <3>1, FS_Subset, FS_CardinalityType
  <2>7. Room
    BY <2>5, <2>6, BrokerAssumption, FS_CardinalityType DEF Room
  <2> QED BY <2>0, <2>1, <2>3, <2>7 DEF CInv
<1>2. CInv /\ [Next]_vars => CInv'
  <2> SUFFICES ASSUME CInv, [Next]_vars PROVE CInv'
    OBVIOUS
  <2>1. BInv'
    BY BInvStep DEF CInv
  <2>2. CASE Next
    BY <2>1, <2>2, ReqsDistinctStep, SlotHeldStep, GrantedStep, AnsweredStep, RoomStep DEF CInv
  <2>3. CASE UNCHANGED vars
    <3>1. UNCHANGED <<boxes, boxes_lock, pc, loc, client, pipe, received>>
      BY <2>3 DEF vars, table, pipes
    <3> QED BY <2>1, <3>1 DEF CInv, ReqsDistinct, SlotHeld, Granted, AnswersOK, Answered, Room, HasBox,
              Busy, Pending, UnusedSlots
  <2> QED BY <2>2, <2>3
<1>3. CInv => CreatedBoxesExist
  <2> SUFFICES ASSUME CInv, NEW c \in Creators, received[c] = <<<<"OK">>>>
               PROVE  get_box(BoxOf[c]) # NoBox
    BY DEF CreatedBoxesExist
  <2>1. 1 \in DOMAIN received[c] /\ received[c][1] = <<"OK">>
    OBVIOUS
  <2>2. HasBox(BoxOf[c]) /\ BoxesOK
    BY <2>1 DEF CInv, Answered, BInv
  <2> QED BY <2>2, BoxFound DEF HasBox
<1> QED BY <1>1, <1>2, <1>3, PTL DEF Spec
=============================================================================
