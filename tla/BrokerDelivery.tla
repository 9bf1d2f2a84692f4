--------------------------- MODULE BrokerDelivery ---------------------------
(***************************************************************************)
(* What subscribers get, for any number of workers, clients, boxes and        *)
(* messages: the messages of their box, whole, in order and once each, where  *)
(* no client deletes boxes.                                                   *)
(***************************************************************************)
EXTENDS BrokerSizes, SequenceTheorems

(* What is sent rests on what the files hold, while no box is deleted *)

Named(name, inum) == \E s \in Slots : /\ dir[s].d_inumber = inum /\ dir[s].d_inumber # -1
                                      /\ dir[s].d_name = name

\* the boxes in use come first, and get_box finds the first of a name: a second box
\* of that name, of two creations at once, is never found
BoxesOrdered ==
    /\ \A b, a \in BoxSlots : boxes[b].alloc_state = "USED" /\ a < b => boxes[a].alloc_state = "USED"
    /\ \A w \in Workers : pc[w] = "c_used" =>
          \A a \in BoxSlots : a < loc[w].box => boxes[a].alloc_state = "USED"

Sessions == PubSession \cup SubSession \cup {"p_register", "s_register"}

BoxesFirst == \A w \in Workers : pc[w] \in Sessions =>
    /\ boxes[loc[w].box].name = BoxOf[loc[w].req]
    /\ \A a \in BoxSlots : a < loc[w].box =>
          boxes[a].alloc_state = "USED" /\ boxes[a].name # BoxOf[loc[w].req]

HandlesNamed == \A w \in Workers : pc[w] \in PubSession \cup SubSession =>
    Named(BoxOf[loc[w].req], InodeOf(loc[w].fd))

WritesAtEnd == \A w \in Workers : pc[w] \in PubSession \ {"p_end"} =>
    OffsetOf(loc[w].fd) = FileSize(InodeOf(loc[w].fd))

\* what a subscriber has read of its pipe, and what is still in it
Got(c) == received[c] \o pipe[c]

SubscribersOK ==
    /\ DOMAIN received = Clients
    /\ \A c \in Subscribers : received[c] \in Seq(Seq(Symbols)) /\ pipe[c] \in Seq(Seq(Symbols))
    /\ \A c \in Subscribers : client[c] \in {"new", "opening"} => Got(c) = <<>>
    /\ \A w \in Workers : pc[w] \in {"s_get_box", "s_register"} => Got(loc[w].req) = <<>>
    /\ \A w \in Workers : pc[w] \in {"idle", "s_get_box", "s_register"} => loc[w].msg = <<>>

PublishedOK ==
    /\ published \in [AllNames -> Seq(Seq(Bytes \ {NUL}))]
    /\ \A name \in AllNames : (\A inum \in Inodes : ~Named(name, inum)) => published[name] = <<>>

\* the first m messages published under a name are in its file, the ith from ends[i - 1]
\* up to its NUL; no NUL follows the last of them
Holds(name, inum, m, ends) ==
    /\ ends[0] = 0
    /\ \A i, j \in 0..m : i <= j => ends[i] <= ends[j]
    /\ \A i \in 1..m :
          /\ ends[i] = ends[i - 1] + Len(published[name][i]) + 1
          /\ \A j \in 1..Len(published[name][i]) :
                ByteAt(inum, ends[i - 1] + j - 1) = published[name][i][j]
          /\ ByteAt(inum, ends[i] - 1) = NUL
    /\ ends[m] <= FileSize(inum)
    /\ \A o \in ends[m]..FileSize(inum) - 1 : ByteAt(inum, o) # NUL

\* a publisher between the two writes of a message; else nothing follows what was
\* published, unless the file is full
Writing(w, name) == pc[w] = "p_terminate" /\ BoxOf[loc[w].req] = name
Written(name, inum, m, ends) ==
    \/ FileSize(inum) = BLOCK_SIZE
    \/ /\ m = Len(published[name]) /\ FileSize(inum) = ends[m]
       /\ \A w \in Workers : Writing(w, name) => loc[w].msg = <<>>
    \/ /\ m = Len(published[name])
       /\ \E w \in Workers :
             /\ Writing(w, name) /\ FileSize(inum) = ends[m] + Len(loc[w].msg)
             /\ \A j \in 1..Len(loc[w].msg) : ByteAt(inum, ends[m] + j - 1) = loc[w].msg[j]

\* a subscriber stands where the messages it was sent end, or in the next one
Reading == SubSession \ {"s_send", "s_signal", "s_end"}
ReaderAt(w, name, inum, m, ends) ==
    pc[w] \in SubSession /\ BoxOf[loc[w].req] = name =>
       LET k == Len(Got(loc[w].req)) IN
       /\ k <= m
       /\ pc[w] \in Reading =>
             /\ OffsetOf(loc[w].fd) = ends[k] + Len(loc[w].msg)
             /\ OffsetOf(loc[w].fd) <= FileSize(inum)
             /\ \A j \in 1..Len(loc[w].msg) : /\ loc[w].msg[j] = ByteAt(inum, ends[k] + j - 1)
                                              /\ loc[w].msg[j] # NUL
       /\ pc[w] = "s_send" => /\ k < m /\ loc[w].msg = published[name][k + 1]
                              /\ OffsetOf(loc[w].fd) = ends[k + 1]

Content(name, inum, m, ends) ==
    /\ Holds(name, inum, m, ends) /\ Written(name, inum, m, ends)
    /\ \A w \in Workers : ReaderAt(w, name, inum, m, ends)

FilesHold == \A name \in AllNames, inum \in Inodes : Named(name, inum) =>
    \E m \in 0..Len(published[name]) : \E ends \in [0..m -> 0..BLOCK_SIZE] :
       Content(name, inum, m, ends)

\* with SInv, the invariant of the messages
MInv == /\ ReqsDistinct /\ SlotHeld /\ HandlesOwned /\ BoxesOrdered /\ BoxesFirst
        /\ HandlesNamed /\ WritesAtEnd /\ SubscribersOK /\ PublishedOK /\ FilesHold
        /\ DeliveredInOrder

-----------------------------------------------------------------------------
(* The boxes in use *)

\* what a worker does while there are no deletions: nothing of delete_box
LEMMA NoDeletion ==
  ASSUME BInv, Deleters = {}, NEW w \in Workers
  PROVE  ~D_GetBox(w) /\ ~D_Unlink(w) /\ ~D_Broadcast(w)
<1>1. pc[w] \notin D_PCs
  BY DEF BInv, WorkersOK, Role
<1> QED BY <1>1 DEF D_PCs, D_GetBox, D_Unlink, D_Broadcast, Broadcast

\* what a step does to the slots in use, while boxes are only created
LEMMA SlotsMove ==
  ASSUME BInv, Deleters = {}, NEW w \in Workers, WorkerStep(w) \/ S_SpuriousWakeup(w),
         ~C_Slot(w), ~C_Used(w)
  PROVE  \A b \in BoxSlots : /\ boxes'[b].alloc_state = boxes[b].alloc_state
                             /\ boxes'[b].name = boxes[b].name
  BY NoDeletion, BoxesKept

(* The boxes in use come first: create_box takes the first unused slot, and    *)
(* holds mbroker_boxes_lock until the box is in use.                           *)
LEMMA BoxesOrderedStep ==
  ASSUME SInv, Deleters = {}, SlotHeld, SlotHeld', BoxesOrdered, Next
  PROVE  BoxesOrdered'
<1>0. /\ BInv /\ BoxesOK /\ boxes \in [BoxSlots -> BoxType]
      /\ pc \in [Workers -> WorkerPCs] /\ loc \in [Workers -> Locals]
      /\ \A u \in Workers : Role(pc[u], loc[u])
  BY DEF SInv, BInv, WorkersOK, BoxesOK, BoxType
<1>k. \A a \in BoxSlots : boxes[a].alloc_state = "USED" => boxes'[a].alloc_state = "USED"
  BY <1>0, UsedKept
<1>1. ASSUME NEW w \in Workers, WorkerStep(w) \/ S_SpuriousWakeup(w) PROVE BoxesOrdered'
  <2>1. \A b, a \in BoxSlots : boxes'[b].alloc_state = "USED" /\ a < b => boxes'[a].alloc_state = "USED"
    <3> SUFFICES ASSUME NEW b \in BoxSlots, NEW a \in BoxSlots, boxes'[b].alloc_state = "USED", a < b
                 PROVE  boxes'[a].alloc_state = "USED"
      OBVIOUS
    <3>1. CASE boxes[b].alloc_state = "USED"
      BY <1>k, <3>1 DEF BoxesOrdered
    <3>2. CASE boxes[b].alloc_state # "USED"
      <4>1. C_Used(w) /\ b = loc[w].box
        <5>1. CASE C_Slot(w)
          <6>1. \/ UNCHANGED boxes
                \/ boxes' = [boxes EXCEPT ![First(UnusedSlots)] =
                       [EmptyBox(BoxOf[loc[w].req]) EXCEPT !.alloc_state = "NOT_USED"]]
            BY <5>1 DEF C_Slot
          <6>2. [EmptyBox(BoxOf[loc[w].req]) EXCEPT !.alloc_state = "NOT_USED"].alloc_state = "NOT_USED"
            BY DEF EmptyBox
          <6>3. boxes'[b] = boxes[b] \/ boxes'[b].alloc_state = "NOT_USED"
            BY <1>0, <6>1, <6>2
          <6> QED BY <3>2, <6>3
        <5>2. CASE C_Used(w)
          <6>1. boxes' = [boxes EXCEPT ![loc[w].box].alloc_state = "USED"]
            BY <5>2 DEF C_Used
          <6>2. b # loc[w].box => boxes'[b] = boxes[b]
            BY <1>0, <6>1
          <6> QED BY <3>2, <5>2, <6>2
        <5> QED BY <1>0, <1>1, <3>2, <5>1, <5>2, SlotsMove
      <4>2. pc[w] = "c_used"
        BY <4>1 DEF C_Used
      <4> QED BY <1>k, <4>1, <4>2 DEF BoxesOrdered
    <3> QED BY <3>1, <3>2
  <2>2. \A u \in Workers : pc'[u] = "c_used" =>
           \A a \in BoxSlots : a < loc'[u].box => boxes'[a].alloc_state = "USED"
    <3> SUFFICES ASSUME NEW u \in Workers, pc'[u] = "c_used", NEW a \in BoxSlots, a < loc'[u].box
                 PROVE  boxes'[a].alloc_state = "USED"
      OBVIOUS
    <3>1. CASE u # w
      <4>1. pc[u] = "c_used" /\ loc'[u] = loc[u]
        BY <1>0, <1>1, <3>1, OthersMove
      <4> QED BY <1>k, <4>1 DEF BoxesOrdered
    <3>2. CASE u = w /\ C_Slot(w)
      <4>1. UnusedSlots # {} /\ loc' = [loc EXCEPT ![w].box = First(UnusedSlots)]
        BY <1>0, <3>2 DEF C_Slot
      <4>2. loc'[w].box = First(UnusedSlots)
        BY <1>0, <4>1, AfterBox
      <4>3. UnusedSlots \subseteq Nat
        BY BrokerAssumption DEF UnusedSlots, BoxSlots
      <4>4. First(UnusedSlots) \in UnusedSlots /\ \A j \in UnusedSlots : First(UnusedSlots) <= j
        BY <4>1, <4>3, FirstLeast
      <4>5. PICK f \in Nat : f = First(UnusedSlots)
        BY <4>3, <4>4
      <4>6. a \in Nat /\ a < f /\ \A j \in UnusedSlots : f <= j
        BY <3>2, <4>2, <4>4, <4>5, BrokerAssumption DEF BoxSlots
      <4>7. a \notin UnusedSlots
        BY <4>6
      <4>8. boxes[a].alloc_state = "USED"
        BY <1>0, <4>7 DEF UnusedSlots, BoxType
      <4> QED BY <1>k, <4>8
    <3>3. CASE u = w /\ ~C_Slot(w)
      <4>1. CASE RequestsHandler(w)
        <5>1. Head(requests_queue) \in Clients
          BY <1>0, <4>1 DEF BInv, RequestsOK, RequestsHandler
        <5>2. pc'[w] \in {"idle", "in_open", Handler(Head(requests_queue))}
          BY <1>0, <4>1 DEF RequestsHandler
        <5> QED BY <3>3, <5>1, <5>2, HandlerKind
      <4>2. CASE KilledBySigpipe(w)
        BY <3>3, <4>2 DEF KilledBySigpipe
      <4>3. CASE ~RequestsHandler(w) /\ ~KilledBySigpipe(w)
        BY <1>0, <1>1, <3>3, <4>3 DEF WorkerStep, S_SpuriousWakeup,
        PublisherStep, SubscriberStep, ManagerStep, P_GetBox, GetBox, P_Register, P_Read, P_Write,
        P_Terminate, P_Broadcast, P_End, P_Close, S_GetBox, S_Register, S_Loop, S_Reacquire, S_Read,
        S_Send, S_Signal, S_End, C_GetBox, C_TfsOpen,
        C_TfsClose, C_Used, D_GetBox, D_Unlink, D_Broadcast, M_Load, M_Store, M_Send, L_Scan,
        L_Send, Goto, Respond, ClosePipeAndReturn, Broadcast
      <4> QED BY <4>1, <4>2, <4>3
    <3> QED BY <3>1, <3>2, <3>3
  <2> QED BY <2>1, <2>2 DEF BoxesOrdered
<1>2. CASE ~(\E w \in Workers : WorkerStep(w) \/ S_SpuriousWakeup(w))
  BY <1>2, OthersIdle DEF BoxesOrdered, table
<1> QED BY <1>1, <1>2

\* a step of a worker that ends in a session or before its start
LEMMA SessionsMove ==
  ASSUME BInv, NEW w \in Workers, WorkerStep(w) \/ S_SpuriousWakeup(w), pc'[w] \in Sessions
  PROVE  /\ loc'[w].req = loc[w].req
         /\ \/ /\ P_GetBox(w) \/ S_GetBox(w)
               /\ loc'[w].box = get_box(BoxOf[loc[w].req]) /\ loc'[w].box # NoBox
            \/ pc[w] \in Sessions /\ loc'[w].box = loc[w].box
<1>0. /\ pc \in [Workers -> WorkerPCs] /\ loc \in [Workers -> Locals]
  BY DEF BInv, WorkersOK
<1>1. pc'[w] \in BoxPCs /\ pc'[w] # "idle" /\ Sessions \subseteq BoxPCs
  BY DEF Sessions, BoxPCs, PubSession, SubSession
<1>2. ~C_Slot(w) /\ ~D_GetBox(w)
  BY <1>0 DEF C_Slot, D_GetBox, Respond, Goto, Sessions, PubSession, SubSession
<1>3. ~RequestsHandler(w)
  <2>1. SUFFICES ASSUME RequestsHandler(w) PROVE FALSE
    OBVIOUS
  <2>2. Head(requests_queue) \in Clients
    BY <2>1 DEF BInv, RequestsOK, RequestsHandler
  <2>3. pc'[w] \in {"idle", "in_open", Handler(Head(requests_queue))}
    BY <1>0, <2>1 DEF RequestsHandler
  <2> QED BY <2>2, <2>3, HandlerKind DEF Sessions, PubSession, SubSession
<1>4. pc[w] \in BoxPCs => pc[w] \in Sessions
  <2>1. SUFFICES ASSUME pc[w] \in {"c_used", "d_unlink", "d_broadcast"} PROVE FALSE
    BY DEF Sessions, BoxPCs
  <2>2. CASE KilledBySigpipe(w)
    BY <2>1, <2>2 DEF KilledBySigpipe
  <2>3. CASE S_SpuriousWakeup(w)
    BY <2>1, <2>3 DEF S_SpuriousWakeup
  <2>4. CASE ~KilledBySigpipe(w) /\ ~S_SpuriousWakeup(w)
    BY <1>0, <1>3, <2>1, <2>4 DEF WorkerStep,
        PublisherStep, SubscriberStep, ManagerStep, P_GetBox, GetBox, P_Register, P_Read, P_Write,
        P_Terminate, P_Broadcast, P_End, P_Close, S_GetBox, S_Register, S_Loop, S_Reacquire, S_Read,
        S_Send, S_Signal, S_End, C_GetBox, C_TfsOpen,
        C_TfsClose, C_Slot, C_Used, D_GetBox, D_Unlink, D_Broadcast, M_Load, M_Store, M_Send, L_Scan,
        L_Send, Goto, Respond, Broadcast, Sessions, PubSession, SubSession
  <2> QED BY <2>2, <2>3, <2>4
<1> QED BY <1>1, <1>2, <1>3, <1>4, BoxKeptByStep, ReqKept

(* A session's box is the first of its name, and stays so.                     *)
LEMMA BoxesFirstStep ==
  ASSUME SInv, Deleters = {}, BoxesOrdered, BoxesFirst, Next
  PROVE  BoxesFirst'
<1>0. /\ BInv /\ BoxesOK /\ boxes \in [BoxSlots -> BoxType]
      /\ pc \in [Workers -> WorkerPCs] /\ loc \in [Workers -> Locals]
      /\ \A u \in Workers : Role(pc[u], loc[u])
  BY DEF SInv, BInv, WorkersOK, BoxesOK, BoxType
<1>k. \A a \in BoxSlots : boxes[a].alloc_state = "USED"
                             => boxes'[a].alloc_state = "USED" /\ boxes'[a].name = boxes[a].name
  BY <1>0, UsedKept
<1>u. \A u \in Workers : pc[u] \in Sessions =>
         loc[u].box \in BoxSlots /\ boxes[loc[u].box].alloc_state = "USED"
  BY <1>0 DEF SInv, InUse, Role, Sessions, BoxPCs
<1>1. ASSUME NEW w \in Workers, WorkerStep(w) \/ S_SpuriousWakeup(w),
             NEW u \in Workers, pc'[u] \in Sessions
      PROVE  /\ boxes'[loc'[u].box].name = BoxOf[loc'[u].req]
             /\ \A a \in BoxSlots : a < loc'[u].box =>
                   boxes'[a].alloc_state = "USED" /\ boxes'[a].name # BoxOf[loc'[u].req]
  <2>1. CASE pc[u] \in Sessions /\ loc'[u].box = loc[u].box /\ loc'[u].req = loc[u].req
    BY <1>k, <1>u, <2>1 DEF BoxesFirst
  <2>2. CASE u # w
    <3>1. loc'[u] = loc[u] /\ pc[u] \in Sessions
      <4>1. \A p \in {"s_asleep", "s_woken", "s_orphan"} : p \in Sessions
        BY DEF Sessions, SubSession
      <4> QED BY <1>0, <1>1, <2>2, <4>1, OthersMove
    <3> QED BY <2>1, <3>1
  <2>3. CASE u = w /\ loc'[w].box = get_box(BoxOf[loc[w].req]) /\ loc'[w].box # NoBox
                   /\ loc'[w].req = loc[w].req
    <3> DEFINE name == BoxOf[loc[w].req]
    <3>1. /\ get_box(name) \in BoxSlots /\ boxes[get_box(name)].alloc_state = "USED"
          /\ boxes[get_box(name)].name = name /\ get_box(name) # NoBox
      BY <1>0, <2>3, BoxFound
    <3>2. PICK b \in BoxSlots : b = get_box(name)
      BY <3>1
    <3>3. b = First(Matches(name)) /\ Matches(name) \subseteq Nat /\ Matches(name) # {}
      <4> HIDE DEF name
      <4>1. b \in Matches(name)
        BY <3>1, <3>2 DEF Matches
      <4>2. b = First(Matches(name))
        BY <3>2, <4>1 DEF get_box
      <4>3. Matches(name) \subseteq Nat
        BY BrokerAssumption DEF Matches, BoxSlots
      <4> QED BY <4>1, <4>2, <4>3
    <3>4. \A j \in Matches(name) : b <= j
      BY <3>3, FirstLeast
    <3> HIDE DEF name
    <3>5. \A a \in BoxSlots : a < b => boxes[a].alloc_state = "USED" /\ boxes[a].name # name
      <4> SUFFICES ASSUME NEW a \in BoxSlots, a < b
                   PROVE  boxes[a].alloc_state = "USED" /\ boxes[a].name # name
        OBVIOUS
      <4>1. a \in Nat /\ b \in Nat
        BY BrokerAssumption DEF BoxSlots
      <4>2. a \notin Matches(name)
        BY <3>4, <4>1
      <4>3. boxes[a].alloc_state = "USED"
        BY <3>1, <3>2 DEF BoxesOrdered
      <4> QED BY <4>2, <4>3 DEF Matches
    <3>6. /\ boxes'[b].name = name
          /\ \A a \in BoxSlots : a < b => boxes'[a].alloc_state = "USED" /\ boxes'[a].name # name
      BY <1>k, <3>1, <3>2, <3>5
    <3> QED BY <2>3, <3>2, <3>6 DEF name
  <2> QED BY <1>0, <1>1, <2>1, <2>2, <2>3, SessionsMove
<1>2. CASE ~(\E w \in Workers : WorkerStep(w) \/ S_SpuriousWakeup(w))
  BY <1>2, OthersIdle DEF BoxesFirst, table
<1> QED BY <1>1, <1>2 DEF BoxesFirst

-----------------------------------------------------------------------------
(* The entries, and one name for one file *)

(* An entry stays while no box is deleted.                                     *)
LEMMA EntriesKept ==
  ASSUME BInv, Deleters = {}, Next
  PROVE  /\ \A s \in Slots : dir[s].d_inumber # -1 => dir'[s] = dir[s]
         /\ \A s \in Slots : dir[s].d_inumber = -1 /\ dir'[s].d_inumber # -1 =>
               /\ \A t \in Slots : dir[t].d_inumber # -1 => dir[t].d_name # dir'[s].d_name
               /\ inode_table'[dir'[s].d_inumber].i_size = 0
               /\ \E w \in Workers : C_TfsOpen(w) /\ WorkerStep(w)
<1>0. FsInv /\ TablesTyped
  BY DEF BInv, FsInv
<1>1. ASSUME UNCHANGED dir
      PROVE  /\ \A s \in Slots : dir[s].d_inumber # -1 => dir'[s] = dir[s]
             /\ ~ \E s \in Slots : dir[s].d_inumber = -1 /\ dir'[s].d_inumber # -1
  BY <1>1
<1>2. CASE ~(\E w \in Workers : WorkerStep(w) \/ S_SpuriousWakeup(w))
  BY <1>1, <1>2, OthersIdle
<1>3. ASSUME NEW w \in Workers, WorkerStep(w) \/ S_SpuriousWakeup(w), ~C_TfsOpen(w)
      PROVE  UNCHANGED dir
  <2>1. CASE P_Write(w) \/ P_Terminate(w)
    BY <2>1 DEF P_Write, P_Terminate, tfs_write, fs, Dies
  <2> QED BY <1>3, <2>1, FilesMove, NoDeletion
<1>4. ASSUME NEW w \in Workers, WorkerStep(w) \/ S_SpuriousWakeup(w), C_TfsOpen(w)
      PROVE  /\ WorkerStep(w)
             /\ \A s \in Slots : dir[s].d_inumber # -1 => dir'[s] = dir[s]
             /\ \A s \in Slots : dir[s].d_inumber = -1 /\ dir'[s].d_inumber # -1 =>
                   /\ \A t \in Slots : dir[t].d_inumber # -1 => dir[t].d_name # dir'[s].d_name
                   /\ inode_table'[dir'[s].d_inumber].i_size = 0
  <2>1. WorkerStep(w)
    BY <1>4 DEF S_SpuriousWakeup, C_TfsOpen
  <2>2. PICK fd : tfs_open(BoxOf[loc[w].req], {"CREAT"}, fd)
    BY <1>4 DEF C_TfsOpen
  <2>3. "TRUNC" \notin {"CREAT"}
    OBVIOUS
  <2>4. /\ \A s \in Slots : dir[s].d_inumber # -1 => dir'[s] = dir[s]
        /\ \A s \in Slots : dir[s].d_inumber = -1 /\ dir'[s].d_inumber # -1 =>
              /\ dir'[s].d_name = BoxOf[loc[w].req] /\ find_in_dir(BoxOf[loc[w].req]) = -1
              /\ inode_table'[dir'[s].d_inumber].i_size = 0
    BY <1>0, <2>2, <2>3, OpenKeeps
  <2> QED BY <1>0, <2>1, <2>4, EntryMissing
<1> QED BY <1>1, <1>2, <1>3, <1>4

\* a name that has a file keeps it
LEMMA NamedKept ==
  ASSUME BInv, Deleters = {}, Next, NEW name, NEW inum, Named(name, inum)
  PROVE  Named(name, inum)'
<1>1. PICK s \in Slots : /\ dir[s].d_inumber = inum /\ dir[s].d_inumber # -1
                         /\ dir[s].d_name = name
  BY DEF Named
<1>2. dir'[s] = dir[s]
  BY <1>1, EntriesKept
<1> QED BY <1>1, <1>2 DEF Named

\* names and files go together one by one, and a file with a name is in use
LEMMA NamedOnce ==
  ASSUME FsInv, NEW name, NEW inum, NEW other, NEW i, Named(name, inum), Named(other, i)
  PROVE  /\ name = other <=> inum = i
         /\ inum \in Inodes \ (freeinode_ts \cup {ROOT_DIR_INUM})
         /\ name \in FileNames
<1>1. PICK s \in Slots : /\ dir[s].d_inumber = inum /\ dir[s].d_inumber # -1
                         /\ dir[s].d_name = name
  BY DEF Named
<1>2. PICK t \in Slots : /\ dir[t].d_inumber = i /\ dir[t].d_inumber # -1
                         /\ dir[t].d_name = other
  BY DEF Named
<1> QED BY <1>1, <1>2 DEF FsInv, DirectoryConsistent

\* sessions on boxes of one name are on one box
LEMMA SameBox ==
  ASSUME SInv, Deleters = {}, BoxesFirst, NEW w \in Workers, NEW u \in Workers,
         pc[w] \in Sessions, pc[u] \in Sessions, BoxOf[loc[w].req] = BoxOf[loc[u].req]
  PROVE  loc[w].box = loc[u].box
<1>1. loc[w].box \in BoxSlots /\ loc[u].box \in BoxSlots
  BY DEF SInv, BInv, WorkersOK, Role, Sessions, BoxPCs
<1>2. loc[w].box \in Nat /\ loc[u].box \in Nat
  BY <1>1, BrokerAssumption DEF BoxSlots
<1>3. ~(loc[w].box < loc[u].box) /\ ~(loc[u].box < loc[w].box)
  BY <1>1 DEF BoxesFirst
<1> QED BY <1>2, <1>3

(* Two publishers never write under one name, nor in one file.                 *)
LEMMA OneWriter ==
  ASSUME SInv, Deleters = {}, BoxesFirst, HandlesNamed, NEW w \in Workers, NEW u \in Workers, w # u,
         pc[w] \in PubSession, pc[u] \in PubSession
  PROVE  /\ BoxOf[loc[w].req] # BoxOf[loc[u].req]
         /\ InodeOf(loc[w].fd) # InodeOf(loc[u].fd)
<1>1. loc[w].box # loc[u].box
  BY OnePublisher
<1>2. BoxOf[loc[w].req] # BoxOf[loc[u].req]
  BY <1>1, SameBox DEF Sessions
<1>3. /\ Named(BoxOf[loc[w].req], InodeOf(loc[w].fd))
      /\ Named(BoxOf[loc[u].req], InodeOf(loc[u].fd))
  BY DEF HandlesNamed
<1> QED BY <1>2, <1>3, NamedOnce DEF SInv, BInv

\* the handle of a session after a step that is not its start
LEMMA SessionHandle ==
  ASSUME BInv, HandlesOwned, NEW w \in Workers, WorkerStep(w) \/ S_SpuriousWakeup(w),
         NEW u \in Workers, pc'[u] \in PubSession \cup SubSession,
         u = w => ~P_Register(w) /\ ~S_Register(w)
  PROVE  /\ pc'[u] \in PubSession <=> pc[u] \in PubSession
         /\ pc'[u] \in SubSession <=> pc[u] \in SubSession
         /\ loc'[u].box = loc[u].box /\ loc'[u].fd = loc[u].fd /\ loc'[u].req = loc[u].req
         /\ loc[u].fd \in Handles \ free_open_file_entries
         /\ open_file_table'[loc'[u].fd].of_inumber = InodeOf(loc[u].fd)
<1>1. CASE u # w
  <2>1. \A p \in {"s_asleep", "s_woken", "s_orphan"} : p \in SubSession /\ p \notin PubSession
    BY DEF SubSession, PubSession
  <2>2. /\ loc'[u] = loc[u]
        /\ pc'[u] \in PubSession <=> pc[u] \in PubSession
        /\ pc'[u] \in SubSession <=> pc[u] \in SubSession
    BY <1>1, <2>1, OthersMove
  <2>3. pc[u] \in FilePCs
    BY <2>2 DEF FilePCs
  <2>4. loc[u].fd \in Handles \ free_open_file_entries
    BY <2>3 DEF HandlesOwned, IsOpenHandle
  <2> QED BY <1>1, <2>2, <2>3, <2>4, OtherHandles DEF InodeOf
<1>2. CASE u = w
  <2>1. /\ pc'[w] \in PubSession <=> pc[w] \in PubSession
        /\ pc'[w] \in SubSession <=> pc[w] \in SubSession
        /\ loc'[w].box = loc[w].box /\ loc'[w].fd = loc[w].fd /\ loc'[w].req = loc[w].req
    BY <1>2, SessionBefore
  <2>2. pc[w] \in FilePCs
    BY <1>2, <2>1 DEF FilePCs
  <2>3. loc[w].fd \in Handles \ free_open_file_entries
    BY <2>2 DEF HandlesOwned, IsOpenHandle
  <2>4. open_file_table'[loc[w].fd].of_inumber = open_file_table[loc[w].fd].of_inumber
    BY <2>3, HandlesMove
  <2> QED BY <1>2, <2>1, <2>3, <2>4 DEF InodeOf
<1> QED BY <1>1, <1>2

(* The handle of a session is on the file that has the name its client asked   *)
(* for.                                                                        *)
LEMMA HandlesNamedStep ==
  ASSUME SInv, Deleters = {}, HandlesOwned, BoxesFirst, HandlesNamed, Next
  PROVE  HandlesNamed'
<1>0. BInv
  BY DEF SInv
<1>1. ASSUME NEW w \in Workers, WorkerStep(w) \/ S_SpuriousWakeup(w),
             NEW u \in Workers, pc'[u] \in PubSession \cup SubSession
      PROVE  \E s \in Slots : /\ dir'[s].d_inumber = open_file_table'[loc'[u].fd].of_inumber
                              /\ dir'[s].d_inumber # -1 /\ dir'[s].d_name = BoxOf[loc'[u].req]
  <2>1. CASE u = w /\ (P_Register(w) \/ S_Register(w))
    <3>1. PICK s \in Slots : /\ dir[s].d_name = boxes[loc[w].box].name /\ dir[s].d_inumber # -1
                             /\ open_file_table'[loc'[w].fd].of_inumber = dir[s].d_inumber
      BY <1>0, <1>1, <2>1, RegisterOpens
    <3>2. UNCHANGED dir /\ loc'[w].req = loc[w].req
      BY <1>0, <1>1, <2>1, RegisterOpens
    <3>3. pc[w] \in Sessions
      BY <2>1 DEF P_Register, S_Register, Sessions
    <3>4. boxes[loc[w].box].name = BoxOf[loc[w].req]
      BY <3>3 DEF BoxesFirst
    <3> QED BY <2>1, <3>1, <3>2, <3>4
  <2>2. CASE u = w => ~P_Register(w) /\ ~S_Register(w)
    <3>1. /\ pc[u] \in PubSession \cup SubSession /\ loc'[u].req = loc[u].req
          /\ open_file_table'[loc'[u].fd].of_inumber = InodeOf(loc[u].fd)
      BY <1>0, <1>1, <2>2, SessionHandle
    <3>2. PICK s \in Slots : /\ dir[s].d_inumber = InodeOf(loc[u].fd) /\ dir[s].d_inumber # -1
                             /\ dir[s].d_name = BoxOf[loc[u].req]
      BY <3>1 DEF HandlesNamed, Named
    <3>3. dir'[s] = dir[s]
      BY <1>0, <3>2, EntriesKept
    <3> QED BY <3>1, <3>2, <3>3
  <2> QED BY <2>1, <2>2
<1>2. CASE ~(\E w \in Workers : WorkerStep(w) \/ S_SpuriousWakeup(w))
  BY <1>2, OthersIdle DEF HandlesNamed, Named, InodeOf
<1> QED BY <1>1, <1>2 DEF HandlesNamed, Named, InodeOf

-----------------------------------------------------------------------------
(* A step and a file *)

\* the two writes of a message: at the end of the file, or nothing is written
LEMMA PublisherWrites ==
  ASSUME SInv, HandlesOwned, WritesAtEnd, NEW w \in Workers, P_Write(w) \/ P_Terminate(w)
  PROVE  /\ pc[w] \in PubSession \ {"p_end"} /\ pc[w] \in FilePCs
         /\ UNCHANGED loc
         /\ loc[w].fd \in Handles /\ IsOpenHandle(loc[w].fd)
         /\ OffsetOf(loc[w].fd) = FileSize(InodeOf(loc[w].fd))
         /\ \/ UNCHANGED <<inode_table, dir, fs_data, open_file_table>>
            \/ \E data \in Seq(Bytes) : Writes(loc[w].fd, data)
<1>0. BInv /\ FsInv /\ TablesTyped
  BY DEF SInv, BInv, FsInv
<1>1. pc[w] \in {"p_write", "p_terminate"}
  BY DEF P_Write, P_Terminate
<1>2. pc[w] \in PubSession \ {"p_end"} /\ pc[w] \in FilePCs
  BY <1>1 DEF PubSession, FilePCs
<1>3. IsOpenHandle(loc[w].fd) /\ OffsetOf(loc[w].fd) = FileSize(InodeOf(loc[w].fd))
  BY <1>2 DEF HandlesOwned, WritesAtEnd
<1>4. loc[w].fd \in Handles
  BY <1>3 DEF IsOpenHandle
<1>5. UNCHANGED loc
  BY DEF P_Write, P_Terminate
<1>6. \E data \in Seq(Bytes) : \E ret : tfs_write(loc[w].fd, data, ret)
  <2>1. CASE P_Write(w)
    BY <1>0, <2>1, MessageWrite
  <2>2. CASE P_Terminate(w)
    BY <1>0, <2>2, NulWrite
  <2> QED BY <2>1, <2>2
<1>d. PICK data \in Seq(Bytes) : \E ret : tfs_write(loc[w].fd, data, ret)
  BY <1>6
<1>7. PICK ret : tfs_write(loc[w].fd, data, ret)
  BY <1>d
<1>8. UNCHANGED <<inode_table, dir, fs_data, open_file_table>> \/ Writes(loc[w].fd, data)
  BY <1>7, WriteEffect DEF fs, Dies
<1> QED BY <1>2, <1>3, <1>4, <1>5, <1>8

\* without a write, the files that have a name keep their inodes and their bytes
LEMMA FilesSame ==
  ASSUME BInv, Deleters = {}, NEW w \in Workers, WorkerStep(w) \/ S_SpuriousWakeup(w),
         ~P_Write(w), ~P_Terminate(w), NEW name, NEW inum, Named(name, inum)
  PROVE  inode_table'[inum] = inode_table[inum] /\ fs_data' = fs_data
<1>0. FsInv /\ inum \in Inodes \ freeinode_ts
  BY NamedOnce DEF BInv
<1>1. CASE C_TfsOpen(w)
  <2>1. PICK fd : tfs_open(BoxOf[loc[w].req], {"CREAT"}, fd)
    BY <1>1 DEF C_TfsOpen
  <2>2. "TRUNC" \notin {"CREAT"}
    OBVIOUS
  <2> QED BY <1>0, <2>1, <2>2, OpenKeeps
<1>2. CASE ~C_TfsOpen(w)
  BY <1>2, FilesMove, NoDeletion
<1> QED BY <1>1, <1>2

\* a write leaves the other files that have a name alone
LEMMA FilesApart ==
  ASSUME SInv, HandlesOwned, WritesAtEnd, HandlesNamed, Next,
         NEW w \in Workers, P_Write(w) \/ P_Terminate(w),
         NEW name, NEW inum, Named(name, inum), inum # InodeOf(loc[w].fd)
  PROVE  /\ SizeNext(inum) = FileSize(inum)
         /\ inode_table'[inum] = inode_table[inum]
         /\ \A o \in 0..FileSize(inum) - 1 : ByteNext(inum, o) = ByteAt(inum, o)
<1>0. FsInv /\ FsInv' /\ BInv
  BY FilesStep DEF SInv, BInv
<1>1. /\ inum \in Inodes \ (freeinode_ts \cup {ROOT_DIR_INUM})
      /\ pc[w] \in PubSession /\ loc[w].fd \in Handles
      /\ OffsetOf(loc[w].fd) = FileSize(InodeOf(loc[w].fd))
  BY <1>0, NamedOnce, PublisherWrites
<1>2. InodeOf(loc[w].fd) \in Inodes \ (freeinode_ts \cup {ROOT_DIR_INUM})
  <2>1. Named(BoxOf[loc[w].req], InodeOf(loc[w].fd))
    BY <1>1 DEF HandlesNamed
  <2> QED BY <1>0, <2>1, NamedOnce
<1>3. CASE UNCHANGED <<inode_table, fs_data>>
  BY <1>3 DEF SizeNext, FileSize, ByteNext, ByteAt
<1>4. ASSUME NEW data \in Seq(Bytes), Writes(loc[w].fd, data)
      PROVE  /\ SizeNext(inum) = FileSize(inum)
             /\ inode_table'[inum] = inode_table[inum]
             /\ \A o \in 0..FileSize(inum) - 1 : ByteNext(inum, o) = ByteAt(inum, o)
  BY <1>0, <1>1, <1>2, <1>4, WriteOther, WriteSize
<1> QED BY <1>3, <1>4, PublisherWrites

(* A publisher's handle stays at the end of its file.                          *)
LEMMA WritesAtEndStep ==
  ASSUME SInv, Deleters = {}, HandlesOwned, BoxesFirst, HandlesNamed, WritesAtEnd, Next
  PROVE  WritesAtEnd'
<1>0. /\ BInv /\ FsInv /\ TablesTyped
      /\ pc \in [Workers -> WorkerPCs] /\ loc \in [Workers -> Locals]
  BY DEF SInv, BInv, WorkersOK, FsInv
<1> DEFINE AtEnds == PubSession \ {"p_end"}
<1>1. ASSUME NEW w \in Workers, WorkerStep(w) \/ S_SpuriousWakeup(w),
             NEW u \in Workers, pc'[u] \in AtEnds
      PROVE  open_file_table'[loc'[u].fd].of_offset =
                inode_table'[open_file_table'[loc'[u].fd].of_inumber].i_size
  <2>0. pc'[u] \in PubSession \cup SubSession /\ pc'[u] \in PubSession
    BY <1>1
  <2>1. CASE u = w /\ (P_Register(w) \/ S_Register(w))
    <3>1. P_Register(w)
      <4>1. "s_loop" \notin PubSession
        BY DEF PubSession
      <4> QED BY <1>0, <1>1, <2>0, <2>1, <4>1, RegisterOpens
    <3> QED BY <1>0, <1>1, <2>0, <2>1, <3>1, RegisterOpens
  <2>2. CASE u = w => ~P_Register(w) /\ ~S_Register(w)
    <3>1. /\ pc[u] \in PubSession /\ loc'[u].fd = loc[u].fd
          /\ loc[u].fd \in Handles
          /\ open_file_table'[loc'[u].fd].of_inumber = InodeOf(loc[u].fd)
      BY <1>0, <1>1, <2>0, <2>2, SessionHandle
    <3>2. pc[u] # "p_end"
      <4>1. SUFFICES ASSUME pc[u] = "p_end" PROVE FALSE
        OBVIOUS
      <4>2. CASE u # w
        <5>1. pc'[u] = "p_end"
          BY <1>0, <1>1, <4>1, <4>2, OthersMove
        <5> QED BY <1>1, <5>1
      <4>3. CASE u = w
        <5>1. ~RequestsHandler(w) /\ ~KilledBySigpipe(w) /\ ~S_SpuriousWakeup(w)
          BY <4>1, <4>3 DEF RequestsHandler, KilledBySigpipe, S_SpuriousWakeup
        <5>2. P_End(w)
          BY <1>1, <4>1, <4>3, <5>1 DEF WorkerStep,
        PublisherStep, SubscriberStep, ManagerStep, P_GetBox, GetBox, P_Register, P_Read, P_Write,
        P_Terminate, P_Broadcast, P_Close, S_GetBox, S_Register, S_Loop, S_Reacquire, S_Read,
        S_Send, S_Signal, S_End, C_GetBox, C_TfsOpen,
        C_TfsClose, C_Slot, C_Used, D_GetBox, D_Unlink, D_Broadcast, M_Load, M_Store, M_Send, L_Scan,
        L_Send, Broadcast
        <5>3. pc'[w] = "p_close"
          BY <1>0, <5>2 DEF P_End, Goto
        <5> QED BY <1>1, <4>3, <5>3 DEF PubSession
      <4> QED BY <4>2, <4>3
    <3>3. /\ OffsetOf(loc[u].fd) = FileSize(InodeOf(loc[u].fd)) /\ pc[u] \in FilePCs
          /\ Named(BoxOf[loc[u].req], InodeOf(loc[u].fd))
      BY <3>1, <3>2 DEF WritesAtEnd, HandlesNamed, FilePCs
    <3>4. CASE /\ open_file_table'[loc[u].fd].of_offset = open_file_table[loc[u].fd].of_offset
               /\ inode_table'[InodeOf(loc[u].fd)] = inode_table[InodeOf(loc[u].fd)]
      BY <3>1, <3>3, <3>4 DEF OffsetOf, FileSize
    <3>5. CASE u # w
      <4>1. open_file_table'[loc[u].fd] = open_file_table[loc[u].fd]
        BY <1>0, <1>1, <3>3, <3>5, OtherHandles
      <4>2. inode_table'[InodeOf(loc[u].fd)] = inode_table[InodeOf(loc[u].fd)]
        <5>1. CASE P_Write(w) \/ P_Terminate(w)
          <6>1. pc[w] \in PubSession
            BY <5>1, PublisherWrites
          <6>2. InodeOf(loc[u].fd) # InodeOf(loc[w].fd)
            BY <3>1, <3>5, <6>1, OneWriter
          <6> QED BY <3>3, <5>1, <6>2, FilesApart
        <5>2. CASE ~P_Write(w) /\ ~P_Terminate(w)
          BY <1>0, <1>1, <3>3, <5>2, FilesSame
        <5> QED BY <5>1, <5>2
      <4> QED BY <3>4, <4>1, <4>2
    <3>6. CASE u = w /\ (P_Write(w) \/ P_Terminate(w))
      <4>1. ASSUME NEW data \in Seq(Bytes), Writes(loc[w].fd, data)
            PROVE  open_file_table'[loc'[w].fd].of_offset =
                      inode_table'[open_file_table'[loc'[w].fd].of_inumber].i_size
        BY <1>0, <3>1, <3>3, <3>6, <4>1, WriteSize DEF SizeNext
      <4>2. \/ UNCHANGED <<inode_table, dir, fs_data, open_file_table>>
            \/ \E data \in Seq(Bytes) : Writes(loc[w].fd, data)
        BY <3>6, PublisherWrites
      <4> QED BY <3>4, <3>6, <4>1, <4>2
    <3>7. CASE u = w /\ ~P_Write(w) /\ ~P_Terminate(w)
      <4>1. inode_table'[InodeOf(loc[u].fd)] = inode_table[InodeOf(loc[u].fd)]
        BY <1>0, <1>1, <3>3, <3>7, FilesSame
      <4>2. ~D_Unlink(w) /\ ~S_Read(w) /\ ~P_End(w) /\ ~P_Close(w)
        BY <3>1, <3>2, <3>7 DEF D_Unlink, S_Read, P_End, P_Close, PubSession
      <4>3. UNCHANGED open_file_table
        <5>1. CASE KilledBySigpipe(w)
          BY <5>1 DEF KilledBySigpipe, Dies
        <5>2. CASE ~KilledBySigpipe(w)
          BY <1>1, <2>2, <3>1, <3>7, <4>2, <5>2 DEF WorkerStep, S_SpuriousWakeup, RequestsHandler,
        PublisherStep, SubscriberStep, ManagerStep, P_GetBox, GetBox, P_Register, P_Read,
        P_Broadcast, S_GetBox, S_Register, S_Loop, S_Reacquire,
        S_Send, S_Signal, S_End, C_GetBox, C_TfsOpen,
        C_TfsClose, C_Slot, C_Used, D_GetBox, D_Broadcast, M_Load, M_Store, M_Send, L_Scan,
        L_Send, Broadcast, fs, PubSession
        <5> QED BY <5>1, <5>2
      <4> QED BY <3>4, <4>1, <4>3
    <3> QED BY <3>5, <3>6, <3>7
  <2> QED BY <2>1, <2>2
<1>2. CASE ~(\E w \in Workers : WorkerStep(w) \/ S_SpuriousWakeup(w))
  BY <1>2, OthersIdle DEF WritesAtEnd, OffsetOf, FileSize, InodeOf
<1> QED BY <1>1, <1>2 DEF WritesAtEnd, OffsetOf, FileSize, InodeOf

-----------------------------------------------------------------------------
(* What subscribers got *)

(* What a client reads leaves the front of its pipe for the end of what it    *)
(* has read; what is sent to it goes to the end of its pipe.                   *)
LEMMA SequenceMoves ==
  ASSUME NEW S, NEW r \in Seq(S), NEW p \in Seq(S)
  PROVE  /\ r \o p \in Seq(S)
         /\ p # <<>> => /\ Append(r, Head(p)) \in Seq(S) /\ Tail(p) \in Seq(S)
                        /\ Append(r, Head(p)) \o Tail(p) = r \o p
         /\ \A m \in S : /\ Append(p, m) \in Seq(S)
                         /\ r \o Append(p, m) = Append(r \o p, m)
<1>1. r \o p \in Seq(S) /\ Len(r \o p) = Len(r) + Len(p)
      /\ \A i \in 1..Len(r) + Len(p) : (r \o p)[i] = IF i <= Len(r) THEN r[i] ELSE p[i - Len(r)]
  BY ConcatProperties
<1>l. Len(r) \in Nat /\ Len(p) \in Nat
  BY LenProperties
<1>2. ASSUME p # <<>>
      PROVE  /\ Append(r, Head(p)) \in Seq(S) /\ Tail(p) \in Seq(S)
             /\ Append(r, Head(p)) \o Tail(p) = r \o p
  <2> DEFINE a == Append(r, Head(p))
             t == Tail(p)
  <2>1. /\ Head(p) \in S /\ t \in Seq(S) /\ Len(t) = Len(p) - 1
        /\ \A i \in 1..Len(t) : t[i] = p[i + 1]
    BY <1>2, HeadTailProperties
  <2>h. Head(p) = p[1]
    OBVIOUS
  <2>2. /\ a \in Seq(S) /\ Len(a) = Len(r) + 1 /\ a[Len(r) + 1] = Head(p)
        /\ \A i \in 1..Len(r) : a[i] = r[i]
    BY <2>1, AppendProperties
  <2> HIDE DEF a, t
  <2>3. /\ a \o t \in Seq(S) /\ Len(a \o t) = Len(a) + Len(t)
        /\ \A i \in 1..Len(a) + Len(t) : (a \o t)[i] = IF i <= Len(a) THEN a[i] ELSE t[i - Len(a)]
    BY <2>1, <2>2, ConcatProperties
  <2>4. Len(a \o t) = Len(r \o p)
    BY <1>1, <1>l, <2>1, <2>2, <2>3
  <2>5. ASSUME NEW i \in 1..Len(a \o t) PROVE (a \o t)[i] = (r \o p)[i]
    <3>1. i \in 1..Len(r) + Len(p) /\ i \in 1..Len(a) + Len(t)
      BY <1>1, <2>3, <2>4, <2>5
    <3>2. CASE i <= Len(r)
      BY <1>1, <1>l, <2>2, <2>3, <3>1, <3>2
    <3>3. CASE i = Len(r) + 1
      <4>1. (a \o t)[i] = a[i] /\ (r \o p)[i] = p[i - Len(r)] /\ i - Len(r) = 1
        BY <1>1, <1>l, <2>2, <2>3, <3>1, <3>3
      <4> QED BY <2>h, <2>2, <3>3, <4>1
    <3>4. CASE i > Len(r) + 1
      <4>1. (a \o t)[i] = t[i - Len(a)] /\ (r \o p)[i] = p[i - Len(r)]
        BY <1>1, <1>l, <2>2, <2>3, <3>1, <3>4
      <4>2. i - Len(a) \in 1..Len(t) /\ (i - Len(a)) + 1 = i - Len(r)
        BY <1>l, <2>1, <2>2, <3>1, <3>4
      <4>3. t[i - Len(a)] = p[(i - Len(a)) + 1]
        BY <2>1, <4>2
      <4> QED BY <4>1, <4>2, <4>3
    <3> QED BY <1>l, <3>1, <3>2, <3>3, <3>4
  <2>6. a \o t = r \o p
    BY <1>1, <2>3, <2>4, <2>5, SeqEqual
  <2> QED BY <2>1, <2>2, <2>6 DEF a, t
<1>3. ASSUME NEW m \in S
      PROVE  Append(p, m) \in Seq(S) /\ r \o Append(p, m) = Append(r \o p, m)
  <2>1. <<m>> \in Seq(S)
    OBVIOUS
  <2>2. Append(p, m) = p \o <<m>> /\ Append(r \o p, m) = (r \o p) \o <<m>> /\ Append(p, m) \in Seq(S)
    BY <1>1, AppendIsConcat, AppendProperties
  <2> QED BY <2>1, <2>2, ConcatAssociative
<1> QED BY <1>1, <1>2, <1>3

(* What a subscriber was sent grows when its worker sends it the message it    *)
(* has read, and else stays, in its pipe or read.                              *)
LEMMA GotMoves ==
  ASSUME BInv, SubscribersOK, Next, NEW c \in Subscribers
  PROVE  /\ received'[c] \in Seq(Seq(Symbols)) /\ pipe'[c] \in Seq(Seq(Symbols))
         /\ \/ Got(c)' = Got(c)
            \/ \E w \in Workers : /\ S_Send(w) /\ WorkerStep(w) /\ pc[w] = "s_send" /\ pc'[w] = "s_loop"
                                  /\ loc[w].req = c /\ client[c] = "open"
                                  /\ Got(c)' = Append(Got(c), loc[w].msg)
<1>0. /\ DOMAIN pipe = Clients /\ DOMAIN received = Clients /\ c \in Clients
      /\ received[c] \in Seq(Seq(Symbols)) /\ pipe[c] \in Seq(Seq(Symbols))
  BY DEF BInv, PipesOK, SubscribersOK, Clients
<1>s. /\ Got(c) = received[c] \o pipe[c]
      /\ Got(c)' = received'[c] \o pipe'[c]
  BY DEF Got
<1>1. ASSUME NEW w \in Workers, WorkerStep(w) \/ S_SpuriousWakeup(w)
      PROVE  \/ pipe'[c] = pipe[c] /\ received'[c] = received[c]
             \/ /\ S_Send(w) /\ WorkerStep(w) /\ pc[w] = "s_send" /\ pc'[w] = "s_loop"
                /\ loc[w].req = c /\ client[c] = "open"
                /\ pipe'[c] = Append(pipe[c], loc[w].msg) /\ received'[c] = received[c]
  <2>0. Role(pc[w], loc[w]) /\ pc \in [Workers -> WorkerPCs]
    BY DEF BInv, WorkersOK
  <2>1. UNCHANGED received
    BY <1>1 DEF WorkerStep, S_SpuriousWakeup, RequestsHandler, PublisherStep, SubscriberStep, ManagerStep,
      KilledBySigpipe, P_GetBox, GetBox, P_Register, P_Read, P_Write, P_Terminate, P_Broadcast,
      P_End, P_Close, S_GetBox, S_Register, S_Loop, S_Reacquire, S_Read, S_Send, S_Signal, S_End,
      C_GetBox, C_TfsOpen, C_TfsClose, C_Slot, C_Used, D_GetBox, D_Unlink, D_Broadcast, M_Load,
      M_Store, M_Send, L_Scan, L_Send,
      ClosePipeAndReturn, pipes
  <2>2. CASE S_Send(w)
    <3>1. pc[w] = "s_send" /\ WorkerStep(w)
      BY <1>1, <2>2 DEF S_Send, S_SpuriousWakeup
    <3>2. \/ UNCHANGED pipe
          \/ /\ client[loc[w].req] = "open" /\ pc'[w] = "s_loop"
             /\ pipe' = [pipe EXCEPT ![loc[w].req] = Append(@, loc[w].msg)]
      BY <2>0, <2>2 DEF S_Send, Goto
    <3> QED BY <1>0, <2>1, <2>2, <3>1, <3>2
  <2>3. CASE P_Read(w) \/ P_Close(w) \/ M_Send(w) \/ L_Send(w)
    <3>1. loc[w].req \in Publishers \cup Creators \cup Deleters \cup Listers
      BY <2>0, <2>3 DEF P_Read, P_Close, M_Send, L_Send, Role, P_PCs, M_PCs, L_PCs, PubSession
    <3>2. loc[w].req # c
      BY <3>1, ClientsAssumption
    <3> QED BY <1>0, <2>1, <2>3, <3>2 DEF P_Read, P_Close, M_Send, L_Send, pipes
  <2>4. CASE ~(M_Send(w) \/ P_Read(w) \/ P_Close(w) \/ S_Send(w) \/ L_Send(w))
    <3>1. UNCHANGED pipe
      BY <1>1, <2>4 DEF WorkerStep, S_SpuriousWakeup, RequestsHandler, PublisherStep, SubscriberStep,
          ManagerStep,
      KilledBySigpipe, P_GetBox, GetBox, P_Register, P_Read, P_Write, P_Terminate, P_Broadcast,
      P_End, P_Close, S_GetBox, S_Register, S_Loop, S_Reacquire, S_Read, S_Send, S_Signal, S_End,
      C_GetBox, C_TfsOpen, C_TfsClose, C_Slot, C_Used, D_GetBox, D_Unlink, D_Broadcast, M_Load,
      M_Store, M_Send, L_Scan, L_Send,
        ClosePipeAndReturn, pipes
    <3> QED BY <2>1, <3>1
  <2> QED BY <2>2, <2>3, <2>4
<1>2. CASE ~(\E w \in Workers : WorkerStep(w) \/ S_SpuriousWakeup(w))
  <2>1. \/ pipe'[c] = pipe[c] /\ received'[c] = received[c]
        \/ /\ pipe[c] # <<>> /\ pipe'[c] = Tail(pipe[c])
           /\ received'[c] = Append(received[c], Head(pipe[c]))
    <3>1. CASE \E d \in Publishers : PublisherSend(d)
      BY <1>0, <3>1, ClientsAssumption DEF PublisherSend
    <3>2. CASE \E d \in Clients \ Publishers : ClientRead(d)
      BY <1>0, <3>2 DEF ClientRead
    <3>3. CASE ~(\E d \in Publishers : PublisherSend(d)) /\ ~(\E d \in Clients \ Publishers : ClientRead(d))
      BY <1>2, <3>3 DEF Next, Register, ClientClose, Die, GiveUp, MainLoop, Sigint, pipes
    <3> QED BY <3>1, <3>2, <3>3
  <2>2. pipe[c] # <<>> =>
           /\ Append(received[c], Head(pipe[c])) \in Seq(Seq(Symbols))
           /\ Tail(pipe[c]) \in Seq(Seq(Symbols))
           /\ Append(received[c], Head(pipe[c])) \o Tail(pipe[c]) = received[c] \o pipe[c]
    BY <1>0, SequenceMoves
  <2>3. CASE pipe'[c] = pipe[c] /\ received'[c] = received[c]
    BY <1>0, <1>s, <2>3
  <2>4. CASE /\ pipe[c] # <<>> /\ pipe'[c] = Tail(pipe[c])
             /\ received'[c] = Append(received[c], Head(pipe[c]))
    <3>1. received'[c] \o pipe'[c] = received[c] \o pipe[c]
      BY <2>2, <2>4
    <3> QED BY <1>s, <2>2, <2>4, <3>1
  <2> QED BY <2>1, <2>3, <2>4
<1>3. ASSUME NEW w \in Workers, loc[w].req = c, pipe'[c] = Append(pipe[c], loc[w].msg),
             received'[c] = received[c]
      PROVE  /\ pipe'[c] \in Seq(Seq(Symbols))
             /\ Got(c)' = Append(Got(c), loc[w].msg)
  <2>1. loc[w].msg \in Seq(Symbols)
    BY DEF BInv, WorkersOK, Locals
  <2> QED BY <1>0, <1>3, <1>s, <2>1, SequenceMoves
<1> QED BY <1>0, <1>1, <1>2, <1>3, <1>s

\* a read is recorded for the client that read
LEMMA ReceivedDomain ==
  ASSUME DOMAIN received = Clients, Next
  PROVE  DOMAIN received' = Clients
<1>1. ASSUME NEW w \in Workers, WorkerStep(w) \/ S_SpuriousWakeup(w) PROVE UNCHANGED received
  BY <1>1 DEF WorkerStep, S_SpuriousWakeup, RequestsHandler, PublisherStep, SubscriberStep, ManagerStep,
      KilledBySigpipe, P_GetBox, GetBox, P_Register, P_Read, P_Write, P_Terminate, P_Broadcast,
      P_End, P_Close, S_GetBox, S_Register, S_Loop, S_Reacquire, S_Read, S_Send, S_Signal, S_End,
      C_GetBox, C_TfsOpen, C_TfsClose, C_Slot, C_Used, D_GetBox, D_Unlink, D_Broadcast, M_Load,
      M_Store, M_Send, L_Scan, L_Send,
      ClosePipeAndReturn, pipes
<1>2. CASE \E d \in Clients \ Publishers : ClientRead(d)
  BY <1>2 DEF ClientRead
<1>3. CASE ~(\E w \in Workers : WorkerStep(w) \/ S_SpuriousWakeup(w))
           /\ ~(\E d \in Clients \ Publishers : ClientRead(d))
  BY <1>3 DEF Next, Register, PublisherSend, ClientClose, Die, GiveUp, MainLoop, Sigint, pipes
<1> QED BY <1>1, <1>2, <1>3

(* A subscriber has got nothing before its session, and no worker starts one   *)
(* with the rest of another message.                                           *)
LEMMA SubscribersOKStep ==
  ASSUME BInv, ReqsDistinct, SubscribersOK, Next
  PROVE  SubscribersOK'
<1>0. /\ pc \in [Workers -> WorkerPCs] /\ loc \in [Workers -> Locals]
      /\ \A u \in Workers : Role(pc[u], loc[u])
      /\ client \in [Clients -> {"new", "opening", "dead", "removed", "open", "closed", "eof"}]
      /\ Subscribers \subseteq Clients
  BY DEF BInv, WorkersOK, PipesOK, Clients
<1>1. DOMAIN received' = Clients
  BY ReceivedDomain DEF SubscribersOK
<1>2. ASSUME NEW c \in Subscribers
      PROVE  /\ received'[c] \in Seq(Seq(Symbols)) /\ pipe'[c] \in Seq(Seq(Symbols))
             /\ client'[c] \in {"new", "opening"} => Got(c)' = <<>>
  <2>1. client'[c] \in {"new", "opening"} => client[c] \in {"new", "opening"} /\ Got(c) = <<>>
    BY <1>0, ClientKept DEF SubscribersOK
  <2> QED BY <2>1, GotMoves
<1>3. ASSUME NEW u \in Workers, pc'[u] \in {"s_get_box", "s_register"}
      PROVE  \A c \in Subscribers : loc'[u].req = c => Got(c)' = <<>>
  <2> SUFFICES ASSUME NEW c \in Subscribers, loc'[u].req = c PROVE Got(c)' = <<>>
    OBVIOUS
  <2>1. CASE pc[u] \in {"s_get_box", "s_register"} /\ loc[u].req = c
    <3>1. Got(c) = <<>>
      BY <2>1 DEF SubscribersOK
    <3>2. ASSUME NEW w \in Workers, pc[w] = "s_send", loc[w].req = c PROVE FALSE
      <4>1. w # u /\ Busy(w) /\ Busy(u)
        BY <2>1, <3>2 DEF Busy
      <4> QED BY <2>1, <3>2, <4>1 DEF ReqsDistinct
    <3> QED BY <3>1, <3>2, GotMoves
  <2>2. CASE client[c] = "opening"
    <3>1. Got(c) = <<>>
      BY <2>2 DEF SubscribersOK
    <3> QED BY <2>2, <3>1, GotMoves
  <2>3. ASSUME NEW w \in Workers, WorkerStep(w) \/ S_SpuriousWakeup(w)
        PROVE  \/ pc[u] \in {"s_get_box", "s_register"} /\ loc[u].req = c
               \/ client[c] = "opening"
    <3>1. CASE u # w
      <4>1. loc'[u] = loc[u] /\ pc'[u] = pc[u]
        BY <1>3, <2>3, <3>1, OthersMove
      <4> QED BY <1>3, <4>1
    <3>2. CASE u = w /\ RequestsHandler(w)
      <4>1. client[Head(requests_queue)] = "opening" /\ loc' = [loc EXCEPT ![w].req = Head(requests_queue)]
        BY <1>0, <1>3, <3>2 DEF RequestsHandler
      <4>2. loc'[w].req = Head(requests_queue)
        BY <1>0, <4>1, AfterReq
      <4> QED BY <3>2, <4>1, <4>2
    <3>3. CASE u = w /\ ~RequestsHandler(w)
      <4>1. loc'[w].req = loc[w].req
        BY <1>3, <2>3, <3>3, ReqKept
      <4>2. pc[w] \in {"s_get_box", "s_register"}
        <5>1. CASE KilledBySigpipe(w)
          BY <1>3, <3>3, <5>1 DEF KilledBySigpipe
        <5>2. CASE ~KilledBySigpipe(w)
          BY <1>0, <1>3, <2>3, <3>3, <5>2 DEF WorkerStep, S_SpuriousWakeup,
        PublisherStep, SubscriberStep, ManagerStep, P_GetBox, GetBox, P_Register, P_Read, P_Write,
        P_Terminate, P_Broadcast, P_End, P_Close, S_GetBox, S_Register, S_Loop, S_Reacquire, S_Read,
        S_Send, S_Signal, S_End, C_GetBox, C_TfsOpen,
        C_TfsClose, C_Slot, C_Used, D_GetBox, D_Unlink, D_Broadcast, M_Load, M_Store, M_Send, L_Scan,
        L_Send, Goto, Respond, ClosePipeAndReturn, Broadcast
        <5> QED BY <5>1, <5>2
      <4> QED BY <2>1, <3>3, <4>1, <4>2
    <3> QED BY <3>1, <3>2, <3>3
  <2>4. CASE ~(\E w \in Workers : WorkerStep(w) \/ S_SpuriousWakeup(w))
    BY <1>3, <2>1, <2>4, OthersIdle
  <2> QED BY <2>1, <2>2, <2>3, <2>4
<1>4. ASSUME NEW u \in Workers, pc'[u] \in {"idle", "s_get_box", "s_register"}
      PROVE  loc'[u].msg = <<>>
  <2>1. CASE pc[u] \in {"idle", "s_get_box", "s_register"} /\ loc'[u].msg = loc[u].msg
    BY <2>1 DEF SubscribersOK
  <2>2. ASSUME NEW w \in Workers, WorkerStep(w) \/ S_SpuriousWakeup(w)
        PROVE  loc'[u].msg = <<>>
    <3>1. CASE u # w
      <4>1. loc'[u] = loc[u] /\ pc'[u] = pc[u]
        BY <1>4, <2>2, <3>1, OthersMove
      <4> QED BY <1>4, <2>1, <4>1
    <3>2. CASE u = w /\ RequestsHandler(w)
      <4>1. pc[w] = "idle" /\ (UNCHANGED loc \/ loc' = [loc EXCEPT ![w].req = Head(requests_queue)])
        BY <3>2 DEF RequestsHandler
      <4>2. loc'[w].msg = loc[w].msg
        BY <1>0, <4>1, AfterReq
      <4> QED BY <2>1, <3>2, <4>1, <4>2
    <3>3. CASE u = w /\ S_GetBox(w)
      <4>1. pc[w] = "s_get_box" /\ \/ loc' = [loc EXCEPT ![w].box = get_box(BoxOf[loc[w].req])]
                                   \/ loc' = [loc EXCEPT ![w] = NoLocals]
        BY <3>3 DEF S_GetBox, GetBox, ClosePipeAndReturn
      <4>2. CASE loc' = [loc EXCEPT ![w].box = get_box(BoxOf[loc[w].req])]
        <5>1. loc'[w].msg = loc[w].msg
          BY <1>0, <4>2, AfterBox
        <5> QED BY <2>1, <3>3, <4>1, <5>1
      <4>3. CASE loc' = [loc EXCEPT ![w] = NoLocals]
        BY <1>0, <3>3, <4>3 DEF NoLocals
      <4> QED BY <4>1, <4>2, <4>3
    <3>4. CASE u = w /\ ~RequestsHandler(w) /\ ~S_GetBox(w)
      <4>1. loc'[w] = NoLocals
        <5>1. CASE KilledBySigpipe(w)
          BY <1>4, <3>4, <5>1 DEF KilledBySigpipe
        <5>2. CASE S_SpuriousWakeup(w)
          BY <1>0, <1>4, <3>4, <5>2 DEF S_SpuriousWakeup, Goto
        <5>3. CASE ~KilledBySigpipe(w) /\ ~S_SpuriousWakeup(w)
          BY <1>0, <1>4, <2>2, <3>4, <5>3 DEF WorkerStep,
        PublisherStep, SubscriberStep, ManagerStep, P_GetBox, GetBox, P_Register, P_Read, P_Write,
        P_Terminate, P_Broadcast, P_End, P_Close, S_Register, S_Loop, S_Reacquire, S_Read,
        S_Send, S_Signal, S_End, C_GetBox, C_TfsOpen,
        C_TfsClose, C_Slot, C_Used, D_GetBox, D_Unlink, D_Broadcast, M_Load, M_Store, M_Send, L_Scan,
        L_Send, Goto, Respond, ClosePipeAndReturn, Broadcast
        <5> QED BY <5>1, <5>2, <5>3
      <4> QED BY <3>4, <4>1 DEF NoLocals
    <3> QED BY <3>1, <3>2, <3>3, <3>4
  <2>3. CASE ~(\E w \in Workers : WorkerStep(w) \/ S_SpuriousWakeup(w))
    BY <1>4, <2>1, <2>3, OthersIdle
  <2> QED BY <2>2, <2>3
<1>5. ASSUME NEW u \in Workers, pc'[u] \in {"s_get_box", "s_register"}
      PROVE  received'[loc'[u].req] \o pipe'[loc'[u].req] = <<>>
  <2>1. loc'[u].req \in Subscribers
    BY <1>5, WorkersStep DEF WorkersOK, Role, S_PCs
  <2>2. PICK c \in Subscribers : c = loc'[u].req
    BY <2>1
  <2>3. Got(c)' = <<>>
    BY <1>3, <1>5, <2>2
  <2> QED BY <2>2, <2>3 DEF Got
<1> QED BY <1>1, <1>2, <1>4, <1>5 DEF SubscribersOK, Got

-----------------------------------------------------------------------------
(* What a file holds *)

\* the positions of a message of l bytes from a, in a file of f bytes
LEMMA Within ==
  ASSUME NEW a \in Nat, NEW l \in Nat, NEW f \in Nat, a + l <= f
  PROVE  \A j \in 1..l : a + j - 1 \in 0..f - 1
  OBVIOUS

\* a message of l bytes and its NUL, from r to a, in a file of f bytes
LEMMA NulWithin ==
  ASSUME NEW r \in Nat, NEW l \in Nat, NEW a \in Nat, NEW f \in Nat, a <= f, a = r + l + 1
  PROVE  a - 1 \in 0..f - 1 /\ r + l <= f
  OBVIOUS

(* What a file holds of the messages, it holds after it has grown by bytes     *)
(* that are not NUL.                                                           *)
LEMMA HoldsGrows ==
  ASSUME NEW name, NEW inum, NEW m \in Nat, NEW ends \in [0..m -> 0..BLOCK_SIZE],
         Holds(name, inum, m, ends), Grows(inum), FileSize(inum) \in Nat, SizeNext(inum) \in Nat,
         \A i \in 1..m : published'[name][i] = published[name][i] /\ Len(published[name][i]) \in Nat,
         \A o \in FileSize(inum)..SizeNext(inum) - 1 : ByteNext(inum, o) # NUL
  PROVE  Holds(name, inum, m, ends)'
<1>0. BLOCK_SIZE \in Nat /\ m \in 0..m /\ \A i \in 0..m : ends[i] \in Nat
  BY SizesAssumption
<1>1. /\ ends[0] = 0
      /\ \A i, j \in 0..m : i <= j => ends[i] <= ends[j]
      /\ ends[m] <= FileSize(inum)
      /\ \A o \in ends[m]..FileSize(inum) - 1 : ByteAt(inum, o) # NUL
  BY DEF Holds
<1>2. \A o \in 0..FileSize(inum) - 1 : ByteNext(inum, o) = ByteAt(inum, o)
  BY DEF Grows
<1>3. ASSUME NEW i \in 1..m
      PROVE  /\ ends[i] = ends[i - 1] + Len(published'[name][i]) + 1
             /\ \A j \in 1..Len(published'[name][i]) :
                   ByteNext(inum, ends[i - 1] + j - 1) = published'[name][i][j]
             /\ ByteNext(inum, ends[i] - 1) = NUL
  <2>1. /\ ends[i] = ends[i - 1] + Len(published[name][i]) + 1
        /\ \A j \in 1..Len(published[name][i]) :
              ByteAt(inum, ends[i - 1] + j - 1) = published[name][i][j]
        /\ ByteAt(inum, ends[i] - 1) = NUL
        /\ published'[name][i] = published[name][i] /\ Len(published[name][i]) \in Nat
    BY <1>3 DEF Holds
  <2>2. i \in 0..m /\ i - 1 \in 0..m /\ ends[i] \in Nat /\ ends[i - 1] \in Nat /\ ends[i] <= ends[m]
    BY <1>0, <1>1
  <2>3. ends[i] <= FileSize(inum) /\ ends[i] - 1 \in 0..FileSize(inum) - 1
        /\ ends[i - 1] + Len(published[name][i]) <= FileSize(inum)
    <3>2. ends[m] <= FileSize(inum) /\ ends[i] <= FileSize(inum) /\ ends[i - 1] <= ends[i]
      BY <1>0, <1>1, <2>1, <2>2
    <3> QED BY <2>1, <2>2, <3>2, NulWithin
  <2>4. \A j \in 1..Len(published[name][i]) : ends[i - 1] + j - 1 \in 0..FileSize(inum) - 1
    BY <2>1, <2>2, <2>3, Within
  <2> QED BY <1>2, <2>1, <2>3, <2>4
<1>4. ends[m] <= SizeNext(inum)
  BY <1>0, <1>1 DEF Grows
<1>5. ASSUME NEW o \in ends[m]..SizeNext(inum) - 1 PROVE ByteNext(inum, o) # NUL
  <2>1. CASE o < FileSize(inum)
    <3>1. o \in ends[m]..FileSize(inum) - 1 /\ o \in 0..FileSize(inum) - 1
      BY <1>0, <2>1
    <3> QED BY <1>1, <1>2, <3>1
  <2>2. CASE ~(o < FileSize(inum))
    <3>1. o \in FileSize(inum)..SizeNext(inum) - 1
      BY <1>0, <2>2
    <3> QED BY <3>1
  <2> QED BY <2>1, <2>2
<1> QED BY <1>1, <1>3, <1>4, <1>5 DEF Holds, SizeNext, ByteNext, FileSize, ByteAt

\* the first m messages of a name stay; e continues ends; the bytes of a message
Kept(name, m) ==
    \A i \in 1..m : published'[name][i] = published[name][i] /\ Len(published[name][i]) \in Nat
Continues(e, ends, m) == \A i \in 0..m : e[i] = ends[i]
MessageAt(inum, offset, msg) == \A j \in 1..Len(msg) : ByteAt(inum, offset + j - 1) = msg[j]

(* A message whose NUL has been written is one more message that the file      *)
(* holds.                                                                      *)
LEMMA HoldsExtended ==
  ASSUME NEW name, NEW inum, NEW m \in Nat, NEW ends \in [0..m -> 0..BLOCK_SIZE], NEW msg \in Seq(Bytes),
         NEW size \in Nat, FileSize(inum) = size, size = ends[m] + Len(msg),
         NEW more \in 0..BLOCK_SIZE, SizeNext(inum) = more, more = size + 1,
         Holds(name, inum, m, ends), Grows(inum),
         MessageAt(inum, ends[m], msg),
         ByteNext(inum, size) = NUL,
         Kept(name, m),
         NEW n \in Nat, n = m + 1, published'[name][n] = msg,
         NEW e \in [0..n -> 0..BLOCK_SIZE], Continues(e, ends, m), e[n] = more
  PROVE  Holds(name, inum, n, e)'
<1>c. \A i \in 0..m : e[i] = ends[i]
  BY DEF Continues
<1>k. \A i \in 1..m : published'[name][i] = published[name][i] /\ Len(published[name][i]) \in Nat
  BY DEF Kept
<1>m. \A j \in 1..Len(msg) : ByteAt(inum, ends[m] + j - 1) = msg[j]
  BY DEF MessageAt
<1>l. Len(msg) \in Nat
  BY LenProperties
<1>0. BLOCK_SIZE \in Nat /\ m \in 0..m /\ (\A i \in 0..m : ends[i] \in Nat) /\ Len(msg) \in Nat
  BY <1>l, SizesAssumption
<1>a. /\ ends[m] \in Nat /\ ends[m] + Len(msg) + 1 \in 0..BLOCK_SIZE /\ FileSize(inum) \in Nat
      /\ e[n] = ends[m] + Len(msg) + 1
  BY <1>0, <1>c
<1>4. /\ e[n] = SizeNext(inum) /\ e[n] = FileSize(inum) + 1
      /\ e[m] = ends[m] /\ e[n - 1] = ends[m] /\ e[0] = ends[0]
  BY <1>0, <1>c
<1>5. /\ ends[0] = 0
      /\ \A i, j \in 0..m : i <= j => ends[i] <= ends[j]
      /\ ends[m] <= FileSize(inum)
  BY DEF Holds
<1>6. \A o \in 0..FileSize(inum) - 1 : ByteNext(inum, o) = ByteAt(inum, o)
  BY DEF Grows
<1>7. ASSUME NEW i \in 0..n, NEW j \in 0..n, i <= j PROVE e[i] <= e[j]
  <2>1. CASE j <= m
    <3>1. i \in 0..m /\ j \in 0..m
      BY <1>7, <2>1
    <3> QED BY <1>5, <1>7, <1>c, <3>1
  <2>2. CASE ~(j <= m)
    <3>1. j = n /\ (i = n \/ i \in 0..m)
      BY <2>2
    <3>2. CASE i = n
      BY <1>0, <1>a, <3>1, <3>2
    <3>3. CASE i \in 0..m
      <4>1. e[i] = ends[i] /\ ends[i] \in Nat /\ ends[i] <= ends[m]
        BY <1>0, <1>5, <1>c, <3>3
      <4> QED BY <1>0, <1>a, <3>1, <4>1
    <3> QED BY <3>1, <3>2, <3>3
  <2> QED BY <2>1, <2>2
<1>8. ASSUME NEW i \in 1..n
      PROVE  /\ e[i] = e[i - 1] + Len(published'[name][i]) + 1
             /\ \A j \in 1..Len(published'[name][i]) :
                   ByteNext(inum, e[i - 1] + j - 1) = published'[name][i][j]
             /\ ByteNext(inum, e[i] - 1) = NUL
  <2>1. CASE i \in 1..m
    <3>1. /\ ends[i] = ends[i - 1] + Len(published[name][i]) + 1
          /\ \A j \in 1..Len(published[name][i]) :
                ByteAt(inum, ends[i - 1] + j - 1) = published[name][i][j]
          /\ ByteAt(inum, ends[i] - 1) = NUL
          /\ published'[name][i] = published[name][i] /\ Len(published[name][i]) \in Nat
      BY <1>k, <2>1 DEF Holds
    <3>2. i \in 0..m /\ i - 1 \in 0..m /\ ends[i] \in Nat /\ ends[i - 1] \in Nat /\ ends[i] <= ends[m]
          /\ e[i] = ends[i] /\ e[i - 1] = ends[i - 1]
      BY <1>0, <1>5, <1>c, <2>1
    <3>3. /\ ends[i] <= FileSize(inum) /\ ends[i] - 1 \in 0..FileSize(inum) - 1
          /\ ends[i - 1] + Len(published[name][i]) <= FileSize(inum)
      <4>2. i - 1 <= i /\ ends[m] <= FileSize(inum)
        BY <1>5
      <4>3. ends[i - 1] <= ends[i]
        BY <1>5, <3>2, <4>2
      <4>4. \A a, b, c \in Nat : a <= b /\ b <= c => a <= c
        OBVIOUS
      <4>5. ends[i] <= FileSize(inum)
        BY <1>a, <3>2, <4>2, <4>4
      <4>6. PICK f \in Nat, r \in Nat, x \in Nat, k \in Nat :
               f = FileSize(inum) /\ r = ends[i - 1] /\ x = ends[i] /\ k = Len(published[name][i])
        BY <1>a, <3>1, <3>2
      <4>7. r <= x /\ x <= f /\ x = r + k + 1
        BY <3>1, <4>3, <4>5, <4>6
      <4>8. x <= f /\ x - 1 \in 0..f - 1 /\ r + k <= f
        BY <4>7, NulWithin
      <4> QED BY <4>6, <4>8
    <3>4. \A j \in 1..Len(published[name][i]) : ends[i - 1] + j - 1 \in 0..FileSize(inum) - 1
      BY <1>a, <3>1, <3>2, <3>3, Within
    <3> QED BY <1>6, <3>1, <3>2, <3>3, <3>4
  <2>2. CASE i = n
    <3>1. published'[name][i] = msg /\ e[i - 1] = ends[m] /\ e[i] = ends[m] + Len(msg) + 1
          /\ e[i] - 1 = FileSize(inum)
      BY <1>0, <1>a, <1>4, <2>2
    <3>2. ASSUME NEW j \in 1..Len(msg)
          PROVE  ends[m] + j - 1 \in 0..FileSize(inum) - 1
      <4>1. ends[m] + Len(msg) <= FileSize(inum)
        BY <1>a
      <4> QED BY <1>0, <1>a, <4>1, Within
    <3> QED BY <1>6, <1>m, <3>1, <3>2
  <2>3. i \in 1..m \/ i = n
    OBVIOUS
  <2> QED BY <2>1, <2>2, <2>3
<1>9. \A o \in e[n]..SizeNext(inum) - 1 : ByteNext(inum, o) # NUL
  BY <1>a, <1>4
<1>10. e[n] <= SizeNext(inum) /\ e[0] = 0
  BY <1>a, <1>4, <1>5
<1> QED BY <1>7, <1>8, <1>9, <1>10 DEF Holds, SizeNext, ByteNext, FileSize, ByteAt

(* A subscriber that does not move stands where it stood, whatever is written  *)
(* after it.                                                                   *)
LEMMA ReaderStays ==
  ASSUME NEW u \in Workers, NEW name, NEW inum,
         NEW m \in Nat, NEW ends \in [0..m -> 0..BLOCK_SIZE],
         NEW n \in Nat, NEW e \in [0..n -> 0..BLOCK_SIZE], m <= n, \A i \in 0..m : e[i] = ends[i],
         \A i \in 1..m : published'[name][i] = published[name][i],
         NEW c, loc[u].req = c, Len(Got(c)) \in Nat, Len(loc[u].msg) \in Nat,
         FileSize(inum) \in Nat, SizeNext(inum) \in Nat, Grows(inum),
         ReaderAt(u, name, inum, m, ends),
         pc'[u] \in SubSession => /\ pc[u] \in SubSession /\ loc'[u].req = c /\ Got(c)' = Got(c)
                                  /\ loc'[u].msg = loc[u].msg
                                  /\ pc'[u] \in Reading => pc[u] \in Reading
                                  /\ pc'[u] = "s_send" => pc[u] = "s_send"
                                  /\ open_file_table'[loc'[u].fd].of_offset = OffsetOf(loc[u].fd)
  PROVE  ReaderAt(u, name, inum, n, e)'
<1>0. BLOCK_SIZE \in Nat /\ (\A i \in 0..m : ends[i] \in Nat)
  BY SizesAssumption
<1> SUFFICES ASSUME pc'[u] \in SubSession, BoxOf[loc'[u].req] = name
             PROVE  LET k == Len(Got(c)') IN
                    /\ k <= n
                    /\ pc'[u] \in Reading =>
                          /\ open_file_table'[loc'[u].fd].of_offset = e[k] + Len(loc'[u].msg)
                          /\ open_file_table'[loc'[u].fd].of_offset <= SizeNext(inum)
                          /\ \A j \in 1..Len(loc'[u].msg) :
                                /\ loc'[u].msg[j] = ByteNext(inum, e[k] + j - 1)
                                /\ loc'[u].msg[j] # NUL
                    /\ pc'[u] = "s_send" => /\ k < n /\ loc'[u].msg = published'[name][k + 1]
                                            /\ open_file_table'[loc'[u].fd].of_offset = e[k + 1]
  <2>1. loc'[u].req = c => Got(loc[u].req)' = Got(c)'
    BY DEF Got
  <2> QED BY <2>1 DEF ReaderAt, OffsetOf, ByteAt, ByteNext, FileSize, SizeNext
<1>1. /\ pc[u] \in SubSession /\ BoxOf[loc[u].req] = name /\ loc'[u].msg = loc[u].msg /\ Got(c)' = Got(c)
      /\ pc'[u] \in Reading => pc[u] \in Reading
      /\ pc'[u] = "s_send" => pc[u] = "s_send"
      /\ open_file_table'[loc'[u].fd].of_offset = OffsetOf(loc[u].fd)
  OBVIOUS
<1>2. PICK k : k = Len(Got(c))
  OBVIOUS
<1>3. /\ k <= m
      /\ pc[u] \in Reading =>
            /\ OffsetOf(loc[u].fd) = ends[k] + Len(loc[u].msg)
            /\ OffsetOf(loc[u].fd) <= FileSize(inum)
            /\ \A j \in 1..Len(loc[u].msg) : /\ loc[u].msg[j] = ByteAt(inum, ends[k] + j - 1)
                                             /\ loc[u].msg[j] # NUL
      /\ pc[u] = "s_send" => /\ k < m /\ loc[u].msg = published[name][k + 1]
                             /\ OffsetOf(loc[u].fd) = ends[k + 1]
  BY <1>1, <1>2 DEF ReaderAt
<1>4. k \in 0..m /\ e[k] = ends[k] /\ ends[k] \in Nat /\ k <= n
  BY <1>0, <1>2, <1>3
<1>5. pc[u] \in Reading =>
         /\ OffsetOf(loc[u].fd) <= SizeNext(inum)
         /\ \A j \in 1..Len(loc[u].msg) : ByteNext(inum, ends[k] + j - 1) = ByteAt(inum, ends[k] + j - 1)
  <2> SUFFICES ASSUME pc[u] \in Reading
               PROVE  /\ OffsetOf(loc[u].fd) <= SizeNext(inum)
                      /\ \A j \in 1..Len(loc[u].msg) :
                            ByteNext(inum, ends[k] + j - 1) = ByteAt(inum, ends[k] + j - 1)
    OBVIOUS
  <2>1. ends[k] + Len(loc[u].msg) <= FileSize(inum) /\ OffsetOf(loc[u].fd) = ends[k] + Len(loc[u].msg)
    BY <1>3
  <2>2. \A j \in 1..Len(loc[u].msg) : ends[k] + j - 1 \in 0..FileSize(inum) - 1
    BY <1>4, <2>1, Within
  <2>3. SizeNext(inum) >= FileSize(inum) /\ (\A o \in 0..FileSize(inum) - 1 : ByteNext(inum, o) = ByteAt(inum, o))
    BY DEF Grows
  <2>4. OffsetOf(loc[u].fd) <= SizeNext(inum)
    <3>1. OffsetOf(loc[u].fd) \in Nat /\ OffsetOf(loc[u].fd) <= FileSize(inum)
      BY <1>4, <2>1
    <3> QED BY <2>3, <3>1
  <2> QED BY <2>2, <2>3, <2>4
<1>6. k < m => k < n /\ k + 1 \in 1..m /\ k + 1 \in 0..m
  BY <1>4
<1>7. k < m => e[k + 1] = ends[k + 1] /\ published'[name][k + 1] = published[name][k + 1]
  BY <1>6
<1> QED BY <1>1, <1>2, <1>3, <1>4, <1>5, <1>6, <1>7

-----------------------------------------------------------------------------
(* What is published *)

\* only the second write of a message publishes it
LEMMA PublishedKept ==
  ASSUME NEW w \in Workers, WorkerStep(w) \/ S_SpuriousWakeup(w), ~P_Terminate(w)
  PROVE  published' = published
  BY DEF WorkerStep, S_SpuriousWakeup, RequestsHandler, PublisherStep, SubscriberStep, ManagerStep,
      KilledBySigpipe, P_GetBox, GetBox, P_Register, P_Read, P_Write, P_Broadcast,
      P_End, P_Close, S_GetBox, S_Register, S_Loop, S_Reacquire, S_Read, S_Send, S_Signal, S_End,
      C_GetBox, C_TfsOpen, C_TfsClose, C_Slot, C_Used, D_GetBox, D_Unlink, D_Broadcast, M_Load,
      M_Store, M_Send, L_Scan, L_Send

\* the same for any step
LEMMA PublishedMoves ==
  ASSUME Next, ~(\E w \in Workers : P_Terminate(w) /\ WorkerStep(w))
  PROVE  published' = published
<1>1. ASSUME NEW w \in Workers, S_SpuriousWakeup(w) PROVE published' = published
  BY <1>1 DEF S_SpuriousWakeup
<1> QED BY <1>1, PublishedKept, OthersIdle

\* what the second write publishes
LEMMA Publishes ==
  ASSUME SInv, HandlesOwned, BoxesFirst, HandlesNamed, PublishedOK, NEW w \in Workers, P_Terminate(w)
  PROVE  /\ BoxOf[loc[w].req] \in AllNames /\ Named(BoxOf[loc[w].req], InodeOf(loc[w].fd))
         /\ \/ published' = published
            \/ published' = [published EXCEPT ![BoxOf[loc[w].req]] = Append(@, loc[w].msg)]
<1>0. BInv /\ Role(pc[w], loc[w])
  BY DEF SInv, BInv, WorkersOK
<1>1. pc[w] = "p_terminate"
  BY DEF P_Terminate
<1>2. loc[w].req \in Clients
  BY <1>0, <1>1 DEF Role, P_PCs, PubSession, Clients
<1>3. boxes[loc[w].box].name = BoxOf[loc[w].req]
  BY <1>1 DEF BoxesFirst, Sessions, PubSession
<1>4. Named(BoxOf[loc[w].req], InodeOf(loc[w].fd))
  BY <1>1 DEF HandlesNamed, PubSession
<1>5. \/ published' = published
      \/ published' = [published EXCEPT ![boxes[loc[w].box].name] = Append(@, loc[w].msg)]
  BY <1>0, NulWrite
<1> QED BY <1>2, <1>3, <1>4, <1>5, BrokerAssumption

(* Messages are published under names of files only.                           *)
LEMMA PublishedOKStep ==
  ASSUME SInv, Deleters = {}, HandlesOwned, BoxesFirst, HandlesNamed, PublishedOK, Next
  PROVE  PublishedOK'
<1>0. BInv /\ FsInv
  BY DEF SInv, BInv
<1>k. ASSUME NEW name, \A inum \in Inodes : ~(\E s \in Slots : /\ dir'[s].d_inumber = inum
                                                               /\ dir'[s].d_inumber # -1
                                                               /\ dir'[s].d_name = name)
      PROVE  \A inum \in Inodes : ~Named(name, inum)
  <2> SUFFICES ASSUME NEW inum \in Inodes, Named(name, inum) PROVE FALSE
    OBVIOUS
  <2>1. Named(name, inum)'
    BY <1>0, NamedKept
  <2> QED BY <1>k, <2>1 DEF Named
<1>1. CASE published' = published
  <2>1. published' \in [AllNames -> Seq(Seq(Bytes \ {NUL}))]
    BY <1>1 DEF PublishedOK
  <2> QED BY <1>1, <1>k, <2>1 DEF PublishedOK, Named
<1>2. ASSUME NEW w \in Workers, P_Terminate(w),
             published' = [published EXCEPT ![BoxOf[loc[w].req]] = Append(@, loc[w].msg)]
      PROVE  PublishedOK'
  <2>1. PICK b \in AllNames : b = BoxOf[loc[w].req]
    BY <1>2, Publishes
  <2>2. PICK msg \in Seq(Bytes \ {NUL}) : msg = loc[w].msg
    BY <1>0, <1>2, NulWrite
  <2>3. published' = [published EXCEPT ![b] = Append(published[b], msg)]
    BY <1>2, <2>1, <2>2
  <2>4. published \in [AllNames -> Seq(Seq(Bytes \ {NUL}))]
    BY DEF PublishedOK
  <2>5. Append(published[b], msg) \in Seq(Seq(Bytes \ {NUL}))
    BY <2>4, AppendProperties
  <2>6. published' \in [AllNames -> Seq(Seq(Bytes \ {NUL}))]
    BY <2>3, <2>4, <2>5
  <2>7. ASSUME NEW name \in AllNames, \A inum \in Inodes : ~Named(name, inum)
        PROVE  published'[name] = <<>>
    <3>1. name # b
      <4>1. Named(b, InodeOf(loc[w].fd)) /\ InodeOf(loc[w].fd) \in Inodes
        BY <1>0, <1>2, <2>1, Publishes, NamedOnce
      <4> QED BY <2>7, <4>1
    <3>2. published[name] = <<>>
      BY <2>7 DEF PublishedOK
    <3> QED BY <2>3, <2>4, <3>1, <3>2
  <2> QED BY <1>k, <2>6, <2>7 DEF PublishedOK, Named
<1>3. \/ published' = published
      \/ \E w \in Workers : /\ P_Terminate(w)
                            /\ published' = [published EXCEPT ![BoxOf[loc[w].req]] = Append(@, loc[w].msg)]
  BY PublishedMoves, Publishes
<1> QED BY <1>1, <1>2, <1>3

\* a step that is not one of the two writes under a name leaves who writes there
LEMMA WritersSame ==
  ASSUME BInv, NEW w \in Workers, WorkerStep(w) \/ S_SpuriousWakeup(w), NEW name,
         P_Write(w) \/ P_Terminate(w) => BoxOf[loc[w].req] # name
  PROVE  \A u \in Workers : /\ Writing(u, name)' <=> Writing(u, name)
                            /\ Writing(u, name) => loc'[u].msg = loc[u].msg
<1>0. pc \in [Workers -> WorkerPCs] /\ loc \in [Workers -> Locals]
  BY DEF BInv, WorkersOK
<1> SUFFICES ASSUME NEW u \in Workers
             PROVE  /\ (pc'[u] = "p_terminate" /\ BoxOf[loc'[u].req] = name)
                          <=> (pc[u] = "p_terminate" /\ BoxOf[loc[u].req] = name)
                    /\ pc[u] = "p_terminate" /\ BoxOf[loc[u].req] = name => loc'[u].msg = loc[u].msg
  BY DEF Writing
<1>1. CASE u # w
  <2>1. loc'[u] = loc[u] /\ (pc'[u] = pc[u] \/ (pc[u] = "s_asleep" /\ pc'[u] \in {"s_woken", "s_orphan"}))
    <3>1. u \in Workers \ {w}
      BY <1>1
    <3> QED BY <3>1, OthersMove
  <2>2. CASE pc'[u] = pc[u]
    BY <2>1, <2>2
  <2>3. CASE pc[u] = "s_asleep" /\ pc'[u] \in {"s_woken", "s_orphan"}
    BY <2>3
  <2> QED BY <2>1, <2>2, <2>3
<1>2. CASE u = w /\ (P_Write(w) \/ P_Terminate(w))
  <2>1. UNCHANGED loc
    BY <1>2 DEF P_Write, P_Terminate
  <2> QED BY <1>2, <2>1
<1>3. CASE u = w /\ ~P_Write(w) /\ ~P_Terminate(w)
  <2>1. pc[w] # "p_terminate" /\ pc'[w] # "p_terminate"
    <3>1. CASE KilledBySigpipe(w)
      BY <3>1 DEF KilledBySigpipe
    <3>2. CASE RequestsHandler(w)
      <4>1. Head(requests_queue) \in Clients
        BY <3>2 DEF BInv, RequestsOK, RequestsHandler
      <4> QED BY <1>0, <3>2, <4>1, HandlerKind DEF RequestsHandler
    <3>3. CASE ~KilledBySigpipe(w) /\ ~RequestsHandler(w)
      BY <1>0, <1>3, <3>3 DEF WorkerStep, S_SpuriousWakeup,
        PublisherStep, SubscriberStep, ManagerStep, P_GetBox, GetBox, P_Register, P_Read,
        P_Broadcast, P_End, P_Close, S_GetBox, S_Register, S_Loop, S_Reacquire, S_Read,
        S_Send, S_Signal, S_End, C_GetBox, C_TfsOpen,
        C_TfsClose, C_Slot, C_Used, D_GetBox, D_Unlink, D_Broadcast, M_Load, M_Store, M_Send, L_Scan,
        L_Send, Goto, Respond, ClosePipeAndReturn, Broadcast
    <3> QED BY <3>1, <3>2, <3>3
  <2> QED BY <1>3, <2>1
<1> QED BY <1>1, <1>2, <1>3

\* what a write of a publisher does to its file
LEMMA FileWrite ==
  ASSUME SInv, HandlesOwned, WritesAtEnd, HandlesNamed, Next,
         NEW w \in Workers, pc[w] \in PubSession \ {"p_end"},
         NEW data \in Seq(Bytes), NEW ret, tfs_write(loc[w].fd, data, ret),
         NEW inum, inum = InodeOf(loc[w].fd)
  PROVE  /\ FileSize(inum) \in 0..BLOCK_SIZE /\ SizeNext(inum) \in 0..BLOCK_SIZE /\ Grows(inum)
         /\ \/ ret = -1 /\ FileSize(inum) = 0 /\ SizeNext(inum) = 0 /\ data # <<>>
            \/ ret = 0 /\ data = <<>> /\ SizeNext(inum) = FileSize(inum)
            \/ ret = 0 /\ data # <<>> /\ FileSize(inum) = BLOCK_SIZE /\ SizeNext(inum) = BLOCK_SIZE
            \/ /\ ret \in 1..Len(data) /\ SizeNext(inum) = FileSize(inum) + ret
               /\ \A j \in 1..ret : ByteNext(inum, FileSize(inum) + j - 1) = data[j]
               /\ ret = Len(data) \/ SizeNext(inum) = BLOCK_SIZE
<1>0. BInv /\ FsInv /\ FsInv' /\ TablesTyped /\ TablesTyped' /\ BlocksOwned
  <2>1. BInv /\ FsInv
    BY DEF SInv, BInv
  <2>2. FsInv'
    BY <2>1, FilesStep
  <2> QED BY <2>1, <2>2 DEF FsInv
<1>1. /\ IsOpenHandle(loc[w].fd) /\ loc[w].fd \in Handles
      /\ OffsetOf(loc[w].fd) = FileSize(inum) /\ Named(BoxOf[loc[w].req], inum)
  BY DEF HandlesOwned, FilePCs, IsOpenHandle, WritesAtEnd, HandlesNamed
<1>2. inum \in Inodes /\ inum \notin freeinode_ts \cup {ROOT_DIR_INUM}
  BY <1>0, <1>1, NamedOnce
<1>3. FileSize(inum) \in 0..BLOCK_SIZE /\ SizeNext(inum) \in 0..BLOCK_SIZE
  BY <1>0, <1>2 DEF TablesTyped, FileSize, SizeNext
<1>4. CASE UNCHANGED fs /\ ~(Writes(loc[w].fd, data) /\ ret = Count(loc[w].fd, data))
  <2>1. Grows(inum) /\ SizeNext(inum) = FileSize(inum)
    BY <1>3, <1>4 DEF Grows, FileSize, SizeNext, ByteAt, ByteNext, fs
  <2> QED BY <1>0, <1>1, <1>3, <1>4, <2>1, WriteOutcome
<1>5. CASE Writes(loc[w].fd, data) /\ ret = Count(loc[w].fd, data)
  <2>1. SizeNext(inum) = FileSize(inum) + Count(loc[w].fd, data)
    BY <1>0, <1>1, <1>5, WriteSize
  <2>2. /\ Count(loc[w].fd, data) \in 1..Len(data)
        /\ OffsetOf(loc[w].fd) + Count(loc[w].fd, data) \in 1..BLOCK_SIZE
    BY <1>0, <1>1, <1>5, WriteFacts
  <2>3. /\ Grows(inum)
        /\ \A j \in 1..Count(loc[w].fd, data) : ByteNext(inum, OffsetOf(loc[w].fd) + j - 1) = data[j]
    BY <1>0, <1>1, <1>2, <1>5, WriteOwn
  <2>4. ret = Len(data) \/ FileSize(inum) + ret = BLOCK_SIZE
    BY <1>0, <1>1, <1>3, <1>5, <2>2, WriteOutcome
  <2> QED BY <1>1, <1>3, <1>5, <2>1, <2>2, <2>3, <2>4
<1> QED BY <1>0, <1>1, <1>4, <1>5, WriteOutcome

-----------------------------------------------------------------------------
(* The first write of a message *)

\* a publisher writes alone under its name
LEMMA OnlyWriter ==
  ASSUME SInv, Deleters = {}, BoxesFirst, HandlesNamed,
         NEW w \in Workers, WorkerStep(w), P_Write(w) \/ P_Terminate(w),
         NEW u \in Workers, u # w, NEW name, name = BoxOf[loc[w].req]
  PROVE  ~Writing(u, name) /\ ~(Writing(u, name)')
<1>0. BInv
  BY DEF SInv
<1>1. pc[w] \in PubSession
  BY DEF P_Write, P_Terminate, PubSession
<1>2. ~Writing(u, name)
  <2> SUFFICES ASSUME pc[u] = "p_terminate", BoxOf[loc[u].req] = name PROVE FALSE
    BY DEF Writing
  <2>1. pc[u] \in PubSession
    BY DEF PubSession
  <2> QED BY <1>1, <2>1, OneWriter
<1>3. ~(Writing(u, name)')
  <2>0. u \in Workers \ {w}
    OBVIOUS
  <2>1. loc'[u] = loc[u] /\ (pc'[u] = pc[u] \/ (pc[u] = "s_asleep" /\ pc'[u] \in {"s_woken", "s_orphan"}))
    BY <1>0, <2>0, OthersMove
  <2> QED BY <1>2, <2>1 DEF Writing
<1> QED BY <1>2, <1>3

(* The first write of a message: the file still holds what was published, and  *)
(* then the message, unless it is full.                                        *)
LEMMA ContentWrite ==
  ASSUME SInv, Deleters = {}, HandlesOwned, BoxesFirst, HandlesNamed, WritesAtEnd, PublishedOK, Next,
         NEW w \in Workers, WorkerStep(w), P_Write(w),
         NEW name, name = BoxOf[loc[w].req], NEW inum, inum = InodeOf(loc[w].fd),
         NEW m \in Nat, NEW ends \in [0..m -> 0..BLOCK_SIZE],
         \A i \in 1..m : Len(published[name][i]) \in Nat,
         Holds(name, inum, m, ends), Written(name, inum, m, ends)
  PROVE  /\ Grows(inum) /\ published' = published
         /\ Holds(name, inum, m, ends)' /\ Written(name, inum, m, ends)'
<1>0. BInv /\ pc \in [Workers -> WorkerPCs]
  BY DEF SInv, BInv, WorkersOK
<1>1. /\ pc[w] = "p_write" /\ UNCHANGED <<loc, published>>
      /\ loc[w].msg \in Seq(Bytes) /\ loc[w].msg \in Seq(Bytes \ {NUL})
  BY <1>0, MessageWrite
<1>2. PICK msg \in Seq(Bytes \ {NUL}) : msg = loc[w].msg
  BY <1>1
<1>3. PICK ret : /\ tfs_write(loc[w].fd, msg, ret)
                 /\ pc' = [pc EXCEPT ![w] = IF ret = Len(msg) THEN "p_terminate" ELSE "p_end"]
  BY <1>0, <1>2, MessageWrite
<1>4. msg \in Seq(Bytes) /\ pc[w] \in PubSession \ {"p_end"}
  BY <1>1, <1>2 DEF PubSession
<1> DEFINE s == FileSize(inum)
           t == SizeNext(inum)
<1>5. /\ s \in 0..BLOCK_SIZE /\ t \in 0..BLOCK_SIZE /\ Grows(inum)
      /\ \/ ret = -1 /\ s = 0 /\ t = 0 /\ msg # <<>>
         \/ ret = 0 /\ msg = <<>> /\ t = s
         \/ ret = 0 /\ msg # <<>> /\ s = BLOCK_SIZE /\ t = BLOCK_SIZE
         \/ /\ ret \in 1..Len(msg) /\ t = s + ret
            /\ \A j \in 1..ret : ByteNext(inum, s + j - 1) = msg[j]
            /\ ret = Len(msg) \/ t = BLOCK_SIZE
  BY <1>3, <1>4, FileWrite
<1>6. BLOCK_SIZE \in Nat /\ s \in Nat /\ t \in Nat /\ t >= s /\ Len(msg) \in Nat
  BY <1>2, <1>5, SizesAssumption DEF Grows
<1>7. \A u \in Workers : ~Writing(u, name) /\ (Writing(u, name)' => u = w)
  BY <1>1, OnlyWriter DEF Writing
<1>8. \A o \in s..t - 1 : ByteNext(inum, o) # NUL
  <2> SUFFICES ASSUME NEW o \in s..t - 1 PROVE ByteNext(inum, o) # NUL
    OBVIOUS
  <2> HIDE DEF s, t
  <2>1. /\ ret \in 1..Len(msg) /\ t = s + ret
        /\ \A j \in 1..ret : ByteNext(inum, s + j - 1) = msg[j]
    BY <1>5, <1>6
  <2>2. PICK j : j = o - s + 1
    OBVIOUS
  <2>3. j \in 1..ret /\ j \in 1..Len(msg) /\ s + j - 1 = o
    <3>1. ret \in 1..Len(msg) /\ t = s + ret
      BY <2>1
    <3>2. \A a, b, r, l, x \in Int : r \in 1..l /\ b = a + r /\ x \in a..b - 1
              => /\ (x - a) + 1 \in 1..r /\ (x - a) + 1 \in 1..l /\ a + ((x - a) + 1) - 1 = x
      OBVIOUS
    <3>3. s \in Int /\ t \in Int /\ ret \in Int /\ Len(msg) \in Int /\ o \in Int
      BY <1>6, <3>1
    <3> QED BY <2>2, <3>1, <3>2, <3>3
  <2>4. msg[j] \in Bytes \ {NUL}
    BY <2>3
  <2> QED BY <2>1, <2>3, <2>4
<1>9. Holds(name, inum, m, ends)'
  BY <1>1, <1>5, <1>6, <1>8, HoldsGrows
<1>10. s = BLOCK_SIZE \/ (m = Len(published[name]) /\ s = ends[m])
  BY <1>7 DEF Written
<1>11. \/ t = BLOCK_SIZE
       \/ /\ m = Len(published[name]) /\ t = ends[m]
          /\ msg = <<>> \/ pc'[w] # "p_terminate"
       \/ /\ m = Len(published[name]) /\ pc'[w] = "p_terminate"
          /\ t = ends[m] + Len(msg)
          /\ \A j \in 1..Len(msg) : ByteNext(inum, ends[m] + j - 1) = msg[j]
  <2>1. pc'[w] = IF ret = Len(msg) THEN "p_terminate" ELSE "p_end"
    BY <1>0, <1>3
  <2> HIDE DEF s, t
  <2>2. CASE s = BLOCK_SIZE
    BY <1>5, <1>6, <2>2
  <2>3. CASE m = Len(published[name]) /\ s = ends[m]
    <3>1. CASE ret = -1 /\ s = 0 /\ t = 0 /\ msg # <<>>
      BY <1>6, <2>1, <2>3, <3>1
    <3>2. CASE msg = <<>> /\ t = s
      BY <2>3, <3>2
    <3>3. CASE t = BLOCK_SIZE
      BY <3>3
    <3>4. CASE /\ ret \in 1..Len(msg) /\ t = s + ret /\ ret = Len(msg)
               /\ \A j \in 1..ret : ByteNext(inum, s + j - 1) = msg[j]
      BY <2>1, <2>3, <3>4
    <3> QED BY <1>5, <3>1, <3>2, <3>3, <3>4
  <2> QED BY <1>10, <2>2, <2>3
<1>12. /\ published' = published /\ loc'[w] = loc[w]
       /\ Writing(w, name)' <=> pc'[w] = "p_terminate"
  BY <1>1 DEF Writing
<1>13. /\ FileSize(inum)' = t
       /\ \A o : ByteAt(inum, o)' = ByteNext(inum, o)
  BY DEF FileSize, SizeNext, ByteAt, ByteNext
<1> HIDE DEF s, t
<1>14. Written(name, inum, m, ends)'
  <2>1. CASE t = BLOCK_SIZE
    BY <1>13, <2>1 DEF Written
  <2>2. CASE m = Len(published[name]) /\ t = ends[m] /\ (msg = <<>> \/ pc'[w] # "p_terminate")
    <3>1. \A u \in Workers : Writing(u, name)' => loc'[u].msg = <<>>
      BY <1>2, <1>7, <1>12, <2>2
    <3> QED BY <1>12, <1>13, <2>2, <3>1 DEF Written
  <2>3. CASE /\ m = Len(published[name]) /\ pc'[w] = "p_terminate"
             /\ t = ends[m] + Len(msg)
             /\ \A j \in 1..Len(msg) : ByteNext(inum, ends[m] + j - 1) = msg[j]
    <3>1. Writing(w, name)' /\ loc'[w].msg = msg
      BY <1>2, <1>12, <2>3
    <3>2. \A j \in 1..Len(msg) : ByteAt(inum, ends[m] + j - 1)' = msg[j]
      BY <2>3 DEF ByteAt, ByteNext
    <3> QED BY <1>12, <1>13, <2>3, <3>1, <3>2 DEF Written
  <2> QED BY <1>11, <2>1, <2>2, <2>3
<1> QED BY <1>1, <1>5, <1>9, <1>14

-----------------------------------------------------------------------------
(* The second write of a message *)

(* The second write of a message: the file holds one more message, unless it   *)
(* is full or the message was empty and there was no block for its NUL.        *)
LEMMA ContentTerminate ==
  ASSUME SInv, Deleters = {}, HandlesOwned, BoxesFirst, HandlesNamed, WritesAtEnd, PublishedOK, Next,
         NEW w \in Workers, WorkerStep(w), P_Terminate(w),
         NEW name \in AllNames, name = BoxOf[loc[w].req], NEW inum, inum = InodeOf(loc[w].fd),
         NEW m \in Nat, m <= Len(published[name]), NEW ends \in [0..m -> 0..BLOCK_SIZE],
         Holds(name, inum, m, ends), Written(name, inum, m, ends)
  PROVE  /\ Grows(inum)
         /\ \A i \in 1..m : published'[name][i] = published[name][i]
         /\ \E n, e : /\ n \in 0..Len(published'[name]) /\ m <= n
                      /\ e \in [0..n -> 0..BLOCK_SIZE] /\ (\A i \in 0..m : e[i] = ends[i])
                      /\ Holds(name, inum, n, e)' /\ Written(name, inum, n, e)'
<1>0. /\ BInv /\ pc \in [Workers -> WorkerPCs]
      /\ published \in [AllNames -> Seq(Seq(Bytes \ {NUL}))]
  BY DEF SInv, BInv, WorkersOK, PublishedOK
<1>1. /\ pc[w] = "p_terminate" /\ UNCHANGED loc /\ loc[w].msg \in Seq(Bytes \ {NUL})
      /\ <<NUL>> \in Seq(Bytes)
  BY <1>0, NulWrite
<1>2. PICK msg \in Seq(Bytes \ {NUL}) : msg = loc[w].msg
  BY <1>1
<1>3. PICK ret : /\ tfs_write(loc[w].fd, <<NUL>>, ret)
                 /\ \/ /\ ret = -1 /\ published' = published
                       /\ pc' = [pc EXCEPT ![w] = "p_end"]
                    \/ /\ ret # -1 /\ pc' = [pc EXCEPT ![w] = "p_broadcast"]
                       /\ published' = [published EXCEPT ![boxes[loc[w].box].name] =
                                            Append(@, loc[w].msg)]
  BY <1>0, NulWrite
<1>4. pc[w] \in PubSession \ {"p_end"} /\ msg \in Seq(Bytes) /\ boxes[loc[w].box].name = name
  BY <1>1, <1>2 DEF PubSession, BoxesFirst, Sessions
<1>p. \/ ret = -1 /\ published'[name] = published[name]
      \/ ret # -1 /\ published'[name] = Append(published[name], msg)
  BY <1>0, <1>2, <1>3, <1>4
<1>l. PICK l \in Nat : l = Len(published[name])
  BY <1>0, LenProperties
<1>q. /\ m \in Nat /\ m <= l /\ Len(published'[name]) \in Nat
      /\ ret = -1 => Len(published'[name]) = l
      /\ ret # -1 => Len(published'[name]) = l + 1 /\ published'[name][l + 1] = msg
      /\ \A i \in 1..l : published'[name][i] = published[name][i] /\ Len(published[name][i]) \in Nat
  <2>1. published[name] \in Seq(Seq(Bytes \ {NUL})) /\ m <= l
    BY <1>0, <1>l
  <2>2. \A i \in 1..l : published[name][i] \in Seq(Bytes \ {NUL})
    BY <1>l, <2>1, ElementOfSeq
  <2>3. \A i \in 1..l : Len(published[name][i]) \in Nat
    BY <2>2, LenProperties
  <2>4. /\ Len(Append(published[name], msg)) = l + 1
        /\ Append(published[name], msg)[l + 1] = msg
        /\ \A i \in 1..l : Append(published[name], msg)[i] = published[name][i]
    BY <1>l, <2>1, AppendProperties
  <2>5. CASE ret = -1
    BY <1>l, <1>p, <2>1, <2>3, <2>5
  <2>6. CASE ret # -1
    <3>1. published'[name] = Append(published[name], msg)
      BY <1>p, <2>6
    <3>2. /\ Len(published'[name]) = l + 1 /\ published'[name][l + 1] = msg
          /\ \A i \in 1..l : published'[name][i] = published[name][i]
      BY <2>4, <3>1
    <3>3. l + 1 \in Nat
      OBVIOUS
    <3> QED BY <2>1, <2>3, <2>6, <3>2, <3>3
  <2> QED BY <2>5, <2>6
<1> DEFINE s == FileSize(inum)
           t == SizeNext(inum)
<1>n. Len(<<NUL>>) = 1 /\ <<NUL>> # <<>> /\ <<NUL>>[1] = NUL
  OBVIOUS
<1>5. /\ s \in 0..BLOCK_SIZE /\ t \in 0..BLOCK_SIZE /\ Grows(inum)
      /\ \/ ret = -1 /\ s = 0 /\ t = 0
         \/ ret = 0 /\ s = BLOCK_SIZE /\ t = BLOCK_SIZE
         \/ ret = 1 /\ t = s + 1 /\ ByteNext(inum, s + 1 - 1) = NUL
  <2>1. /\ s \in 0..BLOCK_SIZE /\ t \in 0..BLOCK_SIZE /\ Grows(inum)
        /\ \/ ret = -1 /\ s = 0 /\ t = 0 /\ <<NUL>> # <<>>
           \/ ret = 0 /\ <<NUL>> = <<>> /\ t = s
           \/ ret = 0 /\ <<NUL>> # <<>> /\ s = BLOCK_SIZE /\ t = BLOCK_SIZE
           \/ /\ ret \in 1..Len(<<NUL>>) /\ t = s + ret
              /\ \A j \in 1..ret : ByteNext(inum, s + j - 1) = <<NUL>>[j]
              /\ ret = Len(<<NUL>>) \/ t = BLOCK_SIZE
    <3>1. PICK data \in Seq(Bytes) : data = <<NUL>>
      BY <1>1
    <3>2. tfs_write(loc[w].fd, data, ret)
      BY <1>3, <3>1
    <3>3. /\ s \in 0..BLOCK_SIZE /\ t \in 0..BLOCK_SIZE /\ Grows(inum)
          /\ \/ ret = -1 /\ s = 0 /\ t = 0 /\ data # <<>>
             \/ ret = 0 /\ data = <<>> /\ t = s
             \/ ret = 0 /\ data # <<>> /\ s = BLOCK_SIZE /\ t = BLOCK_SIZE
             \/ /\ ret \in 1..Len(data) /\ t = s + ret
                /\ \A j \in 1..ret : ByteNext(inum, s + j - 1) = data[j]
                /\ ret = Len(data) \/ t = BLOCK_SIZE
      <4>1. pc[w] \in PubSession \ {"p_end"}
        BY <1>4
      <4> HIDE DEF s, t
      <4>2. /\ FileSize(inum) \in 0..BLOCK_SIZE /\ SizeNext(inum) \in 0..BLOCK_SIZE /\ Grows(inum)
            /\ \/ ret = -1 /\ FileSize(inum) = 0 /\ SizeNext(inum) = 0 /\ data # <<>>
               \/ ret = 0 /\ data = <<>> /\ SizeNext(inum) = FileSize(inum)
               \/ ret = 0 /\ data # <<>> /\ FileSize(inum) = BLOCK_SIZE /\ SizeNext(inum) = BLOCK_SIZE
               \/ /\ ret \in 1..Len(data) /\ SizeNext(inum) = FileSize(inum) + ret
                  /\ \A j \in 1..ret : ByteNext(inum, FileSize(inum) + j - 1) = data[j]
                  /\ ret = Len(data) \/ SizeNext(inum) = BLOCK_SIZE
        BY <3>2, <4>1, FileWrite
      <4> QED BY <4>2 DEF s, t
    <3> HIDE DEF s, t
    <3> QED BY <3>1, <3>3
  <2> HIDE DEF s, t
  <2>2. CASE /\ ret \in 1..Len(<<NUL>>) /\ t = s + ret
             /\ \A j \in 1..ret : ByteNext(inum, s + j - 1) = <<NUL>>[j]
    <3>1. ret = 1
      BY <1>n, <2>2
    <3>2. 1 \in 1..ret
      BY <3>1
    <3>3. ByteNext(inum, s + 1 - 1) = <<NUL>>[1]
      BY <2>2, <3>2
    <3> QED BY <1>n, <2>1, <2>2, <3>1, <3>3
  <2> QED BY <1>n, <2>1, <2>2
<1>6. BLOCK_SIZE \in Nat /\ BLOCK_SIZE # 0 /\ s \in Nat /\ t \in Nat /\ t >= s /\ Len(msg) \in Nat
  BY <1>2, <1>5, SizesAssumption DEF Grows
<1>7. /\ Writing(w, name)
      /\ \A u \in Workers : (Writing(u, name) => u = w) /\ ~(Writing(u, name)')
  <2>1. pc'[w] # "p_terminate"
    BY <1>0, <1>3
  <2> QED BY <1>1, <2>1, OnlyWriter DEF Writing
<1>8. \/ s = BLOCK_SIZE
      \/ /\ m = l /\ s = ends[m] + Len(msg)
         /\ \A j \in 1..Len(msg) : ByteAt(inum, ends[m] + j - 1) = msg[j]
  <2>1. CASE m = Len(published[name]) /\ s = ends[m]
             /\ \A u \in Workers : Writing(u, name) => loc[u].msg = <<>>
    <3>1. msg = <<>> /\ Len(<<>>) = 0
      BY <1>2, <1>7, <2>1
    <3>2. ends[m] \in Nat
      BY <1>6, <2>1
    <3> QED BY <1>l, <2>1, <3>1, <3>2
  <2>2. CASE m = Len(published[name]) /\ \E u \in Workers :
               /\ Writing(u, name) /\ s = ends[m] + Len(loc[u].msg)
               /\ \A j \in 1..Len(loc[u].msg) : ByteAt(inum, ends[m] + j - 1) = loc[u].msg[j]
    BY <1>2, <1>7, <1>l, <2>2
  <2> QED BY <2>1, <2>2 DEF Written
<1>9. FileSize(inum)' = t /\ \A u \in Workers : ~(Writing(u, name)')
  BY <1>7 DEF FileSize, SizeNext
<1>10. CASE (ret = -1 /\ s = 0 /\ t = 0) \/ (ret = 0 /\ s = BLOCK_SIZE /\ t = BLOCK_SIZE)
  <2>1. s = t
    BY <1>10
  <2>2. \A i \in 1..m : i \in 1..l
    BY <1>q
  <2>3. \A o \in s..t - 1 : ByteNext(inum, o) # NUL
    BY <1>6, <2>1
  <2>4. Holds(name, inum, m, ends)'
    BY <1>5, <1>6, <1>q, <2>2, <2>3, HoldsGrows
  <2>5. t = BLOCK_SIZE \/ (m = Len(published'[name]) /\ t = ends[m])
    <3>1. CASE ret = 0 /\ t = BLOCK_SIZE
      BY <3>1
    <3>2. CASE ret = -1 /\ s = 0 /\ t = 0
      <4>1. m = l /\ 0 = ends[m] + Len(msg)
        BY <1>6, <1>8, <3>2
      <4>2. ends[m] \in Nat
        BY <1>6, <1>q
      <4>3. ends[m] = 0
        BY <1>6, <4>1, <4>2
      <4> QED BY <1>q, <3>2, <4>1, <4>3
    <3> QED BY <1>10, <3>1, <3>2
  <2> HIDE DEF s, t
  <2>6. Written(name, inum, m, ends)'
    BY <1>9, <2>5 DEF Written
  <2>7. m \in 0..Len(published'[name])
    BY <1>q, <1>10
  <2>8. m <= m /\ ends \in [0..m -> 0..BLOCK_SIZE] /\ \A i \in 0..m : ends[i] = ends[i]
    BY <1>q
  <2> QED BY <1>5, <1>q, <2>2, <2>4, <2>6, <2>7, <2>8
<1>11. CASE ret = 1 /\ t = s + 1 /\ ByteNext(inum, s + 1 - 1) = NUL
  <2>1. /\ m = l /\ s = ends[m] + Len(msg) /\ t <= BLOCK_SIZE
        /\ \A j \in 1..Len(msg) : ByteAt(inum, ends[m] + j - 1) = msg[j]
    BY <1>5, <1>6, <1>8, <1>11
  <2>2. ByteNext(inum, s) = NUL
    <3>1. s + 1 - 1 = s
      BY <1>6
    <3> QED BY <1>11, <3>1
  <2>3. /\ \A i \in 1..m : published'[name][i] = published[name][i] /\ Len(published[name][i]) \in Nat
        /\ published'[name][m + 1] = msg /\ Len(published'[name]) = m + 1
    BY <1>11, <1>q, <2>1
  <2>4. PICK n, e : /\ n = m + 1 /\ e \in [0..n -> 0..BLOCK_SIZE]
                    /\ \A i \in 0..m : e[i] = ends[i]
                    /\ e[n] = t
                    /\ Holds(name, inum, n, e)'
    <3> HIDE DEF s, t
    <3>1. PICK n \in Nat : n = m + 1
      BY <1>q
    <3>2. PICK e : e = [i \in 0..n |-> IF i <= m THEN ends[i] ELSE ends[m] + Len(msg) + 1]
      OBVIOUS
    <3>3. ends[m] + Len(msg) + 1 \in 0..BLOCK_SIZE /\ ends[m] + Len(msg) + 1 = t
      BY <1>6, <1>11, <2>1
    <3>4. /\ e \in [0..n -> 0..BLOCK_SIZE] /\ (\A i \in 0..m : e[i] = ends[i])
          /\ e[n] = ends[m] + Len(msg) + 1
      <4>1. n \in 0..n /\ ~(n <= m) /\ (\A i \in 0..m : i \in 0..n /\ i <= m)
        BY <3>1
      <4>2. \A i \in 0..n : i <= m => i \in 0..m
        BY <3>1
      <4> QED BY <3>2, <3>3, <4>1, <4>2
    <3>5. PICK size \in Nat : size = s
      BY <1>6
    <3>6. PICK more \in 0..BLOCK_SIZE : more = t
      BY <1>5
    <3>7. /\ m \in Nat /\ msg \in Seq(Bytes) /\ Grows(inum)
          /\ FileSize(inum) = size /\ SizeNext(inum) = more
      BY <1>4, <1>5, <1>q, <3>5, <3>6 DEF s, t
    <3>8. size = ends[m] + Len(msg) /\ more = size + 1 /\ e[n] = more
      BY <1>11, <2>1, <3>3, <3>4, <3>5, <3>6
    <3>9. ByteNext(inum, size) = NUL /\ published'[name][n] = msg
      BY <2>2, <2>3, <3>1, <3>5
    <3>10. MessageAt(inum, ends[m], msg)
      BY <2>1 DEF MessageAt
    <3>11. Kept(name, m) /\ Continues(e, ends, m)
      BY <2>3, <3>4 DEF Kept, Continues
    <3>a. e \in [0..n -> 0..BLOCK_SIZE]
      BY <3>4
    <3>12. Holds(name, inum, n, e)'
      BY <3>1, <3>7, <3>8, <3>9, <3>10, <3>11, <3>a, HoldsExtended
    <3> QED BY <3>1, <3>4, <3>6, <3>8, <3>12
  <2>5. n \in 0..Len(published'[name]) /\ m <= n /\ n = Len(published'[name])
    BY <1>q, <2>3, <2>4
  <2> HIDE DEF s, t
  <2>6. Written(name, inum, n, e)'
    BY <1>9, <2>4, <2>5 DEF Written
  <2> QED BY <1>5, <2>3, <2>4, <2>5, <2>6
<1> QED BY <1>5, <1>10, <1>11

-----------------------------------------------------------------------------
(* Where the subscribers stand *)

\* a message that is sent is the next that the subscriber gets
LEMMA SendDelivers ==
  ASSUME BInv, SubscribersOK, NEW w \in Workers, S_Send(w), pc'[w] = "s_loop",
         NEW c, c = loc[w].req
  PROVE  Got(c)' = Append(Got(c), loc[w].msg)
<1>0. /\ c \in Subscribers /\ DOMAIN pipe = Clients /\ c \in Clients
      /\ loc[w].msg \in Seq(Symbols) /\ pc \in [Workers -> WorkerPCs]
  <2>1. Role(pc[w], loc[w]) /\ loc[w] \in Locals
    BY DEF BInv, WorkersOK
  <2> QED BY <2>1 DEF S_Send, Role, S_PCs, SubSession, Clients, BInv, PipesOK, WorkersOK, Locals
<1>1. received[c] \in Seq(Seq(Symbols)) /\ pipe[c] \in Seq(Seq(Symbols))
  BY <1>0 DEF SubscribersOK
<1>2. pipe' = [pipe EXCEPT ![c] = Append(@, loc[w].msg)] /\ UNCHANGED received
  BY <1>0 DEF S_Send, Goto
<1>3. pipe'[c] = Append(pipe[c], loc[w].msg) /\ received'[c] = received[c]
  BY <1>0, <1>2
<1>4. received[c] \o Append(pipe[c], loc[w].msg) = Append(received[c] \o pipe[c], loc[w].msg)
  <2>1. PICK r \in Seq(Seq(Symbols)), p \in Seq(Seq(Symbols)), msg \in Seq(Symbols) :
           r = received[c] /\ p = pipe[c] /\ msg = loc[w].msg
    BY <1>0, <1>1
  <2>2. r \o Append(p, msg) = Append(r \o p, msg)
    BY SequenceMoves
  <2> QED BY <2>1, <2>2
<1>5. Got(c)' = received'[c] \o pipe'[c] /\ Got(c) = received[c] \o pipe[c]
  BY DEF Got
<1> QED BY <1>3, <1>4, <1>5

\* otherwise a subscriber in a session keeps what it got
LEMMA GotKept ==
  ASSUME BInv, ReqsDistinct, SubscribersOK, Next, NEW u \in Workers, pc[u] \in SubSession,
         ~(pc[u] = "s_send" /\ pc'[u] = "s_loop"), NEW c, c = loc[u].req
  PROVE  Got(c)' = Got(c)
<1>1. c \in Subscribers
  BY DEF BInv, WorkersOK, Role, S_PCs
<1>2. ASSUME NEW v \in Workers, pc[v] = "s_send", pc'[v] = "s_loop", loc[v].req = c
      PROVE  FALSE
  <2>1. v # u /\ Busy(v) /\ Busy(u)
    BY <1>2 DEF Busy, SubSession
  <2> QED BY <1>2, <2>1 DEF ReqsDistinct
<1> QED BY <1>1, <1>2, GotMoves

\* the lengths that place a subscriber
LEMMA ReaderLengths ==
  ASSUME BInv, SubscribersOK, NEW u \in Workers, pc[u] \in SubSession, NEW c, c = loc[u].req
  PROVE  /\ c \in Subscribers /\ loc[u].msg \in Seq(Symbols)
         /\ Got(c) \in Seq(Seq(Symbols)) /\ Len(Got(c)) \in Nat /\ Len(loc[u].msg) \in Nat
<1>0. Role(pc[u], loc[u]) /\ loc[u] \in Locals
  BY DEF BInv, WorkersOK
<1>1. c \in Subscribers /\ loc[u].msg \in Seq(Symbols)
  BY <1>0 DEF Role, S_PCs, Locals
<1>2. received[c] \in Seq(Seq(Symbols)) /\ pipe[c] \in Seq(Seq(Symbols))
  BY <1>1 DEF SubscribersOK
<1>3. Got(c) \in Seq(Seq(Symbols))
  BY <1>2, SequenceMoves DEF Got
<1> QED BY <1>1, <1>3, LenProperties

(* Whoever moves, the subscribers of the other workers stay where they are in  *)
(* the file.                                                                   *)
LEMMA ReadersApart ==
  ASSUME SInv, HandlesOwned, ReqsDistinct, SubscribersOK, Next,
         NEW w \in Workers, WorkerStep(w) \/ S_SpuriousWakeup(w), NEW u \in Workers, u # w,
         NEW name, NEW inum, NEW m \in Nat, NEW ends \in [0..m -> 0..BLOCK_SIZE],
         NEW n \in Nat, NEW e \in [0..n -> 0..BLOCK_SIZE], m <= n, \A i \in 0..m : e[i] = ends[i],
         \A i \in 1..m : published'[name][i] = published[name][i],
         FileSize(inum) \in Nat, SizeNext(inum) \in Nat, Grows(inum),
         ReaderAt(u, name, inum, m, ends)
  PROVE  ReaderAt(u, name, inum, n, e)'
<1>0. BInv /\ u \in Workers \ {w}
  BY DEF SInv
<1>1. CASE pc'[u] \notin SubSession
  BY <1>1 DEF ReaderAt
<1>2. CASE pc'[u] \in SubSession
  <2>1. /\ loc'[u] = loc[u]
        /\ pc'[u] = pc[u] \/ (pc[u] = "s_asleep" /\ pc'[u] \in {"s_woken", "s_orphan"})
    BY <1>0, OthersMove
  <2>2. /\ pc[u] \in SubSession
        /\ pc'[u] \in Reading => pc[u] \in Reading
        /\ pc'[u] = "s_send" => pc[u] = "s_send"
        /\ ~(pc[u] = "s_send" /\ pc'[u] = "s_loop")
    BY <1>2, <2>1 DEF SubSession, Reading
  <2>3. PICK c : c = loc[u].req
    OBVIOUS
  <2>4. Len(Got(c)) \in Nat /\ Len(loc[u].msg) \in Nat
    BY <1>0, <2>2, <2>3, ReaderLengths
  <2>5. Got(c)' = Got(c)
    BY <1>0, <2>2, <2>3, GotKept
  <2>6. open_file_table'[loc[u].fd] = open_file_table[loc[u].fd]
    BY <1>0, <2>2, OtherHandles DEF FilePCs
  <2>7. open_file_table'[loc'[u].fd].of_offset = OffsetOf(loc[u].fd)
    BY <2>1, <2>6 DEF OffsetOf
  <2> QED BY <1>2, <2>1, <2>2, <2>3, <2>4, <2>5, <2>7, ReaderStays
<1> QED BY <1>1, <1>2

\* the same when no worker moves
LEMMA ReadersIdle ==
  ASSUME SInv, ReqsDistinct, SubscribersOK, Next,
         UNCHANGED <<pc, loc, published, inode_table, fs_data, open_file_table>>,
         NEW u \in Workers,
         NEW name, NEW inum, NEW m \in Nat, NEW ends \in [0..m -> 0..BLOCK_SIZE],
         FileSize(inum) \in Nat, ReaderAt(u, name, inum, m, ends)
  PROVE  ReaderAt(u, name, inum, m, ends)'
<1>0. BInv
  BY DEF SInv
<1>1. CASE pc'[u] \notin SubSession
  BY <1>1 DEF ReaderAt
<1>2. CASE pc'[u] \in SubSession
  <2>1. SizeNext(inum) \in Nat /\ Grows(inum)
    BY DEF SizeNext, FileSize, Grows, ByteNext, ByteAt
  <2>2. /\ pc[u] \in SubSession /\ pc'[u] = pc[u] /\ loc'[u] = loc[u]
        /\ ~(pc[u] = "s_send" /\ pc'[u] = "s_loop")
    BY <1>2
  <2>3. PICK c : c = loc[u].req
    OBVIOUS
  <2>4. Len(Got(c)) \in Nat /\ Len(loc[u].msg) \in Nat
    BY <1>0, <2>2, <2>3, ReaderLengths
  <2>5. Got(c)' = Got(c)
    BY <1>0, <2>2, <2>3, GotKept
  <2>6. open_file_table'[loc'[u].fd].of_offset = OffsetOf(loc[u].fd)
    BY <2>2 DEF OffsetOf
  <2>7. m <= m /\ (\A i \in 0..m : ends[i] = ends[i])
        /\ (\A i \in 1..m : published'[name][i] = published[name][i])
    OBVIOUS
  <2> QED BY <1>2, <2>1, <2>2, <2>3, <2>4, <2>5, <2>6, <2>7, ReaderStays
<1> QED BY <1>1, <1>2

\* msg is what stands in the file from start, and has no NUL
BytesFrom(inum, start, msg) ==
    \A j \in 1..Len(msg) : msg[j] = ByteAt(inum, start + j - 1) /\ msg[j] # NUL

\* no byte of the first m messages of a name is NUL
MessagesTyped(name, m) == \A i \in 1..m : published[name][i] \in Seq(Bytes \ {NUL})

\* msg is the message after the first k, and its NUL ends at offset
IsNext(name, m, ends, k, msg, offset) ==
    k < m /\ msg = published[name][k + 1] /\ offset = ends[k + 1]

(* A subscriber that reads a NUL has read the next message: what it has read   *)
(* since the last one is not longer, for no byte of a message is NUL, nor      *)
(* shorter, for a NUL follows each message.                                    *)
LEMMA NextMessage ==
  ASSUME NEW name, NEW inum, NEW m \in Nat, NEW ends \in [0..m -> 0..BLOCK_SIZE],
         Holds(name, inum, m, ends), FileSize(inum) \in Nat, MessagesTyped(name, m),
         NEW k \in 0..m, NEW msg \in Seq(Symbols), BytesFrom(inum, ends[k], msg),
         NEW o, o = ends[k] + Len(msg), o < FileSize(inum), ByteAt(inum, o) = NUL
  PROVE  IsNext(name, m, ends, k, msg, o + 1)
<1>1. PICK l \in Nat : l = Len(msg)
  BY LenProperties
<1>2. PICK a \in Nat : a = ends[k]
  BY SizesAssumption
<1>3. o = a + l /\ a \in Nat /\ o \in Nat
  BY <1>1, <1>2
<1>4. k < m
  <2> SUFFICES ASSUME ~(k < m) PROVE FALSE
    OBVIOUS
  <2>1. k = m
    OBVIOUS
  <2>2. o \in ends[m]..FileSize(inum) - 1
    BY <1>2, <1>3, <2>1
  <2> QED BY <2>2 DEF Holds
<1>5. PICK i \in 1..m : i = k + 1 /\ i - 1 = k
  BY <1>4
<1>6. PICK p \in Seq(Bytes \ {NUL}) : p = published[name][i]
  BY DEF MessagesTyped
<1>7. PICK n \in Nat : n = Len(p)
  BY LenProperties
<1>8. /\ ends[i] = a + n + 1
      /\ \A j \in 1..n : ByteAt(inum, a + j - 1) = p[j]
      /\ ByteAt(inum, a + n) = NUL
  <2>1. /\ ends[i] = ends[i - 1] + Len(published[name][i]) + 1
        /\ \A j \in 1..Len(published[name][i]) :
              ByteAt(inum, ends[i - 1] + j - 1) = published[name][i][j]
        /\ ByteAt(inum, ends[i] - 1) = NUL
    BY DEF Holds
  <2>2. ends[i - 1] = a
    BY <1>2, <1>5
  <2>3. ends[i] = a + n + 1
    BY <1>6, <1>7, <2>1, <2>2
  <2>4. ends[i] - 1 = a + n
    BY <2>3
  <2> QED BY <1>6, <1>7, <2>1, <2>2, <2>3, <2>4
<1>9. \A j \in 1..n : p[j] # NUL
  <2>1. \A j \in 1..n : p[j] \in Bytes \ {NUL}
    BY <1>7, ElementOfSeq
  <2> QED BY <2>1
<1>10. \A j \in 1..l : msg[j] = ByteAt(inum, a + j - 1) /\ msg[j] # NUL
  BY <1>1, <1>2 DEF BytesFrom
<1>11. ~(n < l)
  <2> SUFFICES ASSUME n < l PROVE FALSE
    OBVIOUS
  <2>1. PICK j : j = n + 1
    OBVIOUS
  <2>2. j \in 1..l /\ a + j - 1 = a + n
    BY <2>1
  <2>3. msg[j] = ByteAt(inum, a + n) /\ msg[j] # NUL
    BY <1>10, <2>2
  <2> QED BY <1>8, <2>3
<1>12. ~(l < n)
  <2> SUFFICES ASSUME l < n PROVE FALSE
    OBVIOUS
  <2>1. PICK j : j = l + 1
    OBVIOUS
  <2>2. j \in 1..n /\ a + j - 1 = a + l
    BY <2>1
  <2>3. ByteAt(inum, a + l) = p[j] /\ p[j] # NUL
    BY <1>8, <1>9, <2>2
  <2> QED BY <1>3, <2>3
<1>13. l = n
  BY <1>11, <1>12
<1>14. msg = p
  <2>1. \A j \in 1..n : msg[j] = p[j]
    BY <1>8, <1>10, <1>13
  <2>2. msg \in [1..n -> Symbols] /\ p \in [1..n -> Bytes \ {NUL}]
    BY <1>1, <1>7, <1>13, LenProperties
  <2> QED BY <2>1, <2>2
<1>15. o + 1 = ends[i]
  BY <1>3, <1>8, <1>13
<1> QED BY <1>4, <1>5, <1>6, <1>14, <1>15 DEF IsNext

-----------------------------------------------------------------------------
(* Where a subscriber reads *)

\* after a step msg is what stands in the file between start and offset
ReadNext(inum, start, msg, offset) ==
    /\ offset = start + Len(msg) /\ offset <= SizeNext(inum)
    /\ \A j \in 1..Len(msg) : msg[j] = ByteNext(inum, start + j - 1) /\ msg[j] # NUL

\* where a subscriber stands after a step
LEMMA ReaderNow ==
  ASSUME NEW u \in Workers, NEW name, NEW inum, NEW m \in Nat, NEW ends \in [0..m -> 0..BLOCK_SIZE],
         NEW c, loc'[u].req = c, NEW k, Len(Got(c)') = k, k <= m,
         NEW offset, open_file_table'[loc'[u].fd].of_offset = offset,
         NEW msg, loc'[u].msg = msg,
         pc'[u] \in Reading => ReadNext(inum, ends[k], msg, offset),
         pc'[u] = "s_send" => k < m /\ msg = published'[name][k + 1] /\ offset = ends[k + 1]
  PROVE  ReaderAt(u, name, inum, m, ends)'
<1>1. Got(loc[u].req)' = Got(c)'
  BY DEF Got
<1>2. pc'[u] \in Reading => /\ offset = ends[k] + Len(msg) /\ offset <= SizeNext(inum)
                            /\ \A j \in 1..Len(msg) : /\ msg[j] = ByteNext(inum, ends[k] + j - 1)
                                                      /\ msg[j] # NUL
  BY DEF ReadNext
<1> QED BY <1>1, <1>2 DEF ReaderAt, OffsetOf, ByteAt, ByteNext, FileSize, SizeNext

(* A subscriber that registers starts at the first message.                    *)
LEMMA ReaderRegisters ==
  ASSUME SInv, SubscribersOK, NEW w \in Workers, S_Register(w), pc'[w] \in SubSession,
         NEW name, NEW inum, NEW m \in Nat, NEW ends \in [0..m -> 0..BLOCK_SIZE],
         Holds(name, inum, m, ends), SizeNext(inum) \in Nat
  PROVE  ReaderAt(w, name, inum, m, ends)'
<1>0. BInv
  BY DEF SInv
<1>1. /\ loc'[w].req = loc[w].req /\ loc'[w].msg = loc[w].msg
      /\ pc'[w] = "s_loop" /\ open_file_table'[loc'[w].fd].of_offset = 0
  BY <1>0, RegisterOpens
<1>2. PICK c : c = loc[w].req
  OBVIOUS
<1>3. Got(c) = <<>> /\ loc[w].msg = <<>>
  BY <1>2 DEF SubscribersOK, S_Register
<1>4. pipe' = pipe /\ received' = received
  BY <1>0, <1>1 DEF S_Register, ClosePipeAndReturn, BInv, WorkersOK
<1>5. Got(c)' = <<>>
  BY <1>3, <1>4 DEF Got
<1>6. ends[0] = 0 /\ 0 <= m
  BY DEF Holds
<1>7. PICK msg : msg = loc[w].msg /\ Len(msg) = 0
  <2>1. Len(loc[w].msg) = 0
    BY <1>3
  <2> QED BY <2>1
<1>8. PICK k : k = Len(Got(c)') /\ k = 0
  BY <1>5
<1>9. PICK offset : offset = open_file_table'[loc'[w].fd].of_offset /\ offset = 0
  BY <1>1
<1>10. \A j \in 1..Len(msg) : msg[j] = ByteNext(inum, ends[k] + j - 1) /\ msg[j] # NUL
  <2>1. 1..Len(msg) = {}
    BY <1>7
  <2> QED BY <2>1
<1>11. /\ offset = ends[k] + Len(msg) /\ offset <= SizeNext(inum)
       /\ k <= m
  BY <1>6, <1>7, <1>8, <1>9
<1>12. /\ loc'[w].req = c /\ loc'[w].msg = msg /\ pc'[w] # "s_send"
       /\ Len(Got(c)') = k /\ open_file_table'[loc'[w].fd].of_offset = offset
  BY <1>1, <1>2, <1>7, <1>8, <1>9
<1>13. ReadNext(inum, ends[k], msg, offset)
  BY <1>10, <1>11 DEF ReadNext
<1> QED BY <1>11, <1>12, <1>13, ReaderNow

\* where a subscriber reads
LEMMA ReaderBefore ==
  ASSUME SInv, Deleters = {}, HandlesOwned, HandlesNamed, SubscribersOK, NEW w \in Workers,
         pc[w] \in Reading \cup {"s_send"}, NEW name, NEW inum, Named(name, inum), NEW m \in Nat,
         NEW ends \in [0..m -> 0..BLOCK_SIZE], ReaderAt(w, name, inum, m, ends),
         BoxOf[loc[w].req] = name,
         NEW c, c = loc[w].req, NEW k, k = Len(Got(c)), NEW msg, msg = loc[w].msg,
         NEW o, o = OffsetOf(loc[w].fd)
  PROVE  /\ c \in Subscribers /\ k \in 0..m /\ msg \in Seq(Symbols) /\ o \in Nat
         /\ InodeOf(loc[w].fd) = inum /\ IsOpenHandle(loc[w].fd) /\ loc[w].fd \in Handles
         /\ FileSize(inum) \in Nat
         /\ pc[w] \in Reading =>
               /\ o = ends[k] + Len(msg) /\ o <= FileSize(inum)
               /\ BytesFrom(inum, ends[k], msg)
         /\ pc[w] = "s_send" => k < m /\ msg = published[name][k + 1] /\ o = ends[k + 1]
<1>0. BInv /\ FsInv /\ TablesTyped /\ pc[w] \in SubSession
  BY DEF SInv, BInv, FsInv, Reading, SubSession
<1>1. c \in Subscribers /\ msg \in Seq(Symbols) /\ Len(Got(c)) \in Nat
  BY <1>0, ReaderLengths
<1>2. Named(name, InodeOf(loc[w].fd))
  BY <1>0 DEF HandlesNamed
<1>3. InodeOf(loc[w].fd) = inum /\ inum \in Inodes
  BY <1>0, <1>2, NamedOnce
<1>4. IsOpenHandle(loc[w].fd) /\ loc[w].fd \in Handles
  BY <1>0 DEF HandlesOwned, FilePCs, IsOpenHandle
<1>5. o \in Nat /\ FileSize(inum) \in Nat
  BY <1>0, <1>3, <1>4 DEF TablesTyped, OffsetOf, FileSize
<1>6. /\ k <= m
      /\ pc[w] \in Reading =>
               /\ o = ends[k] + Len(msg) /\ o <= FileSize(inum)
               /\ BytesFrom(inum, ends[k], msg)
      /\ pc[w] = "s_send" => k < m /\ msg = published[name][k + 1] /\ o = ends[k + 1]
  BY <1>0 DEF ReaderAt, BytesFrom
<1>7. k \in 0..m
  BY <1>1, <1>6
<1> QED BY <1>1, <1>3, <1>4, <1>5, <1>6, <1>7

\* a message with one more byte
LEMMA OneMoreByte ==
  ASSUME NEW msg \in Seq(Symbols), NEW byte \in Symbols, NEW inum, NEW a \in Nat,
         BytesFrom(inum, a, msg),
         NEW o, o = a + Len(msg), byte = ByteAt(inum, o), byte # NUL,
         NEW more, more = Append(msg, byte)
  PROVE  o + 1 = a + Len(more) /\ BytesFrom(inum, a, more)
<1>1. PICK l \in Nat : l = Len(msg)
  BY LenProperties
<1>2. /\ Len(more) = l + 1
      /\ \A j \in 1..l : more[j] = msg[j]
      /\ more[l + 1] = byte
  BY <1>1, AppendProperties
<1>3. ASSUME NEW j \in 1..l + 1
      PROVE  more[j] = ByteAt(inum, a + j - 1) /\ more[j] # NUL
  <2>1. CASE j \in 1..l
    BY <1>1, <1>2, <2>1 DEF BytesFrom
  <2>2. CASE j = l + 1
    <3>1. a + j - 1 = o
      BY <1>1, <2>2
    <3> QED BY <1>2, <2>2, <3>1
  <2>3. j \in 1..l \/ j = l + 1
    BY <1>1
  <2> QED BY <2>1, <2>2, <2>3
<1>4. o + 1 = a + (l + 1)
  BY <1>1
<1> QED BY <1>2, <1>3, <1>4 DEF BytesFrom

-----------------------------------------------------------------------------
(* A read and a send *)

(* A subscriber that reads a byte reads the next one of the next message, and  *)
(* sends the message when that byte is its NUL.                                *)
LEMMA ReaderReads ==
  ASSUME SInv, Deleters = {}, HandlesOwned, HandlesNamed, SubscribersOK, ReqsDistinct, Next,
         NEW w \in Workers, S_Read(w), WorkerStep(w), pc'[w] \in SubSession,
         NEW name, NEW inum, Named(name, inum), NEW m \in Nat, NEW ends \in [0..m -> 0..BLOCK_SIZE],
         Holds(name, inum, m, ends), ReaderAt(w, name, inum, m, ends), BoxOf[loc[w].req] = name,
         MessagesTyped(name, m)
  PROVE  ReaderAt(w, name, inum, m, ends)'
<1>0. BInv /\ FsInv /\ loc \in [Workers -> Locals] /\ pc \in [Workers -> WorkerPCs]
  BY DEF SInv, BInv, WorkersOK
<1>1. /\ pc[w] = "s_read" /\ pc[w] \in Reading /\ pc[w] \in Reading \cup {"s_send"}
      /\ pc[w] \in SubSession /\ pc[w] # "s_send" /\ published' = published
  BY DEF S_Read, Reading, SubSession
<1>2. PICK c, k, msg, o : c = loc[w].req /\ k = Len(Got(c)) /\ msg = loc[w].msg /\ o = OffsetOf(loc[w].fd)
  OBVIOUS
<1>3. /\ c \in Subscribers /\ k \in 0..m /\ msg \in Seq(Symbols) /\ o \in Nat
      /\ InodeOf(loc[w].fd) = inum /\ IsOpenHandle(loc[w].fd) /\ loc[w].fd \in Handles
      /\ FileSize(inum) \in Nat
      /\ o = ends[k] + Len(msg) /\ o <= FileSize(inum)
      /\ BytesFrom(inum, ends[k], msg)
  <2>1. pc[w] \in Reading => BytesFrom(inum, ends[k], msg)
    BY <1>1, <1>2, ReaderBefore
  <2>2. pc[w] \in Reading => o = ends[k] + Len(msg) /\ o <= FileSize(inum)
    BY <1>1, <1>2, ReaderBefore
  <2>3. /\ c \in Subscribers /\ k \in 0..m /\ msg \in Seq(Symbols) /\ o \in Nat
        /\ InodeOf(loc[w].fd) = inum /\ IsOpenHandle(loc[w].fd) /\ loc[w].fd \in Handles
        /\ FileSize(inum) \in Nat
    BY <1>1, <1>2, ReaderBefore
  <2> QED BY <1>1, <2>1, <2>2, <2>3
<1>4. Got(c)' = Got(c)
  BY <1>0, <1>1, <1>2, GotKept
<1>5. Len(Got(c)') = k /\ k <= m
  BY <1>2, <1>3, <1>4
<1>6. PICK ret \in -1..1, byte \in Bytes \cup {Junk, "none"} :
         /\ tfs_read(loc[w].fd, 1, ret, IF byte = "none" THEN <<>> ELSE <<byte>>)
         /\ \/ /\ ret # 1
               /\ Goto(w, "s_end")
               /\ UNCHANGED loc
            \/ /\ ret = 1 /\ byte # NUL
               /\ Goto(w, "s_read")
               /\ loc' = [loc EXCEPT ![w].msg = Append(loc[w].msg, byte)]
            \/ /\ ret = 1 /\ byte = NUL
               /\ boxes[loc[w].box].alloc_state = "NOT_USED"
               /\ Goto(w, "s_end")
               /\ UNCHANGED loc
            \/ /\ ret = 1 /\ byte = NUL
               /\ boxes[loc[w].box].alloc_state = "USED"
               /\ Goto(w, "s_send")
               /\ loc' = [loc EXCEPT ![w].total_read = @ + Len(Append(loc[w].msg, byte))]
  BY DEF S_Read
<1>7. inode_table' = inode_table /\ fs_data' = fs_data
  BY <1>0, <1>6, ReadKeeps
<1>8. SizeNext(inum) = FileSize(inum) /\ \A i : ByteNext(inum, i) = ByteAt(inum, i)
  BY <1>7 DEF SizeNext, FileSize, ByteNext, ByteAt
<1>9. ret = 1 =>
        /\ o < FileSize(inum) /\ byte = ByteAt(inum, o)
        /\ open_file_table'[loc[w].fd].of_offset = o + 1
  <2> SUFFICES ASSUME ret = 1
               PROVE  /\ o < FileSize(inum) /\ byte = ByteAt(inum, o)
                      /\ open_file_table'[loc[w].fd].of_offset = o + 1
    OBVIOUS
  <2>1. OffsetOf(loc[w].fd) <= FileSize(InodeOf(loc[w].fd))
    BY <1>2, <1>3
  <2>2. /\ OffsetOf(loc[w].fd) < FileSize(InodeOf(loc[w].fd))
        /\ (IF byte = "none" THEN <<>> ELSE <<byte>>) = <<ByteAt(InodeOf(loc[w].fd), OffsetOf(loc[w].fd))>>
        /\ open_file_table'[loc[w].fd].of_offset = OffsetOf(loc[w].fd) + 1
    BY <1>0, <1>3, <1>6, <2>1, ReadByte
  <2>3. byte = ByteAt(inum, o)
    BY <1>2, <1>3, <2>2
  <2> QED BY <1>2, <1>3, <2>2, <2>3
<1>10. PICK a \in Nat : a = ends[k]
  BY <1>3, SizesAssumption
<1>11. CASE pc'[w] = "s_end" /\ UNCHANGED loc
  <2>1. PICK offset : offset = open_file_table'[loc'[w].fd].of_offset
    OBVIOUS
  <2>2. /\ loc'[w].req = c /\ loc'[w].msg = msg /\ pc'[w] \notin Reading /\ pc'[w] # "s_send"
    BY <1>2, <1>11 DEF Reading
  <2> QED BY <1>5, <2>1, <2>2, ReaderNow
<1>12. CASE /\ ret = 1 /\ byte # NUL /\ pc'[w] = "s_read"
            /\ loc' = [loc EXCEPT ![w].msg = Append(loc[w].msg, byte)]
  <2>1. byte \in Symbols
    BY DEF Symbols
  <2>2. PICK more : more = Append(msg, byte)
    OBVIOUS
  <2>3. loc' = [loc EXCEPT ![w].msg = more]
    BY <1>2, <1>12, <2>2
  <2>4. loc'[w].req = c /\ loc'[w].fd = loc[w].fd /\ loc'[w].msg = more
    BY <1>0, <1>2, <2>3, AfterMsg
  <2>5. PICK offset : offset = o + 1
    OBVIOUS
  <2>6. open_file_table'[loc'[w].fd].of_offset = offset /\ offset \in Nat /\ offset <= FileSize(inum)
    BY <1>3, <1>9, <1>12, <2>4, <2>5
  <2>7. BytesFrom(inum, a, msg)
    BY <1>3, <1>10
  <2>8. o = a + Len(msg) /\ byte = ByteAt(inum, o) /\ byte # NUL
    BY <1>3, <1>9, <1>10, <1>12
  <2>9. o + 1 = a + Len(more) /\ BytesFrom(inum, a, more)
    <3>1. msg \in Seq(Symbols)
      BY <1>3
    <3>2. BytesFrom(inum, a, more)
      BY <2>1, <2>2, <2>7, <2>8, <3>1, OneMoreByte
    <3>3. o + 1 = a + Len(more)
      BY <2>1, <2>2, <2>7, <2>8, <3>1, OneMoreByte
    <3> QED BY <3>2, <3>3
  <2>10. ReadNext(inum, a, more, offset)
    BY <1>8, <2>5, <2>6, <2>9 DEF ReadNext, BytesFrom
  <2>11. ReadNext(inum, ends[k], more, offset) /\ pc'[w] # "s_send"
    BY <1>10, <1>12, <2>10
  <2> QED BY <1>5, <2>4, <2>6, <2>11, ReaderNow
<1>13. CASE /\ ret = 1 /\ byte = NUL /\ pc'[w] = "s_send"
            /\ loc' = [loc EXCEPT ![w].total_read = @ + Len(Append(loc[w].msg, byte))]
  <2>1. loc'[w].req = c /\ loc'[w].fd = loc[w].fd /\ loc'[w].msg = msg
    BY <1>0, <1>2, <1>13, AfterTotalRead
  <2>2. k < m /\ msg = published[name][k + 1] /\ o + 1 = ends[k + 1]
    <3>1. /\ k \in 0..m /\ msg \in Seq(Symbols) /\ FileSize(inum) \in Nat /\ BytesFrom(inum, ends[k], msg)
          /\ o = ends[k] + Len(msg) /\ o < FileSize(inum) /\ ByteAt(inum, o) = NUL
      BY <1>3, <1>9, <1>13
    <3>2. IsNext(name, m, ends, k, msg, o + 1)
      BY <3>1, NextMessage
    <3> QED BY <3>2 DEF IsNext
  <2>3. PICK offset : offset = o + 1
    OBVIOUS
  <2>4. open_file_table'[loc'[w].fd].of_offset = offset
    BY <1>9, <1>13, <2>1, <2>3
  <2>5. k < m /\ msg = published'[name][k + 1] /\ offset = ends[k + 1] /\ pc'[w] \notin Reading
    BY <1>1, <1>13, <2>2, <2>3 DEF Reading
  <2> QED BY <1>5, <2>1, <2>4, <2>5, ReaderNow
<1>14. \A to : Goto(w, to) => pc'[w] = to
  BY <1>0 DEF Goto
<1> QED BY <1>6, <1>11, <1>12, <1>13, <1>14

(* A subscriber that has sent a message stands at the end of it.               *)
LEMMA ReaderSends ==
  ASSUME SInv, Deleters = {}, HandlesOwned, HandlesNamed, SubscribersOK, ReqsDistinct, Next,
         NEW w \in Workers, S_Send(w), WorkerStep(w),
         NEW name, NEW inum, Named(name, inum), NEW m \in Nat, NEW ends \in [0..m -> 0..BLOCK_SIZE],
         Holds(name, inum, m, ends), ReaderAt(w, name, inum, m, ends), BoxOf[loc[w].req] = name
  PROVE  ReaderAt(w, name, inum, m, ends)'
<1>0. BInv /\ FsInv /\ loc \in [Workers -> Locals] /\ pc \in [Workers -> WorkerPCs]
  BY DEF SInv, BInv, WorkersOK
<1>1. /\ pc[w] = "s_send" /\ pc[w] \in Reading \cup {"s_send"} /\ pc[w] \in SubSession
      /\ pc[w] \notin Reading /\ published' = published
      /\ inode_table' = inode_table /\ fs_data' = fs_data /\ open_file_table' = open_file_table
  BY DEF S_Send, Reading, SubSession, fs
<1>2. PICK c, k, msg, o : c = loc[w].req /\ k = Len(Got(c)) /\ msg = loc[w].msg /\ o = OffsetOf(loc[w].fd)
  OBVIOUS
<1>3. /\ c \in Subscribers /\ k \in 0..m /\ msg \in Seq(Symbols) /\ o \in Nat
      /\ FileSize(inum) \in Nat
      /\ k < m /\ msg = published[name][k + 1] /\ o = ends[k + 1]
  BY <1>1, <1>2, ReaderBefore
<1>4. CASE pc'[w] = "s_loop" /\ loc' = [loc EXCEPT ![w].msg = <<>>]
  <2>1. PICK none : none = <<>> /\ Len(none) = 0
    <3>1. Len(<<>>) = 0
      OBVIOUS
    <3> QED BY <3>1
  <2>2. loc'[w].req = c /\ loc'[w].fd = loc[w].fd /\ loc'[w].msg = none
    BY <1>0, <1>2, <1>4, <2>1, AfterMsg
  <2>3. Got(c)' = Append(Got(c), msg) /\ Got(c) \in Seq(Seq(Symbols))
    BY <1>0, <1>1, <1>2, <1>4, SendDelivers, ReaderLengths
  <2>4. PICK n : n = k + 1
    OBVIOUS
  <2>5. Len(Got(c)') = n
    BY <1>2, <1>3, <2>3, <2>4, AppendProperties
  <2>6. n \in 0..m /\ n <= m /\ m \in 0..m
    BY <1>3, <2>4
  <2>7. ends[n] = o /\ ends[n] <= ends[m] /\ ends[m] <= FileSize(inum)
    BY <1>3, <2>4, <2>6 DEF Holds
  <2>8. PICK z \in Nat : z = ends[m]
    BY <2>6, SizesAssumption
  <2>9. o <= SizeNext(inum)
    <3>1. SizeNext(inum) = FileSize(inum)
      BY <1>1 DEF SizeNext, FileSize
    <3> QED BY <1>3, <2>7, <2>8, <3>1
  <2>10. 1..Len(none) = {}
    BY <2>1
  <2>11. o = ends[n] + Len(none)
    BY <1>3, <2>1, <2>7
  <2>12. ReadNext(inum, ends[n], none, o)
    BY <2>9, <2>10, <2>11 DEF ReadNext
  <2>13. open_file_table'[loc'[w].fd].of_offset = o /\ pc'[w] # "s_send"
    BY <1>1, <1>2, <1>4, <2>2 DEF OffsetOf
  <2> QED BY <2>2, <2>5, <2>6, <2>12, <2>13, ReaderNow
<1>5. CASE pc'[w] = "s_signal" /\ UNCHANGED loc
  <2>1. Got(c)' = Got(c)
    BY <1>0, <1>1, <1>2, <1>5, GotKept
  <2>2. Len(Got(c)') = k /\ k <= m
    BY <1>2, <1>3, <2>1
  <2>3. /\ loc'[w].req = c /\ loc'[w].msg = msg /\ pc'[w] \notin Reading /\ pc'[w] # "s_send"
        /\ open_file_table'[loc'[w].fd].of_offset = o
    BY <1>1, <1>2, <1>5 DEF Reading, OffsetOf
  <2> QED BY <2>2, <2>3, ReaderNow
<1> QED BY <1>0, <1>4, <1>5 DEF S_Send, Goto

-----------------------------------------------------------------------------
(* The steps of a session *)

\* the steps after which a worker is in the session of a subscriber
LEMMA SubscriberMoves ==
  ASSUME BInv, NEW w \in Workers, WorkerStep(w) \/ S_SpuriousWakeup(w), pc'[w] \in SubSession,
         ~S_Register(w), ~S_Read(w), ~S_Send(w)
  PROVE  /\ pc[w] \in SubSession /\ UNCHANGED <<loc, open_file_table>>
         /\ pc'[w] \in Reading => pc[w] \in Reading
         /\ pc'[w] = "s_send" => pc[w] = "s_send"
         /\ ~(pc[w] = "s_send" /\ pc'[w] = "s_loop")
<1>0. pc \in [Workers -> WorkerPCs]
  BY DEF BInv, WorkersOK
<1>1. CASE KilledBySigpipe(w)
  BY <1>1 DEF KilledBySigpipe, Dies
<1>2. CASE RequestsHandler(w)
  <2>1. Head(requests_queue) \in Clients
    BY <1>2 DEF BInv, RequestsOK, RequestsHandler
  <2> QED BY <1>0, <1>2, <2>1, HandlerKind DEF RequestsHandler, SubSession
<1>3. CASE S_Loop(w) \/ S_Reacquire(w) \/ S_Signal(w) \/ S_SpuriousWakeup(w)
  BY <1>0, <1>3 DEF S_Loop, S_Reacquire, S_Signal, S_SpuriousWakeup, Goto, fs, SubSession, Reading
<1>4. CASE S_GetBox(w) \/ S_End(w) \/ PublisherStep(w) \/ ManagerStep(w)
  BY <1>0, <1>4 DEF PublisherStep, ManagerStep, P_GetBox, GetBox, P_Register, P_Read, P_Write,
        P_Terminate, P_Broadcast, P_End, P_Close, S_GetBox, S_End, C_GetBox, C_TfsOpen,
        C_TfsClose, C_Slot, C_Used, D_GetBox, D_Unlink, D_Broadcast, M_Load, M_Store, M_Send, L_Scan,
        L_Send, Goto, Respond, ClosePipeAndReturn, Broadcast, SubSession
<1> QED BY <1>1, <1>2, <1>3, <1>4 DEF WorkerStep, SubscriberStep

(* Whatever its worker does, a subscriber stands where its messages end or in  *)
(* the next one.                                                               *)
LEMMA ReaderOwn ==
  ASSUME SInv, Deleters = {}, HandlesOwned, BoxesFirst, HandlesNamed, SubscribersOK, ReqsDistinct,
         PublishedOK, Next,
         NEW w \in Workers, WorkerStep(w) \/ S_SpuriousWakeup(w), ~P_Write(w), ~P_Terminate(w),
         NEW name, NEW inum, Named(name, inum), NEW m \in Nat, NEW ends \in [0..m -> 0..BLOCK_SIZE],
         Holds(name, inum, m, ends), ReaderAt(w, name, inum, m, ends), MessagesTyped(name, m)
  PROVE  ReaderAt(w, name, inum, m, ends)'
<1>0. BInv /\ FsInv /\ TablesTyped
  BY DEF SInv, BInv, FsInv
<1>1. /\ published' = published /\ SizeNext(inum) = FileSize(inum) /\ FileSize(inum) \in Nat /\ Grows(inum)
  <2>1. inode_table'[inum] = inode_table[inum] /\ fs_data' = fs_data
    BY <1>0, FilesSame
  <2>2. inum \in Inodes
    BY <1>0, NamedOnce
  <2>3. FileSize(inum) \in Nat
    BY <1>0, <2>2 DEF TablesTyped, FileSize
  <2> QED BY <2>1, <2>3, PublishedKept DEF Grows, SizeNext, FileSize, ByteNext, ByteAt
<1> SUFFICES ASSUME pc'[w] \in SubSession, BoxOf[loc'[w].req] = name
             PROVE  ReaderAt(w, name, inum, m, ends)'
  BY DEF ReaderAt
<1>2. CASE S_Register(w)
  BY <1>1, <1>2, ReaderRegisters
<1>3. CASE S_Read(w)
  <2>1. loc'[w].req = loc[w].req
    BY <1>0, <1>3, ReqKept DEF S_Read, RequestsHandler, SubSession
  <2>2. WorkerStep(w)
    BY <1>3 DEF S_Read, S_SpuriousWakeup
  <2> QED BY <1>3, <2>1, <2>2, ReaderReads
<1>4. CASE S_Send(w)
  <2>1. loc'[w].req = loc[w].req
    BY <1>0, <1>4, ReqKept DEF S_Send, RequestsHandler, SubSession
  <2>2. WorkerStep(w)
    BY <1>4 DEF S_Send, S_SpuriousWakeup
  <2> QED BY <1>4, <2>1, <2>2, ReaderSends
<1>5. CASE ~S_Register(w) /\ ~S_Read(w) /\ ~S_Send(w)
  <2>1. /\ pc[w] \in SubSession /\ loc' = loc /\ open_file_table' = open_file_table
        /\ pc'[w] \in Reading => pc[w] \in Reading
        /\ pc'[w] = "s_send" => pc[w] = "s_send"
        /\ ~(pc[w] = "s_send" /\ pc'[w] = "s_loop")
    BY <1>0, <1>5, SubscriberMoves
  <2>2. PICK c : c = loc[w].req
    OBVIOUS
  <2>3. Len(Got(c)) \in Nat /\ Len(loc[w].msg) \in Nat
    BY <1>0, <2>1, <2>2, ReaderLengths
  <2>4. Got(c)' = Got(c)
    BY <1>0, <2>1, <2>2, GotKept
  <2>5. open_file_table'[loc'[w].fd].of_offset = OffsetOf(loc[w].fd)
    BY <2>1 DEF OffsetOf
  <2>6. m <= m /\ (\A i \in 0..m : ends[i] = ends[i])
        /\ (\A i \in 1..m : published'[name][i] = published[name][i])
    BY <1>1
  <2>7. SizeNext(inum) \in Nat
    BY <1>1
  <2> QED BY <1>1, <2>1, <2>2, <2>3, <2>4, <2>5, <2>6, <2>7, ReaderStays
<1> QED BY <1>2, <1>3, <1>4, <1>5

-----------------------------------------------------------------------------
(* A file nobody writes to *)

(* A file that keeps its bytes holds what it held, while nobody writes under   *)
(* its name.                                                                   *)
LEMMA ContentKept ==
  ASSUME BInv, NEW name, NEW inum, NEW m \in Nat, NEW ends \in [0..m -> 0..BLOCK_SIZE],
         Holds(name, inum, m, ends), Written(name, inum, m, ends), MessagesTyped(name, m),
         FileSize(inum) \in Nat, SizeNext(inum) = FileSize(inum), Grows(inum),
         published'[name] = published[name],
         \A u \in Workers : /\ Writing(u, name)' <=> Writing(u, name)
                            /\ Writing(u, name) => loc'[u].msg = loc[u].msg
  PROVE  Holds(name, inum, m, ends)' /\ Written(name, inum, m, ends)'
<1>1. Holds(name, inum, m, ends)'
  <2>1. \A i \in 1..m : published'[name][i] = published[name][i] /\ Len(published[name][i]) \in Nat
    <3>1. ASSUME NEW i \in 1..m PROVE Len(published[name][i]) \in Nat
      <4>1. PICK msg \in Seq(Bytes \ {NUL}) : msg = published[name][i]
        BY DEF MessagesTyped
      <4> QED BY <4>1, LenProperties
    <3> QED BY <3>1
  <2>2. FileSize(inum)..SizeNext(inum) - 1 = {} /\ SizeNext(inum) \in Nat
    OBVIOUS
  <2>3. \A o \in FileSize(inum)..SizeNext(inum) - 1 : ByteNext(inum, o) # NUL
    BY <2>2
  <2> QED BY <2>1, <2>2, <2>3, HoldsGrows
<1>s. FileSize(inum)' = FileSize(inum)
  BY DEF SizeNext, FileSize
<1>2. CASE FileSize(inum) = BLOCK_SIZE
  BY <1>1, <1>s, <1>2 DEF Written
<1>3. CASE /\ m = Len(published[name]) /\ FileSize(inum) = ends[m]
           /\ \A w \in Workers : Writing(w, name) => loc[w].msg = <<>>
  <2>1. m = Len(published'[name]) /\ FileSize(inum)' = ends[m]
    BY <1>s, <1>3
  <2>2. \A w \in Workers : Writing(w, name)' => loc'[w].msg = <<>>
    <3> SUFFICES ASSUME NEW u \in Workers, Writing(u, name)' PROVE loc'[u].msg = <<>>
      OBVIOUS
    <3>1. Writing(u, name) /\ loc'[u].msg = loc[u].msg
      OBVIOUS
    <3> QED BY <1>3, <3>1
  <2> QED BY <1>1, <2>1, <2>2 DEF Written
<1>4. ASSUME m = Len(published[name]), NEW w \in Workers,
             Writing(w, name), FileSize(inum) = ends[m] + Len(loc[w].msg),
             \A j \in 1..Len(loc[w].msg) : ByteAt(inum, ends[m] + j - 1) = loc[w].msg[j]
      PROVE  Written(name, inum, m, ends)'
  <2>1. PICK l \in Nat : l = Len(loc[w].msg)
    <3>1. loc[w].msg \in Seq(Symbols)
      BY DEF BInv, WorkersOK, Locals
    <3> QED BY <3>1, LenProperties
  <2>2. PICK a \in Nat : a = ends[m]
    <3>1. m \in 0..m
      OBVIOUS
    <3> QED BY <3>1, SizesAssumption
  <2>3. a + l <= FileSize(inum)
    BY <1>4, <2>1, <2>2
  <2>4. \A j \in 1..l : a + j - 1 \in 0..FileSize(inum) - 1
    BY <2>3, Within
  <2>5. \A j \in 1..l : ByteNext(inum, a + j - 1) = ByteAt(inum, a + j - 1)
    BY <2>4 DEF Grows
  <2>6. Writing(w, name)' /\ loc'[w].msg = loc[w].msg
    BY <1>4
  <2>7. m = Len(published'[name]) /\ SizeNext(inum) = ends[m] + Len(loc'[w].msg)
    BY <1>4, <2>6
  <2>8. \A j \in 1..Len(loc'[w].msg) : ByteNext(inum, ends[m] + j - 1) = loc'[w].msg[j]
    BY <1>4, <2>1, <2>2, <2>5, <2>6
  <2> QED BY <2>6, <2>7, <2>8 DEF Written, SizeNext, FileSize, ByteNext, ByteAt
<1> QED BY <1>1, <1>2, <1>3, <1>4 DEF Written

\* what is published has no NUL
LEMMA PublishedTyped ==
  ASSUME PublishedOK, NEW name \in AllNames, NEW m \in Nat, m <= Len(published[name])
  PROVE  /\ MessagesTyped(name, m)
         /\ \A i \in 1..m : Len(published[name][i]) \in Nat
<1>1. PICK s \in Seq(Seq(Bytes \ {NUL})) : s = published[name]
  BY DEF PublishedOK
<1>2. PICK n \in Nat : n = Len(s) /\ m <= n
  BY <1>1, LenProperties
<1>3. ASSUME NEW i \in 1..m
      PROVE  published[name][i] \in Seq(Bytes \ {NUL}) /\ Len(published[name][i]) \in Nat
  <2>1. i \in 1..Len(s)
    BY <1>2
  <2>2. s[i] \in Seq(Bytes \ {NUL})
    BY <2>1, ElementOfSeq
  <2> QED BY <1>1, <2>2, LenProperties
<1> QED BY <1>3 DEF MessagesTyped

\* a write under another name leaves the file and what is published
LEMMA OtherFile ==
  ASSUME SInv, Deleters = {}, HandlesOwned, BoxesFirst, HandlesNamed, WritesAtEnd, PublishedOK, Next,
         NEW w \in Workers, WorkerStep(w), P_Write(w) \/ P_Terminate(w),
         NEW name \in AllNames, NEW inum, Named(name, inum), BoxOf[loc[w].req] # name,
         FileSize(inum) \in Nat
  PROVE  /\ SizeNext(inum) = FileSize(inum) /\ Grows(inum)
         /\ published'[name] = published[name]
<1>0. BInv /\ FsInv
  BY DEF SInv, BInv
<1>1. pc[w] \in PubSession
  BY DEF P_Write, P_Terminate, PubSession
<1>2. Named(BoxOf[loc[w].req], InodeOf(loc[w].fd))
  BY <1>1 DEF HandlesNamed
<1>3. inum # InodeOf(loc[w].fd)
  BY <1>0, <1>2, NamedOnce
<1>4. /\ SizeNext(inum) = FileSize(inum)
      /\ \A o \in 0..FileSize(inum) - 1 : ByteNext(inum, o) = ByteAt(inum, o)
  BY <1>3, FilesApart
<1>5. published'[name] = published[name]
  <2>1. CASE P_Write(w)
    BY <2>1 DEF P_Write
  <2>2. CASE P_Terminate(w)
    <3>1. \/ published' = published
          \/ published' = [published EXCEPT ![BoxOf[loc[w].req]] = Append(@, loc[w].msg)]
      BY <2>2, Publishes
    <3> QED BY <3>1 DEF PublishedOK
  <2> QED BY <2>1, <2>2
<1> QED BY <1>4, <1>5 DEF Grows

-----------------------------------------------------------------------------
(* A step of a worker *)

\* what a step of a worker knows of a file and of its messages
FileBefore(name, inum, m, ends) ==
    /\ SInv /\ Deleters = {} /\ HandlesOwned /\ BoxesFirst /\ HandlesNamed /\ WritesAtEnd
    /\ SubscribersOK /\ ReqsDistinct /\ PublishedOK
    /\ Named(name, inum) /\ m <= Len(published[name]) /\ Content(name, inum, m, ends)

\* the sizes of a file with a name, before and after a step
LEMMA NamedSizes ==
  ASSUME SInv, Next, NEW name, NEW inum, Named(name, inum)
  PROVE  FileSize(inum) \in Nat /\ SizeNext(inum) \in Nat /\ inum \in Inodes
<1>0. BInv /\ FsInv /\ TablesTyped
  BY DEF SInv, BInv, FsInv
<1>1. TablesTyped'
  BY <1>0, FilesStep DEF FsInv
<1>2. inum \in Inodes
  BY <1>0, NamedOnce
<1> QED BY <1>0, <1>1, <1>2 DEF TablesTyped, FileSize, SizeNext

\* a write of a worker under the name of the file
LEMMA ContentOwnWrite ==
  ASSUME NEW w \in Workers, WorkerStep(w), P_Write(w) \/ P_Terminate(w), Next,
         NEW name \in AllNames, BoxOf[loc[w].req] = name, NEW inum,
         NEW m \in Nat, NEW ends \in [0..m -> 0..BLOCK_SIZE], FileBefore(name, inum, m, ends)
  PROVE  \E n, e : n \in 0..Len(published'[name]) /\ e \in [0..n -> 0..BLOCK_SIZE]
                   /\ Content(name, inum, n, e)'
<1>0. /\ SInv /\ Deleters = {} /\ HandlesOwned /\ BoxesFirst /\ HandlesNamed /\ WritesAtEnd
      /\ SubscribersOK /\ ReqsDistinct /\ PublishedOK
      /\ Named(name, inum) /\ m <= Len(published[name])
      /\ Holds(name, inum, m, ends) /\ Written(name, inum, m, ends)
      /\ \A u \in Workers : ReaderAt(u, name, inum, m, ends)
  BY DEF FileBefore, Content
<1>1. BInv /\ FsInv /\ pc \in [Workers -> WorkerPCs]
  BY <1>0 DEF SInv, BInv, WorkersOK
<1>2. inum = InodeOf(loc[w].fd)
  <2>1. pc[w] \in PubSession
    BY DEF P_Write, P_Terminate, PubSession
  <2>2. Named(name, InodeOf(loc[w].fd))
    BY <1>0, <2>1 DEF HandlesNamed
  <2> QED BY <1>0, <1>1, <2>2, NamedOnce
<1>3. FileSize(inum) \in Nat /\ SizeNext(inum) \in Nat
  BY <1>0, NamedSizes
<1>4. PICK n, e : /\ n \in 0..Len(published'[name]) /\ m <= n
                  /\ e \in [0..n -> 0..BLOCK_SIZE] /\ (\A i \in 0..m : e[i] = ends[i])
                  /\ Holds(name, inum, n, e)' /\ Written(name, inum, n, e)'
                  /\ Grows(inum) /\ (\A i \in 1..m : published'[name][i] = published[name][i])
  <2>1. CASE P_Write(w)
    <3>1. \A i \in 1..m : Len(published[name][i]) \in Nat
      BY <1>0, PublishedTyped
    <3>2. /\ Grows(inum) /\ published' = published
          /\ Holds(name, inum, m, ends)' /\ Written(name, inum, m, ends)'
      BY <1>0, <1>2, <2>1, <3>1, ContentWrite
    <3>3. m \in 0..Len(published'[name])
      <4>1. PICK s \in Seq(Seq(Bytes \ {NUL})) : s = published[name]
        BY <1>0 DEF PublishedOK
      <4>2. Len(s) \in Nat
        BY LenProperties
      <4> QED BY <1>0, <3>2, <4>1, <4>2
    <3> QED BY <3>2, <3>3
  <2>2. CASE P_Terminate(w)
    <3>1. /\ Grows(inum)
          /\ \A i \in 1..m : published'[name][i] = published[name][i]
          /\ \E n, e : /\ n \in 0..Len(published'[name]) /\ m <= n
                       /\ e \in [0..n -> 0..BLOCK_SIZE] /\ (\A i \in 0..m : e[i] = ends[i])
                       /\ Holds(name, inum, n, e)' /\ Written(name, inum, n, e)'
      <4>1. name = BoxOf[loc[w].req]
        OBVIOUS
      <4> QED BY <1>0, <1>2, <2>2, <4>1, ContentTerminate
    <3> QED BY <3>1
  <2> QED BY <2>1, <2>2
<1>5. n \in Nat
  BY <1>4
<1>6. ASSUME NEW u \in Workers PROVE ReaderAt(u, name, inum, n, e)'
  <2>1. CASE u = w
    <3>1. pc'[w] \notin SubSession
      BY <1>1 DEF P_Write, P_Terminate, Goto, SubSession
    <3> QED BY <2>1, <3>1 DEF ReaderAt
  <2>2. CASE u # w
    <3>1. ReaderAt(u, name, inum, m, ends)
      BY <1>0
    <3> QED BY <1>0, <1>3, <1>4, <1>5, <2>2, <3>1, ReadersApart
  <2> QED BY <2>1, <2>2
<1>7. Content(name, inum, n, e)'
  <2>1. \A u \in Workers : ReaderAt(u, name, inum, n, e)'
    BY <1>6
  <2> QED BY <1>4, <2>1 DEF Content
<1> QED BY <1>4, <1>7

\* any other step of a worker
LEMMA ContentOther ==
  ASSUME NEW w \in Workers, WorkerStep(w) \/ S_SpuriousWakeup(w), Next,
         NEW name \in AllNames, P_Write(w) \/ P_Terminate(w) => BoxOf[loc[w].req] # name, NEW inum,
         NEW m \in Nat, NEW ends \in [0..m -> 0..BLOCK_SIZE], FileBefore(name, inum, m, ends)
  PROVE  published'[name] = published[name] /\ Content(name, inum, m, ends)'
<1>0. /\ SInv /\ Deleters = {} /\ HandlesOwned /\ BoxesFirst /\ HandlesNamed /\ WritesAtEnd
      /\ SubscribersOK /\ ReqsDistinct /\ PublishedOK
      /\ Named(name, inum) /\ m <= Len(published[name])
      /\ Holds(name, inum, m, ends) /\ Written(name, inum, m, ends)
      /\ \A u \in Workers : ReaderAt(u, name, inum, m, ends)
  BY DEF FileBefore, Content
<1>1. BInv /\ FsInv /\ pc \in [Workers -> WorkerPCs]
  BY <1>0 DEF SInv, BInv, WorkersOK
<1>2. FileSize(inum) \in Nat /\ SizeNext(inum) \in Nat
  BY <1>0, NamedSizes
<1>3. SizeNext(inum) = FileSize(inum) /\ Grows(inum) /\ published'[name] = published[name]
  <2>1. CASE P_Write(w) \/ P_Terminate(w)
    <3>1. WorkerStep(w)
      BY <2>1 DEF P_Write, P_Terminate, S_SpuriousWakeup
    <3> QED BY <1>0, <1>2, <2>1, <3>1, OtherFile
  <2>2. CASE ~P_Write(w) /\ ~P_Terminate(w)
    <3>1. inode_table'[inum] = inode_table[inum] /\ fs_data' = fs_data
      BY <1>0, <1>1, <2>2, FilesSame
    <3>2. published' = published
      BY <2>2, PublishedKept
    <3> QED BY <1>2, <3>1, <3>2 DEF Grows, SizeNext, FileSize, ByteNext, ByteAt
  <2> QED BY <2>1, <2>2
<1>4. MessagesTyped(name, m)
  BY <1>0, PublishedTyped
<1>5. \A u \in Workers : /\ Writing(u, name)' <=> Writing(u, name)
                         /\ Writing(u, name) => loc'[u].msg = loc[u].msg
  BY <1>1, WritersSame
<1>6. Holds(name, inum, m, ends)' /\ Written(name, inum, m, ends)'
  BY <1>0, <1>1, <1>2, <1>3, <1>4, <1>5, ContentKept
<1>7. ASSUME NEW u \in Workers PROVE ReaderAt(u, name, inum, m, ends)'
  <2>1. ReaderAt(u, name, inum, m, ends)
    BY <1>0
  <2>2. CASE u = w /\ (P_Write(w) \/ P_Terminate(w))
    <3>1. pc'[w] \notin SubSession
      BY <1>1, <2>2 DEF P_Write, P_Terminate, Goto, SubSession
    <3> QED BY <2>2, <3>1 DEF ReaderAt
  <2>3. CASE u = w /\ ~P_Write(w) /\ ~P_Terminate(w)
    BY <1>0, <1>4, <2>1, <2>3, ReaderOwn
  <2>4. CASE u # w
    <3>1. m <= m /\ (\A i \in 0..m : ends[i] = ends[i])
          /\ (\A i \in 1..m : published'[name][i] = published[name][i])
      BY <1>3
    <3> QED BY <1>0, <1>2, <1>3, <2>1, <2>4, <3>1, ReadersApart
  <2> QED BY <2>2, <2>3, <2>4
<1>8. \A u \in Workers : ReaderAt(u, name, inum, m, ends)'
  BY <1>7
<1> QED BY <1>3, <1>6, <1>8 DEF Content

-----------------------------------------------------------------------------
(* A step of anybody *)

\* a step of somebody else
LEMMA ContentIdle ==
  ASSUME UNCHANGED <<pc, loc, published, inode_table, fs_data, open_file_table>>, Next,
         NEW name \in AllNames, NEW inum,
         NEW m \in Nat, NEW ends \in [0..m -> 0..BLOCK_SIZE], FileBefore(name, inum, m, ends)
  PROVE  Content(name, inum, m, ends)'
<1>0. /\ SInv /\ SubscribersOK /\ ReqsDistinct /\ PublishedOK
      /\ Named(name, inum) /\ m <= Len(published[name])
      /\ Holds(name, inum, m, ends) /\ Written(name, inum, m, ends)
      /\ \A u \in Workers : ReaderAt(u, name, inum, m, ends)
  BY DEF FileBefore, Content
<1>1. BInv
  BY <1>0 DEF SInv
<1>2. FileSize(inum) \in Nat
  BY <1>0, NamedSizes
<1>3. SizeNext(inum) = FileSize(inum) /\ Grows(inum) /\ published'[name] = published[name]
  BY <1>2 DEF Grows, SizeNext, FileSize, ByteNext, ByteAt
<1>4. MessagesTyped(name, m)
  BY <1>0, PublishedTyped
<1>5. \A u \in Workers : /\ Writing(u, name)' <=> Writing(u, name)
                         /\ Writing(u, name) => loc'[u].msg = loc[u].msg
  BY DEF Writing
<1>6. Holds(name, inum, m, ends)' /\ Written(name, inum, m, ends)'
  BY <1>0, <1>1, <1>2, <1>3, <1>4, <1>5, ContentKept
<1>7. ASSUME NEW u \in Workers PROVE ReaderAt(u, name, inum, m, ends)'
  <2>1. ReaderAt(u, name, inum, m, ends)
    BY <1>0
  <2> QED BY <1>0, <1>2, <2>1, ReadersIdle
<1>8. \A u \in Workers : ReaderAt(u, name, inum, m, ends)'
  BY <1>7
<1> QED BY <1>6, <1>8 DEF Content

(* A box that is created starts with an empty file, and nobody is in a session *)
(* under its name.                                                             *)
LEMMA ContentNew ==
  ASSUME SInv, Deleters = {}, HandlesNamed, PublishedOK, Next,
         NEW name \in AllNames, NEW inum, Named(name, inum)', ~Named(name, inum)
  PROVE  \E n, e : n \in 0..Len(published'[name]) /\ e \in [0..n -> 0..BLOCK_SIZE]
                   /\ Content(name, inum, n, e)'
<1>0. BInv /\ pc \in [Workers -> WorkerPCs]
  BY DEF SInv, BInv, WorkersOK
<1>1. PICK s \in Slots : /\ dir'[s].d_inumber = inum /\ dir'[s].d_inumber # -1
                         /\ dir'[s].d_name = name
  BY DEF Named
<1>2. dir[s].d_inumber = -1
  BY <1>0, <1>1, EntriesKept DEF Named
<1>3. /\ \A t \in Slots : dir[t].d_inumber # -1 => dir[t].d_name # name
      /\ inode_table'[inum].i_size = 0
  BY <1>0, <1>1, <1>2, EntriesKept
<1>4. PICK w \in Workers : C_TfsOpen(w) /\ WorkerStep(w)
  BY <1>0, <1>1, <1>2, EntriesKept
<1>5. \A i : ~Named(name, i)
  BY <1>3 DEF Named
<1>6. published'[name] = <<>>
  <2>1. published' = published
    BY <1>4 DEF C_TfsOpen
  <2> QED BY <1>5, <2>1 DEF PublishedOK
<1>7. ASSUME NEW u \in Workers, pc'[u] \in SubSession \cup {"p_terminate"}
      PROVE  BoxOf[loc'[u].req] # name
  <2>1. u # w
    BY <1>0, <1>4, <1>7 DEF C_TfsOpen, Goto, Respond, SubSession
  <2>2. u \in Workers \ {w}
    BY <2>1
  <2>3. loc'[u] = loc[u] /\ (pc'[u] = pc[u] \/ (pc[u] = "s_asleep" /\ pc'[u] \in {"s_woken", "s_orphan"}))
    BY <1>0, <1>4, <2>2, OthersMove
  <2>4. pc[u] \in PubSession \cup SubSession
    BY <1>7, <2>3 DEF PubSession, SubSession
  <2>5. Named(BoxOf[loc[u].req], InodeOf(loc[u].fd))
    BY <2>4 DEF HandlesNamed
  <2> QED BY <1>5, <2>3, <2>5
<1>8. PICK e : e = [i \in 0..0 |-> 0]
  OBVIOUS
<1>9. PICK n : n = 0
  OBVIOUS
<1>10. e \in [0..n -> 0..BLOCK_SIZE] /\ e[n] = 0 /\ e[0] = 0
  BY <1>8, <1>9, SizesAssumption
<1>11. PICK list : list = published'[name] /\ Len(list) = 0
  <2>1. Len(<<>>) = 0
    OBVIOUS
  <2> QED BY <1>6, <2>1
<1>12. FileSize(inum)' = 0 /\ n \in 0..Len(published'[name]) /\ n = Len(published'[name])
  BY <1>3, <1>9, <1>11 DEF FileSize
<1>13. Holds(name, inum, n, e)'
  <2>1. /\ \A i, j \in 0..n : i <= j => e[i] <= e[j]
        /\ 1..n = {}
        /\ e[n]..FileSize(inum)' - 1 = {} /\ e[n] <= FileSize(inum)'
    BY <1>8, <1>9, <1>10, <1>12
  <2> QED BY <1>10, <2>1 DEF Holds
<1>14. Written(name, inum, n, e)'
  <2>1. \A u \in Workers : ~(Writing(u, name)')
    BY <1>7 DEF Writing
  <2> QED BY <1>10, <1>12, <2>1 DEF Written
<1>15. \A u \in Workers : ReaderAt(u, name, inum, n, e)'
  BY <1>7 DEF ReaderAt
<1>16. Content(name, inum, n, e)'
  BY <1>13, <1>14, <1>15 DEF Content
<1> QED BY <1>10, <1>12, <1>16

(* Every file holds the messages published under its name.                     *)
LEMMA FilesHoldStep ==
  ASSUME SInv, Deleters = {}, ReqsDistinct, HandlesOwned, BoxesFirst, HandlesNamed, WritesAtEnd,
         SubscribersOK, PublishedOK, FilesHold, Next
  PROVE  FilesHold'
<1>1. ASSUME NEW name \in AllNames, NEW inum \in Inodes, Named(name, inum)'
      PROVE  \E n, e : n \in 0..Len(published'[name]) /\ e \in [0..n -> 0..BLOCK_SIZE]
                       /\ Content(name, inum, n, e)'
  <2>1. CASE ~Named(name, inum)
    BY <1>1, <2>1, ContentNew
  <2>2. CASE Named(name, inum)
    <3>1. PICK m \in 0..Len(published[name]) : \E ends \in [0..m -> 0..BLOCK_SIZE] :
             Content(name, inum, m, ends)
      BY <2>2 DEF FilesHold
    <3>2. PICK ends \in [0..m -> 0..BLOCK_SIZE] : Content(name, inum, m, ends)
      BY <3>1
    <3>3. PICK l \in Nat : l = Len(published[name])
      <4>1. PICK s \in Seq(Seq(Bytes \ {NUL})) : s = published[name]
        BY DEF PublishedOK
      <4> QED BY <4>1, LenProperties
    <3>4. m \in Nat /\ m <= l /\ m <= Len(published[name])
      BY <3>1, <3>3
    <3>5. FileBefore(name, inum, m, ends)
      BY <2>2, <3>2, <3>4 DEF FileBefore
    <3>6. ASSUME published'[name] = published[name], Content(name, inum, m, ends)'
          PROVE  \E n, e : n \in 0..Len(published'[name]) /\ e \in [0..n -> 0..BLOCK_SIZE]
                           /\ Content(name, inum, n, e)'
      <4>1. m \in 0..Len(published'[name])
        BY <3>6
      <4> QED BY <3>2, <3>6, <4>1
    <3>7. ASSUME NEW w \in Workers, WorkerStep(w) \/ S_SpuriousWakeup(w)
          PROVE  \E n, e : n \in 0..Len(published'[name]) /\ e \in [0..n -> 0..BLOCK_SIZE]
                           /\ Content(name, inum, n, e)'
      <4>1. CASE (P_Write(w) \/ P_Terminate(w)) /\ BoxOf[loc[w].req] = name
        <5>1. WorkerStep(w)
          BY <3>7, <4>1 DEF P_Write, P_Terminate, S_SpuriousWakeup
        <5> QED BY <3>4, <3>5, <4>1, <5>1, ContentOwnWrite
      <4>2. CASE P_Write(w) \/ P_Terminate(w) => BoxOf[loc[w].req] # name
        <5>1. published'[name] = published[name] /\ Content(name, inum, m, ends)'
          BY <3>4, <3>5, <3>7, <4>2, ContentOther
        <5> QED BY <3>6, <5>1
      <4> QED BY <4>1, <4>2
    <3>8. CASE ~(\E w \in Workers : WorkerStep(w) \/ S_SpuriousWakeup(w))
      <4>1. UNCHANGED <<pc, loc, published, inode_table, fs_data, open_file_table>>
        BY <3>8, OthersIdle DEF table
      <4>2. published'[name] = published[name] /\ Content(name, inum, m, ends)'
        BY <3>4, <3>5, <4>1, ContentIdle
      <4> QED BY <3>6, <4>2
    <3> QED BY <3>7, <3>8
  <2> QED BY <2>1, <2>2
<1> QED BY <1>1 DEF FilesHold

-----------------------------------------------------------------------------
(* What is delivered *)

\* the sequence got is the first messages of list
FirstOf(got, list) == /\ Len(got) <= Len(list)
                      /\ \A i \in 1..Len(got) : got[i] = list[i]

\* the same with the sub-sequence of DeliveredInOrder
LEMMA FirstOfPrefix ==
  ASSUME NEW S, NEW got \in Seq(S), NEW T, NEW list \in Seq(T)
  PROVE  FirstOf(got, list) <=> Len(got) <= Len(list) /\ got = SubSeq(list, 1, Len(got))
<1>1. PICK k \in Nat : k = Len(got)
  BY LenProperties
<1>2. PICK l \in Nat : l = Len(list)
  BY LenProperties
<1>3. k <= l => SubSeq(list, 1, k) \in [1..k -> T] /\ \A i \in 1..k : SubSeq(list, 1, k)[i] = list[i]
  <2> SUFFICES ASSUME k <= l
               PROVE  SubSeq(list, 1, k) \in [1..k -> T] /\ \A i \in 1..k : SubSeq(list, 1, k)[i] = list[i]
    OBVIOUS
  <2>1. \A i \in 1..k : i \in 1..l /\ 1 + i - 1 = i /\ list[i] \in T
    BY <1>2, ElementOfSeq
  <2>2. SubSeq(list, 1, k) = [i \in 1..k |-> list[i]]
    BY <1>2, <2>1
  <2> QED BY <2>1, <2>2
<1>4. got \in [1..k -> S]
  BY <1>1, LenProperties
<1>5. CASE k <= l
  <2>1. got = SubSeq(list, 1, k) <=> \A i \in 1..k : got[i] = list[i]
    BY <1>3, <1>4, <1>5
  <2> QED BY <1>1, <1>2, <1>5, <2>1 DEF FirstOf
<1>6. CASE ~(k <= l)
  BY <1>1, <1>2, <1>6 DEF FirstOf
<1> QED BY <1>5, <1>6

\* a message more, the next of the list
LEMMA FirstOfAppend ==
  ASSUME NEW S, NEW got \in Seq(S), NEW T, NEW list \in Seq(T), FirstOf(got, list),
         NEW msg \in S, Len(got) < Len(list), msg = list[Len(got) + 1]
  PROVE  FirstOf(Append(got, msg), list)
<1>1. PICK k \in Nat : k = Len(got)
  BY LenProperties
<1>2. PICK l \in Nat : l = Len(list)
  BY LenProperties
<1>3. PICK more : more = Append(got, msg)
  OBVIOUS
<1>4. Len(more) = k + 1 /\ (\A i \in 1..k : more[i] = got[i]) /\ more[k + 1] = msg
  BY <1>1, <1>3, AppendProperties
<1>5. ASSUME NEW i \in 1..k + 1 PROVE more[i] = list[i]
  <2>1. i \in 1..k \/ i = k + 1
    BY <1>1
  <2> QED BY <1>1, <1>4, <2>1 DEF FirstOf
<1>6. k + 1 <= l
  BY <1>1, <1>2
<1> QED BY <1>2, <1>3, <1>4, <1>5, <1>6 DEF FirstOf

\* what is published only grows
LEMMA PublishedGrows ==
  ASSUME SInv, HandlesOwned, BoxesFirst, HandlesNamed, PublishedOK, Next, NEW name \in AllNames,
         NEW S, NEW got \in Seq(S), FirstOf(got, published[name])
  PROVE  FirstOf(got, published'[name])
<1>1. CASE published' = published
  BY <1>1
<1>2. ASSUME NEW w \in Workers, P_Terminate(w),
             published' = [published EXCEPT ![BoxOf[loc[w].req]] = Append(@, loc[w].msg)]
      PROVE  FirstOf(got, published'[name])
  <2>0. BInv
    BY DEF SInv
  <2>1. PICK b \in AllNames : b = BoxOf[loc[w].req]
    BY <1>2, Publishes
  <2>2. PICK msg \in Seq(Bytes \ {NUL}) : msg = loc[w].msg
    BY <2>0, <1>2, NulWrite
  <2>3. PICK s \in Seq(Seq(Bytes \ {NUL})) : s = published[b]
    BY DEF PublishedOK
  <2>4. published' = [published EXCEPT ![b] = Append(s, msg)] /\ DOMAIN published = AllNames
    BY <1>2, <2>1, <2>2, <2>3 DEF PublishedOK
  <2>5. CASE name # b
    BY <2>4, <2>5
  <2>6. CASE name = b
    <3>1. published'[name] = Append(s, msg) /\ published[name] = s
      BY <2>3, <2>4, <2>6
    <3>2. /\ Len(Append(s, msg)) = Len(s) + 1 /\ Len(s) \in Nat
          /\ \A i \in 1..Len(s) : Append(s, msg)[i] = s[i]
      BY AppendProperties, LenProperties
    <3>3. PICK k \in Nat : k = Len(got)
      BY LenProperties
    <3>4. k <= Len(s) /\ \A i \in 1..k : got[i] = s[i]
      BY <3>1, <3>3 DEF FirstOf
    <3>5. k <= Len(Append(s, msg)) /\ \A i \in 1..k : got[i] = Append(s, msg)[i]
      BY <3>2, <3>4
    <3> QED BY <3>1, <3>3, <3>5 DEF FirstOf
  <2> QED BY <2>5, <2>6
<1>3. \/ published' = published
      \/ \E w \in Workers : /\ P_Terminate(w)
                            /\ published' = [published EXCEPT ![BoxOf[loc[w].req]] = Append(@, loc[w].msg)]
  BY PublishedMoves, Publishes
<1> QED BY <1>1, <1>2, <1>3

(* What is sent to a subscriber is the next message of its box.                *)
LEMMA SentIsNext ==
  ASSUME SInv, HandlesNamed, PublishedOK, FilesHold,
         NEW w \in Workers, pc[w] = "s_send", NEW c \in Subscribers, c = loc[w].req,
         NEW name \in AllNames, name = BoxOf[c], NEW k, k = Len(Got(c))
  PROVE  k < Len(published[name]) /\ loc[w].msg = published[name][k + 1]
<1>0. FsInv
  BY DEF SInv, BInv
<1>1. PICK inum : inum = InodeOf(loc[w].fd)
  OBVIOUS
<1>2. Named(name, inum)
  BY <1>1 DEF HandlesNamed, SubSession
<1>3. inum \in Inodes
  BY <1>0, <1>2, NamedOnce
<1>4. PICK m \in 0..Len(published[name]) : \E ends \in [0..m -> 0..BLOCK_SIZE] :
         Content(name, inum, m, ends)
  BY <1>2, <1>3 DEF FilesHold
<1>5. PICK ends \in [0..m -> 0..BLOCK_SIZE] : Content(name, inum, m, ends)
  BY <1>4
<1>6. ReaderAt(w, name, inum, m, ends)
  BY <1>5 DEF Content
<1>7. k <= m /\ k < m /\ loc[w].msg = published[name][k + 1]
  BY <1>6 DEF ReaderAt, SubSession
<1>8. PICK l \in Nat : l = Len(published[name])
  <2>1. PICK s \in Seq(Seq(Bytes \ {NUL})) : s = published[name]
    BY DEF PublishedOK
  <2> QED BY <2>1, LenProperties
<1> QED BY <1>4, <1>7, <1>8

(* Subscribers get what is published, in order.                                *)
LEMMA DeliveredStep ==
  ASSUME SInv, HandlesOwned, BoxesFirst, HandlesNamed, SubscribersOK, PublishedOK, PublishedOK',
         FilesHold, DeliveredInOrder, Next
  PROVE  DeliveredInOrder'
<1>0. BInv
  BY DEF SInv
<1>1. ASSUME NEW c \in Subscribers
      PROVE  Len(Got(c)') <= Len(published'[BoxOf[c]])
             /\ Got(c)' = SubSeq(published'[BoxOf[c]], 1, Len(Got(c)'))
  <2>1. PICK name \in AllNames : name = BoxOf[c]
    BY BrokerAssumption DEF Clients
  <2>2. PICK list \in Seq(Seq(Bytes \ {NUL})) : list = published[name]
    BY DEF PublishedOK
  <2>3. PICK next \in Seq(Seq(Bytes \ {NUL})) : next = published'[name]
    BY DEF PublishedOK
  <2>4. PICK got \in Seq(Seq(Symbols)) : got = Got(c)
    <3>1. received[c] \in Seq(Seq(Symbols)) /\ pipe[c] \in Seq(Seq(Symbols))
      BY DEF SubscribersOK
    <3> QED BY <3>1, SequenceMoves DEF Got
  <2>5. FirstOf(got, list)
    <3>1. /\ Len(received[c] \o pipe[c]) <= Len(published[BoxOf[c]])
          /\ received[c] \o pipe[c] = SubSeq(published[BoxOf[c]], 1, Len(received[c] \o pipe[c]))
      BY DEF DeliveredInOrder
    <3>2. Len(got) <= Len(list) /\ got = SubSeq(list, 1, Len(got))
      BY <2>1, <2>2, <2>4, <3>1 DEF Got
    <3> QED BY <3>2, FirstOfPrefix
  <2>6. CASE Got(c)' = Got(c)
    <3>1. FirstOf(got, next)
      BY <2>2, <2>3, <2>5, PublishedGrows
    <3>2. Len(got) <= Len(next) /\ got = SubSeq(next, 1, Len(got))
      BY <3>1, FirstOfPrefix
    <3> QED BY <2>1, <2>3, <2>4, <2>6, <3>2
  <2>7. ASSUME NEW w \in Workers, S_Send(w), WorkerStep(w), pc[w] = "s_send", loc[w].req = c,
               Got(c)' = Append(Got(c), loc[w].msg)
        PROVE  Len(Got(c)') <= Len(published'[BoxOf[c]])
               /\ Got(c)' = SubSeq(published'[BoxOf[c]], 1, Len(Got(c)'))
    <3>1. PICK msg \in Seq(Symbols) : msg = loc[w].msg
      BY <1>0 DEF BInv, WorkersOK, Locals
    <3>2. PICK k : k = Len(got)
      OBVIOUS
    <3>3. k < Len(list) /\ msg = list[k + 1]
      <4>1. c = loc[w].req /\ k = Len(Got(c))
        BY <2>4, <2>7, <3>2
      <4>2. k < Len(published[name]) /\ loc[w].msg = published[name][k + 1]
        BY <2>1, <2>7, <4>1, SentIsNext
      <4> QED BY <2>2, <3>1, <4>2
    <3>4. next = list
      BY <2>2, <2>3, <2>7 DEF S_Send
    <3>5. PICK more \in Seq(Seq(Symbols)) : more = Append(got, msg)
      BY AppendProperties
    <3>6. FirstOf(more, list)
      BY <2>5, <3>2, <3>3, <3>5, FirstOfAppend
    <3>7. Len(more) <= Len(list) /\ more = SubSeq(list, 1, Len(more))
      BY <3>6, FirstOfPrefix
    <3>8. Got(c)' = more /\ published'[BoxOf[c]] = list
      BY <2>1, <2>3, <2>4, <2>7, <3>1, <3>4, <3>5
    <3> QED BY <3>7, <3>8
  <2> QED BY <1>0, <2>6, <2>7, GotMoves
<1> QED BY <1>1 DEF DeliveredInOrder, Got

-----------------------------------------------------------------------------
(* The messages *)

\* in the initial state the files are empty
LEMMA FilesHoldInit ==
  ASSUME Init
  PROVE  FilesHold
<1>1. \A w \in Workers : pc[w] = "idle"
  BY DEF Init
<1>2. ASSUME NEW name \in AllNames, NEW inum \in Inodes, Named(name, inum)
      PROVE  \E m \in 0..Len(published[name]) : \E ends \in [0..m -> 0..BLOCK_SIZE] :
                Content(name, inum, m, ends)
  <2>1. PICK s \in Slots : dir[s].d_inumber = inum /\ dir[s].d_inumber # -1
    BY <1>2 DEF Named
  <2>2. dir[s] = IF s < Len(InitialBoxes) THEN [d_name |-> InitialBoxes[s + 1], d_inumber |-> s + 1]
                 ELSE [d_name |-> NoName, d_inumber |-> -1]
    BY DEF Init, FSInitWith
  <2>3. s < Len(InitialBoxes) /\ inum = s + 1
    BY <2>1, <2>2
  <2>4. FileSize(inum) = 0
    <3>1. inum # ROOT_DIR_INUM /\ inum <= Len(InitialBoxes)
      BY <2>1, <2>3, BrokerAssumption, SizesAssumption DEF Slots, ROOT_DIR_INUM
    <3>2. inode_table[inum] = [i_size |-> 0, i_data_block |-> -1]
      BY <1>2, <3>1 DEF Init, FSInitWith
    <3> QED BY <3>2 DEF FileSize
  <2>5. PICK e : e = [i \in 0..0 |-> 0]
    OBVIOUS
  <2>6. PICK n : n = 0
    OBVIOUS
  <2>7. e \in [0..n -> 0..BLOCK_SIZE] /\ e[n] = 0 /\ e[0] = 0
    BY <2>5, <2>6, SizesAssumption
  <2>8. PICK list : list = published[name] /\ Len(list) = 0
    <3>1. published[name] = <<>>
      BY DEF Init
    <3>2. Len(<<>>) = 0
      OBVIOUS
    <3> QED BY <3>1, <3>2
  <2>9. n \in 0..Len(published[name]) /\ n = Len(published[name])
    BY <2>6, <2>8
  <2>10. Holds(name, inum, n, e)
    <3>1. /\ \A i, j \in 0..n : i <= j => e[i] <= e[j]
          /\ 1..n = {}
          /\ e[n]..FileSize(inum) - 1 = {} /\ e[n] <= FileSize(inum)
      BY <2>4, <2>5, <2>6, <2>7
    <3> QED BY <2>7, <3>1 DEF Holds
  <2>11. Written(name, inum, n, e)
    BY <1>1, <2>4, <2>7, <2>9 DEF Written, Writing
  <2>12. \A w \in Workers : ReaderAt(w, name, inum, n, e)
    BY <1>1 DEF ReaderAt, SubSession
  <2> QED BY <2>7, <2>9, <2>10, <2>11, <2>12 DEF Content
<1> QED BY <1>2 DEF FilesHold

\* the invariant holds at first
LEMMA MInvInit ==
  ASSUME Init
  PROVE  MInv
<1>1. \A w \in Workers : pc[w] = "idle" /\ loc[w].msg = <<>>
  BY DEF Init, NoLocals
<1>2. \A p \in FilePCs \cup Sessions : p # "idle"
  BY DEF FilePCs, Sessions, PubSession, SubSession
<1>3. HandlesOwned /\ BoxesFirst /\ HandlesNamed /\ WritesAtEnd
  BY <1>1, <1>2 DEF HandlesOwned, BoxesFirst, HandlesNamed, WritesAtEnd, FilePCs, Sessions
<1>4. ReqsDistinct /\ SlotHeld
  BY DEF Init, ReqsDistinct, SlotHeld, Busy
<1>5. BoxesOrdered
  <2>1. \A b \in BoxSlots : boxes[b].alloc_state = IF b < Len(InitialBoxes) THEN "USED" ELSE "NOT_USED"
    <3> SUFFICES ASSUME NEW b \in BoxSlots
                 PROVE  boxes[b].alloc_state = IF b < Len(InitialBoxes) THEN "USED" ELSE "NOT_USED"
      OBVIOUS
    <3>0. boxes[b] = IF b < Len(InitialBoxes) THEN EmptyBox(InitialBoxes[b + 1])
                     ELSE [EmptyBox(NoName) EXCEPT !.alloc_state = "NOT_USED"]
      BY DEF Init
    <3>1. CASE b < Len(InitialBoxes)
      <4>1. boxes[b] = EmptyBox(InitialBoxes[b + 1])
        BY <3>0, <3>1
      <4> QED BY <3>1, <4>1 DEF EmptyBox
    <3>2. CASE ~(b < Len(InitialBoxes))
      <4>1. boxes[b] = [EmptyBox(NoName) EXCEPT !.alloc_state = "NOT_USED"]
        BY <3>0, <3>2
      <4> QED BY <3>2, <4>1 DEF EmptyBox
    <3> QED BY <3>1, <3>2
  <2>2. ASSUME NEW b \in BoxSlots, NEW a \in BoxSlots, boxes[b].alloc_state = "USED", a < b
        PROVE  boxes[a].alloc_state = "USED"
    <3>1. b < Len(InitialBoxes)
      BY <2>1, <2>2
    <3>2. a < Len(InitialBoxes)
      BY <2>2, <3>1, BrokerAssumption DEF BoxSlots
    <3> QED BY <2>1, <3>2
  <2> QED BY <1>1, <2>2 DEF BoxesOrdered
<1>6. SubscribersOK
  <2>1. DOMAIN received = Clients /\ \A c \in Subscribers : received[c] = <<>> /\ pipe[c] = <<>>
    BY DEF Init, Clients
  <2>2. <<>> \in Seq(Seq(Symbols)) /\ <<>> \o <<>> = <<>>
    OBVIOUS
  <2>3. \A c \in Subscribers : Got(c) = <<>>
    BY <2>1, <2>2 DEF Got
  <2> QED BY <1>1, <2>1, <2>2, <2>3 DEF SubscribersOK
<1>7. PublishedOK
  BY DEF Init, PublishedOK
<1>8. DeliveredInOrder
  <2> SUFFICES ASSUME NEW c \in Subscribers
               PROVE  /\ Len(Got(c)) <= Len(published[BoxOf[c]])
                      /\ Got(c) = SubSeq(published[BoxOf[c]], 1, Len(Got(c)))
    BY DEF DeliveredInOrder, Got
  <2>1. received[c] = <<>> /\ pipe[c] = <<>> /\ published[BoxOf[c]] = <<>>
    BY BrokerAssumption DEF Init, Clients
  <2>2. PICK got \in Seq({}) : got = <<>> /\ Len(got) = 0
    BY EmptySeq
  <2>3. Got(c) = got /\ published[BoxOf[c]] = got
    BY <2>1, <2>2 DEF Got
  <2>4. FirstOf(got, got)
    BY <2>2 DEF FirstOf
  <2>5. Len(got) <= Len(got) /\ got = SubSeq(got, 1, Len(got))
    BY <2>4, FirstOfPrefix
  <2> QED BY <2>3, <2>5
<1> QED BY <1>3, <1>4, <1>5, <1>6, <1>7, <1>8, FilesHoldInit DEF MInv

\* and every step keeps it
LEMMA MInvStep ==
  ASSUME SInv, BInv', Deleters = {}, MInv, Next
  PROVE  MInv'
<1>0. /\ BInv /\ ReqsDistinct /\ SlotHeld /\ HandlesOwned /\ BoxesOrdered /\ BoxesFirst
      /\ HandlesNamed /\ WritesAtEnd /\ SubscribersOK /\ PublishedOK /\ FilesHold
      /\ DeliveredInOrder
  BY DEF SInv, MInv
<1>1. ReqsDistinct' /\ SlotHeld' /\ HandlesOwned'
  BY <1>0, ReqsDistinctStep, SlotHeldStep, HandlesOwnedStep
<1>2. BoxesOrdered' /\ BoxesFirst' /\ HandlesNamed' /\ WritesAtEnd'
  BY <1>0, <1>1, BoxesOrderedStep, BoxesFirstStep, HandlesNamedStep, WritesAtEndStep
<1>3. SubscribersOK' /\ PublishedOK'
  BY <1>0, SubscribersOKStep, PublishedOKStep
<1>4. FilesHold'
  BY <1>0, FilesHoldStep
<1>5. DeliveredInOrder'
  BY <1>0, <1>3, DeliveredStep
<1> QED BY <1>1, <1>2, <1>3, <1>4, <1>5 DEF MInv

\* nothing changes when nothing changes
LEMMA MInvStutters ==
  ASSUME MInv, UNCHANGED vars
  PROVE  MInv'
<1>0. UNCHANGED <<inode_table, freeinode_ts, dir, free_blocks, fs_data, open_file_table,
                  free_open_file_entries, boxes, mutex, boxes_lock, pc, loc, client, pipe, received,
                  published>>
  BY DEF vars, fs, table, pipes
<1>1. ReqsDistinct' /\ SlotHeld' /\ HandlesOwned' /\ BoxesOrdered' /\ BoxesFirst'
  BY <1>0 DEF MInv, ReqsDistinct, Busy, SlotHeld, HandlesOwned, IsOpenHandle, BoxesOrdered, BoxesFirst
<1>2. HandlesNamed' /\ WritesAtEnd'
  BY <1>0 DEF MInv, HandlesNamed, Named, WritesAtEnd, OffsetOf, InodeOf, FileSize
<1>3. SubscribersOK' /\ PublishedOK' /\ DeliveredInOrder'
  BY <1>0 DEF MInv, SubscribersOK, Got, PublishedOK, Named, DeliveredInOrder
<1>4. FilesHold'
  <2>1. ASSUME NEW name, NEW inum, NEW m, NEW ends
        PROVE  Content(name, inum, m, ends)' <=> Content(name, inum, m, ends)
    <3>1. Holds(name, inum, m, ends)' <=> Holds(name, inum, m, ends)
      BY <1>0 DEF Holds, ByteAt, FileSize
    <3>2. Written(name, inum, m, ends)' <=> Written(name, inum, m, ends)
      BY <1>0 DEF Written, Writing, ByteAt, FileSize
    <3>3. ASSUME NEW w \in Workers
          PROVE  ReaderAt(w, name, inum, m, ends)' <=> ReaderAt(w, name, inum, m, ends)
      BY <1>0 DEF ReaderAt, Got, OffsetOf, ByteAt, FileSize
    <3>4. (\A w \in Workers : ReaderAt(w, name, inum, m, ends)') <=>
          (\A w \in Workers : ReaderAt(w, name, inum, m, ends))
      BY <3>3
    <3> QED BY <3>1, <3>2, <3>4 DEF Content
  <2>2. FilesHold
    BY DEF MInv
  <2>3. ASSUME NEW name \in AllNames, NEW inum \in Inodes, Named(name, inum)'
        PROVE  \E m \in 0..Len(published'[name]) : \E ends \in [0..m -> 0..BLOCK_SIZE] :
                  Content(name, inum, m, ends)'
    <3>1. Named(name, inum) /\ published' = published
      BY <1>0, <2>3 DEF Named
    <3>2. \E m \in 0..Len(published[name]) : \E ends \in [0..m -> 0..BLOCK_SIZE] :
             Content(name, inum, m, ends)
      BY <2>2, <3>1 DEF FilesHold
    <3> QED BY <2>1, <3>1, <3>2
  <2> QED BY <2>3 DEF FilesHold
<1> QED BY <1>1, <1>2, <1>3, <1>4 DEF MInv

(* A subscriber is sent the messages of its box, whole, in order and once      *)
(* each, however the publisher's two writes of a message, the subscriber's     *)
(* byte by byte read_message and their sleeps interleave.  (The block of a     *)
(* deleted file is given to another under a publisher that still writes it.)   *)
THEOREM MessagesInOrder ==
  ASSUME Deleters = {}
  PROVE  Spec => []DeliveredInOrder
<1>1. Init => MInv
  BY MInvInit
<1>2. MInv /\ SInv /\ SInv' /\ [Next]_vars => MInv'
  BY MInvStep, MInvStutters DEF SInv
<1>3. MInv => DeliveredInOrder
  BY DEF MInv
<1> QED BY <1>1, <1>2, <1>3, SInvAlways, PTL DEF Spec
=============================================================================
