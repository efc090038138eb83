-------------------------------- MODULE Echo --------------------------------
(***************************************************************************)
(* The echo application on one slot of the socket cache: echo.c with the   *)
(* buffers of buffer.c on the lists of module DList, and what event_loop   *)
(* does with the socket around its handlers.                               *)
(*                                                                         *)
(* The bytes the peer sends on a connection are numbered 1, 2, ...  A      *)
(* failing assert() takes the worker to pc = "abort".                      *)
(***************************************************************************)
EXTENDS DList, FiniteSets

CONSTANTS
  NBUFS,     \* buffers of one readv
  BUF_SIZE,  \* capacity of a buffer
  HeadLen,   \* length of the HTTP head of an answer
  MaxBytes   \* bound: bytes the peer sends on a connection

ASSUME ConstantsAssumption ==
  /\ NBUFS \in Nat \ {0} /\ BUF_SIZE \in Nat \ {0}
  /\ HeadLen \in Nat \ {0} /\ MaxBytes \in Nat \ {0}

(* calloc returns memory that is not in use; which, nothing depends on.    *)
(* Every readv but the last delivers a byte, and uses NBUFS buffers.       *)
Bufs == 1..(NBUFS * (MaxBytes + 1))
m_readbuf_queue == 0
old_queue == -1
tmp_queue == -2
Heads == {m_readbuf_queue, old_queue, tmp_queue}
Nodes == Bufs \cup Heads

HeadByte == 0       \* a byte of the HTTP head
Garbage == -1    \* a byte that is not of a buffer

VARIABLES
  pc,          \* where event_loop and the read handler are
  h,           \* the links of the lists
  live,        \* buffers allocated and not freed
  m_size,      \* of each buffer
  data,        \* of each buffer: the byte array, as far as it was written
  vecs,        \* p_vecs: the buffers collected for readv
  m_readable, m_close,
  received,    \* history: bytes readv delivered on this connection
  answer,      \* what iovs[0] and iovs[1] point to
  sent_size,
  sent         \* history: what the peer was sent

vars == <<pc, h, live, m_size, data, vecs, m_readable, m_close, received,
          answer, sent_size, sent>>

Bytes == -1..MaxBytes
TypeOK ==
  /\ pc \in {"closed", "idle", "collect", "readv", "send", "return", "close",
             "abort"}
  /\ h \in [mp_next : [Nodes -> Nodes], mp_prev : [Nodes -> Nodes]]
  /\ live \subseteq Bufs
  /\ m_size \in [Bufs -> 0..BUF_SIZE]
  /\ \A b \in Bufs : Len(data[b]) <= BUF_SIZE /\ ToSet(data[b]) \subseteq Bytes
  /\ Len(vecs) <= NBUFS /\ ToSet(vecs) \subseteq Bufs
  /\ m_readable \in BOOLEAN /\ m_close \in BOOLEAN
  /\ received \in 0..MaxBytes
  /\ ToSet(answer) \subseteq Bytes
  /\ sent_size \in Nat
  /\ ToSet(sent) \subseteq Bytes

Init ==
  /\ pc = "closed"
  /\ h = [mp_next |-> Unlinked(Nodes), mp_prev |-> Unlinked(Nodes)]
  /\ live = {}
  /\ m_size = [b \in Bufs |-> 0]
  /\ data = [b \in Bufs |-> <<>>]
  /\ vecs = <<>>
  /\ m_readable = FALSE /\ m_close = FALSE
  /\ received = 0
  /\ answer = <<>> /\ sent_size = 0 /\ sent = <<>>

bufVars == <<h, live, m_size, data, vecs>>
sendVars == <<answer, sent_size, sent>>

(* hixo_handle_accept: hixo_create_socket, then echo_handle_connect.       *)
Accept ==
  /\ pc = "closed"
  /\ pc' = "idle"
  /\ h' = dlist_init(h, m_readbuf_queue)
  /\ m_readable' = FALSE /\ m_close' = FALSE
  /\ received' = 0
  /\ answer' = <<>> /\ sent_size' = 0 /\ sent' = <<>>
  /\ UNCHANGED <<live, m_size, data, vecs>>

-----------------------------------------------------------------------------
(* echo_handle_read *)

(* The buffers of an earlier call are put aside, emptied. *)
echo_handle_read ==
  /\ pc = "idle"
  /\ m_readable' = TRUE              \* by epoll_process_events
  /\ h' = dlist_merge(dlist_init(h, old_queue), old_queue, m_readbuf_queue)
  /\ LET old == ToSet(dlist_for_each_f(h', old_queue))
     IN m_size' = [b \in Bufs |-> IF b \in old THEN 0 ELSE m_size[b]]
  /\ pc' = "collect"
  /\ vecs' = <<>>
  /\ UNCHANGED <<live, data, m_close, received, sendVars>>

(* calloc and hixo_create_buffer *)
NewBuf == CHOOSE b \in Bufs \ live : \A c \in Bufs \ live : b <= c
hixo_create_buffer(b) ==
  /\ h' = dlist_add_tail(dlist_init(h, b), tmp_queue, b)
  /\ live' = live \cup {b}
  /\ m_size' = [m_size EXCEPT ![b] = 0]
  /\ data' = [data EXCEPT ![b] = <<>>]

(* An old buffer is used before a new one is made. *)
CollectBuffer ==
  /\ pc = "collect"
  /\ LET n == IF dlist_empty(h, old_queue) THEN NewBuf
              ELSE h.mp_next[old_queue]
     IN /\ IF n \in live
           THEN /\ h' = dlist_add_tail(dlist_del(h, n), tmp_queue, n)
                /\ UNCHANGED <<live, m_size, data>>
           ELSE hixo_create_buffer(n)
        /\ vecs' = Append(vecs, n)
  /\ pc' = IF Len(vecs') = NBUFS THEN "readv" ELSE "collect"
  /\ UNCHANGED <<m_readable, m_close, received, sendVars>>

(* What the kernel stores in p_vecs[i] when readv returns n. *)
Filled(n, i) ==
  LET before == (i - 1) * BUF_SIZE
      len == IF n - before < BUF_SIZE THEN n - before ELSE BUF_SIZE
  IN [j \in 1..len |-> received + before + j]

(* The size set for the i-th buffer of tmp_queue that recved_size reaches. *)
SpreadSize(n, i) ==
  LET recved_size == n - (i - 1) * BUF_SIZE
  IN IF recved_size < BUF_SIZE THEN recved_size ELSE BUF_SIZE

(* readv fills the buffers in the order of p_vecs, the sizes are set in    *)
(* the order of tmp_queue; a buffer that is not reached keeps its size.    *)
ReadvData ==
  /\ pc = "readv"
  /\ \E n \in 1..(NBUFS * BUF_SIZE) :
       LET q == dlist_for_each_f(h, tmp_queue)
           reached == {i \in 1..NBUFS : (i - 1) * BUF_SIZE < n}
           At(seq, b) == CHOOSE i \in reached : seq[i] = b
       IN /\ received + n <= MaxBytes
          /\ m_size' = [b \in Bufs |-> IF \E i \in reached : q[i] = b
                                       THEN SpreadSize(n, At(q, b))
                                       ELSE m_size[b]]
          /\ data' = [b \in Bufs |-> IF \E i \in reached : vecs[i] = b
                                     THEN Filled(n, At(vecs, b))
                                     ELSE data[b]]
          /\ received' = received + n
  /\ h' = dlist_merge(h, m_readbuf_queue, tmp_queue)
  /\ vecs' = <<>>
  /\ pc' = "collect"
  /\ UNCHANGED <<live, m_readable, m_close, sendVars>>

(* hixo_destroy_buffer and free() of all buffers of a list; their links    *)
(* are gone with them.                                                     *)
FreeAll(l) ==
  /\ live' = live \ ToSet(dlist_for_each_f(h, l))
  /\ LET g == RemoveAll(h, l)
         gone == Bufs \ live'
     IN h' = [mp_next |-> [n \in Nodes |->
                             IF n \in gone THEN n ELSE g.mp_next[n]],
              mp_prev |-> [n \in Nodes |->
                             IF n \in gone THEN n ELSE g.mp_prev[n]]]

ReadvEof_spin ==          \* mutant: the loop goes on after a return of 0
  /\ pc = "readv"
  /\ FreeAll(tmp_queue)
  /\ vecs' = <<>>
  /\ pc' = "collect"
  /\ UNCHANGED <<m_size, data, m_readable, m_close, received, sendVars>>
(* readv returned 0, or ECONNRESET. *)
ReadvEof ==
  /\ pc = "readv"
  /\ FreeAll(tmp_queue)
  /\ vecs' = <<>>
  /\ m_close' = TRUE
  /\ pc' = "return"
  /\ UNCHANGED <<m_size, data, m_readable, received, sendVars>>

Contents(b) == [i \in 1..m_size[b] |-> IF i <= Len(data[b]) THEN data[b][i]
                                       ELSE Garbage]
FirstBuffer == h.mp_next[m_readbuf_queue]

Body_full ==              \* mutant: the capacity instead of the size
  IF FirstBuffer \in Bufs
  THEN [i \in 1..BUF_SIZE |-> IF i <= Len(data[FirstBuffer])
                              THEN data[FirstBuffer][i] ELSE Garbage]
  ELSE <<Garbage>>
(* test_syn_send takes the first buffer of the queue.  Of an empty queue   *)
(* it takes the head, and reads a size and a pointer from the fields of    *)
(* the socket around it; one Garbage stands for whatever that sends.       *)
Body == IF FirstBuffer \in Bufs THEN Contents(FirstBuffer) ELSE <<Garbage>>

(* readv failed with EAGAIN or another error: the answer is sent. *)
ReadvAgain ==
  /\ pc = "readv"
  /\ FreeAll(tmp_queue)
  /\ vecs' = <<>>
  /\ m_readable' = FALSE
  /\ answer' = [i \in 1..HeadLen |-> HeadByte] \o Body
  /\ pc' = "send"
  /\ UNCHANGED <<m_size, data, m_close, received, sent_size, sent>>

(* writev takes as much as there is room for; the loop hands it the same   *)
(* iovs again until enough bytes were taken.                               *)
Writev ==
  /\ pc = "send"
  /\ sent_size < Len(answer)
  /\ \E k \in 1..Len(answer) :
       /\ sent' = sent \o SubSeq(answer, 1, k)
       /\ sent_size' = sent_size + k
  /\ UNCHANGED <<pc, bufVars, m_readable, m_close, received, answer>>

SendEnds_open ==          \* mutant: does not ask for the close
  /\ pc = "send"
  /\ pc' = "return"
  /\ UNCHANGED <<bufVars, m_readable, m_close, received, sendVars>>
(* All was taken, or writev failed: shutdown and close. *)
SendEnds ==
  /\ pc = "send"
  /\ m_close' = TRUE
  /\ pc' = "return"
  /\ UNCHANGED <<bufVars, m_readable, received, sendVars>>

(* The old buffers that were not used go back to the socket. *)
ReturnRead ==
  /\ pc = "return"
  /\ h' = dlist_merge(h, m_readbuf_queue, old_queue)
  /\ pc' = IF m_close THEN "close" ELSE "idle"
  /\ UNCHANGED <<live, m_size, data, vecs, m_readable, m_close, received,
                 sendVars>>

(* event_loop: echo_handle_disconnect, then hixo_handle_close. *)
echo_handle_disconnect ==
  /\ pc = "close"
  /\ FreeAll(m_readbuf_queue)
  /\ m_readable' = FALSE
  /\ pc' = IF dlist_empty(h', m_readbuf_queue) THEN "closed" ELSE "abort"
  /\ UNCHANGED <<m_size, data, vecs, m_close, received, sendVars>>

Step ==
  \/ CollectBuffer \/ ReadvData \/ ReadvEof \/ ReadvAgain
  \/ Writev \/ SendEnds \/ ReturnRead \/ echo_handle_disconnect

Next == Accept \/ echo_handle_read \/ Step

(* The handler runs in the worker's loop and never waits: its sockets are  *)
(* non-blocking.                                                           *)
Spec == Init /\ [][Next]_vars /\ WF_vars(Step)

-----------------------------------------------------------------------------
(* Properties *)

Queue(l) == dlist_for_each_f(h, l)
Handling == pc \in {"collect", "readv", "send", "return"}

(* dlist_merge, dlist_del and dlist_add_tail keep the three queues sound:  *)
(* the lists are rings that share no node, and the buffers on them are     *)
(* exactly the ones allocated.  None is lost, freed twice, or linked after *)
(* it was freed, whatever the order of reads and errors.                   *)
QueuesSound ==
  /\ \A l \in Heads : Ring(h, l)
  /\ \A l, k \in Heads : l # k => ToSet(Queue(l)) \cap ToSet(Queue(k)) = {}
  /\ live = UNION {ToSet(Queue(l)) : l \in Heads}

(* What the peer sent is in m_readbuf_queue, complete and in order: no     *)
(* byte is lost or moved by the way readv's result is spread over the      *)
(* buffers and the iterations are merged, also when buffers stay partly    *)
(* filled in between.                                                      *)
StreamIntact ==
  Handling \/ pc = "close" =>
    LET q == Queue(m_readbuf_queue)
    IN FlattenSeq([i \in DOMAIN q |-> Contents(q[i])])
      = [i \in 1..received |-> i]

(* A closed slot owns no memory, and the assertion at echo.c:203 holds:    *)
(* the next connection in the slot starts from nothing.                    *)
NothingLeft ==
  /\ pc # "abort"
  /\ pc = "closed" => live = {} /\ \A l \in Heads : dlist_empty(h, l)

(* One call of the read handler serves a connection: every way out of it   *)
(* asks for the close, so that the code that uses the buffers of an        *)
(* earlier call again never runs.                                          *)
OldQueueUnused == dlist_empty(h, old_queue)

(* The handler comes back and the connection is closed, however the bytes  *)
(* arrive and whatever writev takes, provided the peer sends finitely      *)
(* many.                                                                   *)
HandlerReturns == Handling ~> pc = "closed"

(* The handler, seen as one step, does what EventLoop says it does. *)
Socket == INSTANCE EchoSocket WITH
  open <- pc # "closed",
  m_readable <- IF Handling THEN TRUE ELSE m_readable,
  m_close <- IF Handling THEN FALSE ELSE m_close,
  readbuf <- IF Handling THEN FALSE ELSE ~dlist_empty(h, m_readbuf_queue)
ImplementsSocket == Socket!Spec

(* Every buffer has one owner from its allocation to its release, which is *)
(* in the same call of the handler or when the connection is closed.       *)
BuffersOwned == TypeOK /\ QueuesSound /\ NothingLeft /\ OldQueueUnused

(* A sequence of passes: each starts with the head and goes on with the    *)
(* bytes of this connection from the first one, in order.                  *)
InPasses(s) ==
  \A i \in DOMAIN s : s[i] # HeadByte =>
    i > 1 /\ s[i] = s[i - 1] + 1 /\ s[i] <= received

(* What was sent, by however many short writevs, is made of passes over    *)
(* the head and the peer's own bytes: none from a buffer's unused part, a  *)
(* freed buffer or another connection, none out of order.  It may be more  *)
(* than one pass: after a short writev the loop starts from the head again *)
(* (echo.c:238), and what the passes did not reach is never sent.  Nothing *)
(* is promised where the very first readv failed: then the answer is made  *)
(* of the socket's own fields (echo.c:223).                                *)
AnswerSent == received > 0 => InPasses(sent)
=============================================================================
