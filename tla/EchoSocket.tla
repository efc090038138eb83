----------------------------- MODULE EchoSocket -----------------------------
(***************************************************************************)
(* What module EventLoop takes an echo connection to be: the flags of the  *)
(* socket and whether it holds read buffers, with the read handler as one  *)
(* step.  Module Echo has the handler in detail.                           *)
(***************************************************************************)
VARIABLES
  open,        \* the slot holds a connection
  m_readable,
  m_close,
  readbuf      \* m_readbuf_queue holds buffers

vars == <<open, m_readable, m_close, readbuf>>

Init == ~open /\ ~m_readable /\ ~m_close /\ ~readbuf

Accept ==
  /\ ~open
  /\ open' = TRUE
  /\ m_readable' = FALSE
  /\ m_close' = FALSE
  /\ readbuf' = FALSE

Post ==
  /\ open /\ ~m_close
  /\ m_readable' = TRUE
  /\ UNCHANGED <<open, m_close, readbuf>>

(* Every way out of the handler asks for the close. *)
ReadEcho ==
  /\ open /\ m_readable /\ ~m_close
  /\ \E gotData, drained, old \in BOOLEAN :
       /\ old => readbuf
       /\ readbuf' = (old \/ gotData)
       /\ m_readable' = ~drained
  /\ m_close' = TRUE
  /\ UNCHANGED open

(* The buffers go with the connection. *)
Close ==
  /\ open /\ m_close
  /\ open' = FALSE
  /\ m_readable' = FALSE
  /\ readbuf' = FALSE
  /\ UNCHANGED m_close

Next == Accept \/ Post \/ ReadEcho \/ Close

Spec == Init /\ [][Next]_vars
=============================================================================
