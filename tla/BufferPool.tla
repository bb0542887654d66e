------------------------------ MODULE BufferPool ------------------------------
(***************************************************************************)
(* The pool of receive buffers (core/buffer_pool.rs).  The size is an      *)
(* atomic and the queue has a lock, so acquire and update_buf_size take    *)
(* two steps each; a session that fails never returns its buffer, and one  *)
(* that began before a resize returns a buffer of the old size.            *)
(***************************************************************************)
EXTENDS Integers, Sequences, SequencesExt

CONSTANTS Holders,      \* sessions
          Capacity,
          BufSizes,
          MaxResizes    \* bound: calls of update_buf_size

ASSUME PoolAssumption == BufSizes \subseteq Nat /\ BufSizes # {} /\ MaxResizes \in Nat

VARIABLES bufSize,
          free,         \* the queue: [size, bytes], bytes of which sessions are in it
          draining,     \* calls of update_buf_size that have not cleared the queue yet
          holder,       \* [pc, want, buf] of every session
          resizes,
          overtaken     \* history: sessions whose acquire a resize overtook

poolVars == <<bufSize, free, draining, holder, resizes, overtaken>>

NoBuffer == [size |-> 0, bytes |-> {}]
NoHolder == [pc |-> "none", want |-> 0, buf |-> NoBuffer]

PoolInit ==
  /\ bufSize = (CHOOSE s \in BufSizes : TRUE) /\ free = <<>> /\ draining = 0 /\ resizes = 0
  /\ holder = [h \in Holders |-> NoHolder] /\ overtaken = {}

\* acquire: the size first
LoadSize(h) ==
  /\ holder[h].pc = "none"
  /\ holder' = [holder EXCEPT ![h] = [pc |-> "asks", want |-> bufSize, buf |-> NoBuffer]]
  /\ overtaken' = overtaken \ {h}
  /\ UNCHANGED <<bufSize, free, draining, resizes>>

\* clear, then resize with zeroes
Cleared(buf, size) == [size |-> size, bytes |-> {}]

\* ... then a buffer from the end of the queue, or a new one
TakeBuffer(h) ==
  /\ holder[h].pc = "asks"
  /\ LET want == holder[h].want
         got  == IF free = <<>> THEN [size |-> want, bytes |-> {}] ELSE Cleared(Last(free), want)
     IN  holder' = [holder EXCEPT ![h] = [pc |-> "has", want |-> want, buf |-> got]]
  /\ free' = IF free = <<>> THEN free ELSE Front(free)
  /\ UNCHANGED <<bufSize, draining, resizes, overtaken>>

\* The session receives packets into it
Fill(h) ==
  /\ holder[h].pc = "has"
  /\ holder' = [holder EXCEPT ![h].buf.bytes = @ \cup {h}]
  /\ UNCHANGED <<bufSize, free, draining, resizes, overtaken>>

\* release; beyond the capacity the buffer is dropped
Release(h) ==
  /\ holder[h].pc = "has"
  /\ free' = IF Len(free) < Capacity THEN Append(free, holder[h].buf) ELSE free
  /\ holder' = [holder EXCEPT ![h] = NoHolder]
  /\ UNCHANGED <<bufSize, draining, resizes, overtaken>>

\* A session that fails drops its buffer
Abandon(h) ==
  /\ holder[h].pc = "has"
  /\ holder' = [holder EXCEPT ![h] = NoHolder]
  /\ UNCHANGED <<bufSize, free, draining, resizes, overtaken>>

\* update_buf_size, of several reloads at once
StoreSize(size) ==
  /\ resizes < MaxResizes /\ resizes' = resizes + 1
  /\ bufSize' = size /\ draining' = draining + 1
  /\ overtaken' = overtaken \cup {h \in Holders : holder[h].pc # "none"}
  /\ UNCHANGED <<free, holder>>

Drain ==
  /\ draining > 0 /\ draining' = draining - 1 /\ free' = <<>>
  /\ UNCHANGED <<bufSize, holder, resizes, overtaken>>

PoolNext ==
  \/ \E h \in Holders : LoadSize(h) \/ TakeBuffer(h) \/ Fill(h) \/ Release(h) \/ Abandon(h)
  \/ \E size \in BufSizes : StoreSize(size)
  \/ Drain

-----------------------------------------------------------------------------
\* No session finds bytes of another one in its buffer, also in one of an old
\* size that was returned after the queue was cleared.
OwnBytesOnly == \A h \in Holders : holder[h].buf.bytes \subseteq {h}

\* A session gets a buffer of the size that is in force, whatever sizes lie in
\* the queue, unless a resize overtook it.
SizeInForce ==
  \A h \in Holders \ overtaken : holder[h].pc = "has" => holder[h].buf.size = bufSize

PoolIsSound == OwnBytesOnly /\ SizeInForce
=============================================================================
