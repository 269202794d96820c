------------------------------ MODULE BlockPipe ------------------------------
(***************************************************************************)
(* What a compression stream promises, without buffers, bits or calls: a   *)
(* queue that takes bytes in order and cuts them into blocks.  Nothing     *)
(* enters after the input announced for a flush or finish is used up; a    *)
(* flush ends when no byte is left outside a block; a stream is sealed     *)
(* once, with every byte in a block, and is finished only when sealed.     *)
(***************************************************************************)
EXTENDS Integers, Sequences

CONSTANT Symbols

VARIABLES
  phase,    \* "NONE", "RUNNING", "FLUSHING", "FINISHING" or "IDLE"
  owed,     \* bytes the flush or finish in progress has yet to take
  pending,  \* bytes taken that are in no block yet
  blocks,   \* the blocks cut so far, each a sequence of bytes
  sealed    \* the end of the stream has been marked

vars == <<phase, owed, pending, blocks, sealed>>

Closed == /\ phase = "NONE" /\ owed = 0
          /\ pending = <<>> /\ blocks = <<>> /\ sealed = FALSE
Init == Closed

Open == /\ phase = "NONE" /\ phase' = "RUNNING"
        /\ UNCHANGED <<owed, pending, blocks, sealed>>

(* The caller announces some more bytes and asks for a flush or a finish. *)
Announce ==
  /\ phase = "RUNNING" /\ phase' \in {"FLUSHING", "FINISHING"}
  /\ owed' \in Nat
  /\ UNCHANGED <<pending, blocks, sealed>>

Accept(c) ==
  /\ \/ phase = "RUNNING" /\ UNCHANGED owed
     \/ phase \in {"FLUSHING", "FINISHING"} /\ owed > 0 /\ owed' = owed - 1
  /\ ~sealed
  /\ pending' = Append(pending, c)
  /\ UNCHANGED <<phase, blocks, sealed>>

(* The first `n' bytes outside a block become one. *)
Cut(n) ==
  /\ phase \in {"RUNNING", "FLUSHING", "FINISHING"}
  /\ blocks' = Append(blocks, SubSeq(pending, 1, n))
  /\ pending' = SubSeq(pending, n + 1, Len(pending))
  /\ UNCHANGED <<phase, owed, sealed>>

Seal ==
  /\ phase = "FINISHING" /\ owed = 0 /\ ~sealed
  /\ blocks' = IF pending = <<>> THEN blocks ELSE Append(blocks, pending)
  /\ pending' = <<>>
  /\ sealed' = TRUE
  /\ UNCHANGED <<phase, owed>>

FlushEnd ==
  /\ phase = "FLUSHING" /\ owed = 0 /\ pending = <<>>
  /\ phase' = "RUNNING"
  /\ UNCHANGED <<owed, pending, blocks, sealed>>

FinishEnd ==
  /\ phase = "FINISHING" /\ sealed
  /\ phase' = "IDLE"
  /\ UNCHANGED <<owed, pending, blocks, sealed>>

(* The caller drops the stream, finished or not. *)
Drop == phase # "NONE" /\ Closed'

Next == \/ Open
        \/ Announce
        \/ \E c \in Symbols : Accept(c)
        \/ \E n \in 1..Len(pending) : Cut(n)
        \/ Seal \/ FlushEnd \/ FinishEnd \/ Drop

Spec == Init /\ [][Next]_vars
==============================================================================
