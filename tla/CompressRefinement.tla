-------------------------- MODULE CompressRefinement --------------------------
(***************************************************************************)
(* CompressStream implements BlockPipe.  A byte is outside a block while   *)
(* it is in the pending run or in a block that has not been closed; the    *)
(* blocks cut are the ones combinedCRC has taken in; the stream is sealed  *)
(* when the trailer has been written.                                      *)
(***************************************************************************)
EXTENDS CompressStream

Pipe == INSTANCE BlockPipe WITH
          phase   <- mode,
          owed    <- avail_in_expect,
          pending <- OpenBlock \o PendingRun,
          blocks  <- combinedCRC,
          sealed  <- Sealed

(***************************************************************************)
(* Every step of the compressor is a step of the queue or leaves it as it  *)
(* is: blocks partition the input in order, a flush or finish takes just   *)
(* the announced bytes (bzlib.c:320, 327), a flush ends with nothing       *)
(* outside a block, a stream finishes only when sealed.                    *)
(***************************************************************************)
ImplementsPipe == Pipe!Spec
==============================================================================
