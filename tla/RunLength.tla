------------------------------ MODULE RunLength ------------------------------
(***************************************************************************)
(* The run-length coding bzip2 applies before block sorting ("RLE1"): a    *)
(* run of 1..3 equal bytes is stored as it is, a run of 4..RunMax bytes as *)
(* four copies followed by a byte that counts the rest.  Pair is what the  *)
(* compressor appends for one run; UnRLE is the reading of such a block    *)
(* the decompressor gives it.                                              *)
(***************************************************************************)
EXTENDS Integers, Sequences

(* `n' copies of byte `c'. *)
Run(c, n) == [i \in 1..n |-> c]

(* The bytes add_pair_to_block stores for a run of `len' bytes `ch'. *)
Pair(ch, len) ==
  IF len < 4 THEN Run(ch, len) ELSE <<ch, ch, ch, ch, len - 4>>

(***************************************************************************)
(* One byte of a block as unRLE_obuf_to_output_FAST consumes it: `same'    *)
(* counts the equal bytes seen in a row (state_out_len), and the byte that *)
(* follows four of them repeats the last one that many times.              *)
(***************************************************************************)
UnRLEByte(acc, b) ==
  IF acc.same = 4
  THEN [out |-> acc.out \o Run(acc.ch, b), ch |-> 256, same |-> 0]
  ELSE [out  |-> Append(acc.out, b),
        ch   |-> b,
        same |-> IF b = acc.ch THEN acc.same + 1 ELSE 1]

UnRLEBlock(bytes) ==
  LET after[n \in 0..Len(bytes)] ==
        IF n = 0 THEN [out |-> <<>>, ch |-> 256, same |-> 0]
                 ELSE UnRLEByte(after[n - 1], bytes[n])
  IN  after[Len(bytes)]

(* The bytes a block decodes to. *)
UnRLE(bytes) == UnRLEBlock(bytes).out

(* The block stops after four equal bytes, where a count must follow. *)
EndsBeforeCount(bytes) == UnRLEBlock(bytes).same = 4
==============================================================================
