-------------------------------- MODULE Buf --------------------------------
(***************************************************************************)
(* em_buf.c: bytes appended to a buffer of fixed capacity.  Of the bytes   *)
(* only their number is kept, of the memory whether it is allocated.       *)
(***************************************************************************)
EXTENDS Naturals

\* em_buf_init over whatever bf held: memory it pointed to is forgotten, not freed.
BufInit(capacity) == [data |-> TRUE, data_size |-> 0, buf_capacity |-> capacity]

\* em_buf_clear, and what _em_curl_init does to the buffer for replies.
BufClear(bf) == [bf EXCEPT !.data_size = 0]

\* em_buf_destroy; the sizes stay.
BufDestroy(bf) == [bf EXCEPT !.data = FALSE]

\* em_buf_append refuses (-1, -2) a buffer without memory and what does not fit.
BufTakes(bf, length) == bf.data /\ bf.data_size + length <= bf.buf_capacity

BufAppend(bf, length) ==
  IF BufTakes(bf, length) THEN [bf EXCEPT !.data_size = @ + length] ELSE bf

\* em_buf_get_remain_size
BufRemain(bf) == bf.buf_capacity - bf.data_size
=============================================================================
