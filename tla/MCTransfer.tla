----------------------------- MODULE MCTransfer -----------------------------
(***************************************************************************)
(* Instances of MemMng, RingBuf, Upload, Http and Ether for TLC: the heap  *)
(* and what carries data away.  Upload uses the ring of RingBuf, the       *)
(* others share no state with it: part says which of them runs in a        *)
(* behaviour, so that their state spaces add up.                           *)
(***************************************************************************)
EXTENDS Upload

CONSTANTS Headers, MaxHeaders, MaxRequests, buf_size, BlockSizes,
          Tcp, Listening, Udp, Workers, NumDescriptors,
          Threads, mem_unit_size, mem_block_num, alloc_max_num, Sizes, Timeouts,
          MaxUsed, Beyond, NoThread

VARIABLES
  part,
  curl, handles, forms, header_slist, arg_slist, reply, bytes, method, performed, answer,
  data_size, succeeded, failed, crashed,
  descriptor, sock, connected, owner, user, torn, leaked,
  mm, mutex, cond_mutex, sleepers, pc, req, held, misfit, lost

httpc == <<curl, handles, forms, header_slist, arg_slist, reply, bytes, method, performed,
           answer, data_size, succeeded, failed, crashed>>
ether == <<descriptor, sock, connected, owner, user, torn, leaked>>
heap == <<mm, mutex, cond_mutex, sleepers, pc, req, held, misfit, lost>>

Httpc == INSTANCE Http
Sockets == INSTANCE Ether
Heap == INSTANCE MCMemMng

\* Sizes and numbers are not negative; a socket is of TCP or of UDP, and nobody is no socket;
\* a heap has units, a unit bytes and a pool records, and nobody is no thread.
ASSUME TransferAssumption == /\ buf_size \in Nat /\ BlockSizes \subseteq Nat
                             /\ MaxRequests \in Nat /\ MaxRecords \in Nat
                             /\ Lengths \subseteq Nat /\ uldata_buf_capacity \in Nat
                             /\ NumDescriptors \in Nat
                             /\ Tcp \cap Udp = {} /\ Sockets!Nobody \notin Sockets!Sockets
                             /\ mem_unit_size \in Nat \ {0} /\ mem_block_num \in Nat \ {0}
                             /\ alloc_max_num \in Nat \ {0} /\ Sizes \subseteq Nat
                             /\ Timeouts \subseteq {"no_wait", "timed", "no_timeout"}
                             /\ MaxUsed \in Nat /\ Beyond \in BOOLEAN
                             /\ NoThread \notin Threads

MCInit == /\ part \in {"ring", "upload", "http", "ether", "heap"}
          /\ Init /\ Created /\ Httpc!Init /\ Sockets!Init /\ Heap!Init
          /\ part # "ring" => override_mode = "error"

\* The program of a part can crash or end.
Ended == \/ part = "upload" /\ Over
         \/ part = "http" /\ crashed

MCNext ==
  /\ UNCHANGED part
  /\ \/ part = "ring" /\ Next /\ UNCHANGED <<upload, httpc, ether, heap>>
     \/ part = "upload" /\ UploadNext /\ UNCHANGED <<httpc, ether, heap>>
     \/ part = "http" /\ Httpc!Next /\ UNCHANGED <<vars, upload, ether, heap>>
     \/ part = "ether" /\ Sockets!Next /\ UNCHANGED <<vars, upload, httpc, heap>>
     \/ part = "heap" /\ (Heap!Next \/ Heap!Quiet) /\ UNCHANGED <<vars, upload, httpc, ether>>
     \/ Ended /\ UNCHANGED <<vars, upload, httpc, ether, heap>>

MCSpec == MCInit /\ [][MCNext]_<<part, vars, upload, httpc, ether, heap>>

\* Of the heap only what it reads again, and nothing where it does not run.
View == <<part, vars, upload, httpc, ether, IF part = "heap" THEN Heap!HeapView ELSE <<>>>>
Symmetry == Heap!Symmetry

\* A ring is read in the order it was written, from either end.
ReadsInOrder == NewestFirst /\ OldestFirst

ReplyIsOwn == part = "http" => Httpc!ReplyIsOwn
OwnDescriptor == part = "ether" => Sockets!OwnDescriptor
HeapSound == part = "heap" => Heap!HeapSound
SleepersCannotBeServed == part = "heap" => Heap!SleepersCannotBeServed

\* The buffers of an upload, the handles of libcurl and the descriptors of the kernel
\* that exist are those in use and those the code is known to leave behind.
ResourcesAccounted ==
  /\ part = "upload" => BuffersAccounted
  /\ part = "http" => Httpc!HandlesAccounted
  /\ part = "ether" => Sockets!DescriptorsAccounted
=============================================================================
