------------------------------- MODULE Upload -------------------------------
(***************************************************************************)
(* em_upload.c: records collected in a ring (em_ringbuf.c) and posted to a *)
(* server, all that are queued in one request.  One thread collects, one   *)
(* sends.  The code says "lock" and "unlock" where it takes no mutex (101, *)
(* 103, 169); here the callers hold one in every call, except during the   *)
(* network request of a sendbuf: add_uldata may fall into it, and          *)
(* num_sendbuf is read again behind it.                                    *)
(***************************************************************************)
EXTENDS RingBuf, Buf

CONSTANTS MaxRecords,           \* bound: records made
          uldata_buf_capacity,
          Lengths               \* the lengths of what is appended

Record == 1 .. MaxRecords

VARIABLES
  num_sendbuf,
  sendbuf,    \* the slots the last requests were made of, Wild where never written
  buf,        \* the buffer of the record in each slot
  collector,  \* what the collecting thread is about to do
  sender,     \* what the sending thread is about to do
  parts,      \* the records of the request under way
  made,       \* history: the records made so far are 1 .. made
  accepted,   \* history: the records the server has got
  late,       \* history: records added during a sendbuf whose request succeeded
  pending     \* history: records added since the last collection

memory == <<num_sendbuf, sendbuf, buf>>
requests == <<sender, parts, accepted, late, pending>>
upload == <<memory, collector, made, requests>>

Wild == -2
Over == "none" \in {collector, sender}  \* a thread has crashed the program or destroyed ul
Free == collector = "idle" /\ ~Over     \* no call of the collecting thread is under way
Queued == {TailSlot(o) : o \in 0 .. num_used - 1}

\* em_upload_init up to the first record (66-82); the slots are uninitialised memory.
Created == /\ num_sendbuf = 0
           /\ sendbuf = [i \in Slots |-> Wild]
           /\ buf = [s \in Slots |-> BufDestroy(BufInit(uldata_buf_capacity))]
           /\ collector = "slot" /\ sender = "idle"
           /\ parts = <<>>
           /\ made = 0 /\ accepted = {} /\ late = {} /\ pending = {}

UploadInit == Init /\ override_mode = "error" /\ Created

----------------------------------------------------------------------------
(* Collecting *)

\* em_upload_append_buf
AppendBuf(length) ==
  /\ Free
  /\ buf' = [buf EXCEPT ![slot] = BufAppend(@, length)]
  /\ UNCHANGED <<vars, num_sendbuf, sendbuf, collector, made, requests>>

\* em_upload_add_uldata: the record goes to the ring, and num_sendbuf, which nobody reads
\* before the call ends (119), counts it ...
AddUldata ==
  /\ Free
  /\ num_sendbuf < num_max
  /\ made < MaxRecords
  /\ Add
  /\ num_sendbuf' = num_sendbuf + 1
  /\ pending' = IF sender # "idle" THEN pending \cup {rawdata[slot]} ELSE pending
  /\ collector' = "slot"
  /\ UNCHANGED <<sendbuf, buf, made, sender, parts, accepted, late>>

\* ... a slot is asked for the next one (also in em_upload_init) ...
NewSlot ==
  /\ collector = "slot"
  /\ GetNew
  /\ collector' = "fill"
  /\ UNCHANGED <<memory, made, requests>>

\* ... which a full ring does not give: em_uldata_init writes to a null pointer ...
NoSlot ==
  /\ collector = "slot"
  /\ num_used >= num_max
  /\ collector' = "none"
  /\ UNCHANGED <<vars, memory, made, requests>>

\* Mutant: only the counters of the record are set, its buffer is taken for allocated.
InitUldata_NoBuffer ==
  /\ collector = "fill"
  /\ Fill(made + 1)
  /\ made' = made + 1
  /\ buf' = [buf EXCEPT ![slot] = BufClear(@)]
  /\ collector' = "idle"
  /\ UNCHANGED <<num_sendbuf, sendbuf, requests>>

\* ... and em_uldata_init makes the next record in it.
InitUldata ==
  /\ collector = "fill"
  /\ Fill(made + 1)
  /\ made' = made + 1
  /\ buf' = [buf EXCEPT ![slot] = BufInit(uldata_buf_capacity)]
  /\ collector' = "idle"
  /\ UNCHANGED <<num_sendbuf, sendbuf, requests>>

----------------------------------------------------------------------------
(* em_upload_sendbuf *)

\* Mutant: the records are taken from the newest.
Collect_Newest ==
  /\ Free /\ sender = "idle"
  /\ sendbuf' = [i \in Slots |-> IF i < num_sendbuf THEN HeadSlot(i) ELSE sendbuf[i]]
  /\ parts' = [i \in 1 .. num_sendbuf |-> rawdata[sendbuf'[i - 1]]]
  /\ sender' = "posting"
  /\ pending' = {}
  /\ UNCHANGED <<vars, num_sendbuf, buf, collector, made, accepted, late>>

\* The loop, and em_upload_multi up to the request.
Collect ==
  /\ Free /\ sender = "idle"
  /\ sendbuf' = [i \in Slots |-> IF i < num_sendbuf THEN TailSlot(i) ELSE sendbuf[i]]
  /\ parts' = [i \in 1 .. num_sendbuf |-> rawdata[sendbuf'[i - 1]]]
  /\ sender' = "posting"
  /\ pending' = {}
  /\ UNCHANGED <<vars, num_sendbuf, buf, collector, made, accepted, late>>

Got == {parts[i] : i \in DOMAIN parts}

Posted ==
  /\ sender = "posting" /\ ~Over
  /\ accepted' = accepted \cup Got
  /\ sender' = "dispose"
  /\ UNCHANGED <<vars, memory, collector, made, parts, late, pending>>

\* The request fails, before the server has got it or after: everything stays queued.
PostFails ==
  /\ sender = "posting" /\ ~Over
  /\ accepted' \in {accepted, accepted \cup Got}
  /\ sender' = "idle"
  /\ parts' = <<>>
  /\ UNCHANGED <<vars, memory, collector, made, late, pending>>

\* num_sendbuf is read again: it counts the records added meanwhile.  Their places in
\* sendbuf hold what an earlier request, or the allocator, has left there.
Disposed == {sendbuf[i] : i \in 0 .. num_sendbuf - 1}

\* em_uldata_destroy of each, and em_ring_delete_taildata of as many.
Dispose ==
  /\ Free /\ sender = "dispose"
  /\ IF num_sendbuf = 0 THEN UNCHANGED vars ELSE Delete(num_sendbuf)
  /\ num_sendbuf' = 0
  /\ buf' = [s \in Slots |-> IF s \in Disposed THEN BufDestroy(buf[s]) ELSE buf[s]]
  /\ late' = late \cup pending
  /\ sender' = "idle"
  /\ parts' = <<>>
  /\ UNCHANGED <<sendbuf, collector, made, accepted, pending>>

\* A wild pointer may as well end the program.
DisposeCrashes ==
  /\ Free /\ sender = "dispose"
  /\ Wild \in Disposed
  /\ sender' = "none"
  /\ UNCHANGED <<vars, memory, collector, made, parts, accepted, late, pending>>

\* em_upload_destroy frees the buffer of the record being made, and no other.
Destroy ==
  /\ Free /\ sender = "idle"
  /\ buf' = [buf EXCEPT ![slot] = BufDestroy(@)]
  /\ collector' = "none"
  /\ UNCHANGED <<vars, num_sendbuf, sendbuf, made, requests>>

----------------------------------------------------------------------------
UploadNext == \/ \E n \in Lengths : AppendBuf(n)
              \/ AddUldata \/ NewSlot \/ NoSlot \/ InitUldata
              \/ Collect \/ Posted \/ PostFails \/ Dispose \/ DisposeCrashes
              \/ Destroy

UploadSpec == UploadInit /\ [][UploadNext]_<<vars, upload>>

----------------------------------------------------------------------------
(* Properties. *)

\* A record that was added is queued or has reached the server, and a request carries
\* queued records oldest first without a gap, whatever requests failed before: only
\* records added during a request that succeeded are lost (155-177).
SentOrQueued ==
  /\ \A r \in 1 .. made - 1 :
       r \in accepted \cup late \cup {rawdata[s] : s \in Queued}
  /\ \A i \in DOMAIN parts : \A r \in 1 .. parts[i] - 1 :
       r \in accepted \cup late \cup {parts[j] : j \in 1 .. i - 1}

\* Each queued record and the one being made have a buffer, and no other record has
\* one, until records added during a request have been disposed of (117, 168-174).
BuffersAccounted ==
  collector = "idle" /\ late = {} =>
    {s \in Slots : buf[s].data} = Queued \cup {slot}
=============================================================================
