-------------------------------- MODULE Http --------------------------------
(***************************************************************************)
(* em_httpc.c: requests made one after the other through libcurl, with a   *)
(* list of common headers and one buffer for the replies.  Each request    *)
(* makes a handle of libcurl; hc->curl points to the last one made, which  *)
(* is cleaned up only when its request succeeds.  One thread uses hc.      *)
(***************************************************************************)
EXTENDS Buf, Sequences

CONSTANTS Headers,      \* what may be put on a list of headers
          MaxHeaders,   \* bound: headers on a list
          MaxRequests,  \* bound: requests made
          buf_size,
          BlockSizes    \* the sizes of the blocks in which a reply arrives

Handles == 1 .. MaxRequests  \* the requests are numbered, and so are their handles
Methods == {"get", "post", "multipart"}
None == 0

VARIABLES
  curl,         \* hc->curl, None if it was never set
  handles,      \* the handles of libcurl that exist
  forms,        \* those with a form
  header_slist, \* hc->header_slist, <<>> for NULL
  arg_slist,    \* the header_slist of an em_httphdr_t of the caller's
  reply,        \* hc->buf
  bytes,        \* what is in its memory: the request each byte came with
  method,       \* of the request under way, "none" between the requests
  performed,    \* the headers that request is performed with
  answer,       \* the number of bytes the server has sent for it
  data_size,    \* response->data_size, as the caller was last given it
  succeeded,    \* history: the last request succeeded
  failed,       \* history: the requests that failed, and those that had a form
  crashed       \* libcurl was given a handle that does not exist, and it mattered

headers == <<header_slist, arg_slist>>
buffer == <<reply, bytes>>
request == <<method, performed, answer, data_size, succeeded>>
vars == <<curl, handles, forms, headers, buffer, request, failed, crashed>>

\* em_httpc_init, em_httphdr_init
Init == /\ curl = None /\ handles = {} /\ forms = {}
        /\ header_slist = <<>> /\ arg_slist = <<>>
        /\ reply = BufInit(buf_size) /\ bytes = <<>>
        /\ method = "none" /\ performed = <<>> /\ answer = 0
        /\ data_size = 0 /\ succeeded = FALSE
        /\ failed = [requests |-> {}, forms |-> {}]
        /\ crashed = FALSE

Ready == method = "none" /\ ~crashed

----------------------------------------------------------------------------
(* Headers *)

\* curl_easy_setopt on hc->curl between two requests: no request will use that handle.
\* If it was never set, or is cleaned up, libcurl writes to memory it does not own.
SetOption == crashed' \in {FALSE, curl \notin handles}

\* em_httpc_setopt; an option it does not know is ignored.
Setopt == /\ Ready /\ SetOption
          /\ UNCHANGED <<curl, handles, forms, headers, buffer, request, failed>>

\* em_httpc_add_header
AddHeader(h) ==
  /\ Ready /\ Len(header_slist) < MaxHeaders
  /\ header_slist' = Append(header_slist, h)
  /\ SetOption
  /\ UNCHANGED <<curl, handles, forms, arg_slist, buffer, request, failed>>

\* em_httpc_reset_header
ResetHeader ==
  /\ Ready
  /\ header_slist' = <<>>
  /\ UNCHANGED <<curl, handles, forms, arg_slist, buffer, request, failed, crashed>>

\* em_httphdr_add_header; em_httphdr_destroy, and em_httphdr_init for the next use.
AddToArgument(h) ==
  /\ Ready /\ Len(arg_slist) < MaxHeaders
  /\ arg_slist' = Append(arg_slist, h)
  /\ UNCHANGED <<curl, handles, forms, header_slist, buffer, request, failed, crashed>>

ResetArgument ==
  /\ Ready
  /\ arg_slist' = <<>>
  /\ UNCHANGED <<curl, handles, forms, header_slist, buffer, request, failed, crashed>>

----------------------------------------------------------------------------
(* Requests *)

\* Mutant: the size of the reply before is kept.
CurlInit_SizeKept == reply' = reply

\* _em_curl_init: the replies go to hc->buf from its beginning.
CurlInit == reply' = BufClear(reply)

\* The headers of a request: those of its argument, else the common ones.  A multipart
\* post looks at neither.
Performed(m, with_argument) ==
  IF m = "multipart" THEN <<>> ELSE IF with_argument THEN arg_slist ELSE header_slist

\* A multipart post makes a form for its handle.
Form(m) == IF m = "multipart" THEN {curl + 1} ELSE {}

\* em_httpc_get, em_httpc_post, em_httpc_post_multipart up to curl_easy_perform.  A get
\* without a response and a post without data are refused before (115, 151).
Start(m, with_argument) ==
  /\ Ready /\ curl < MaxRequests
  /\ curl' = curl + 1
  /\ handles' = handles \cup {curl'}
  /\ forms' = forms \cup Form(m)
  /\ CurlInit
  /\ performed' = Performed(m, with_argument)
  /\ method' = m
  /\ answer' = 0
  /\ succeeded' = FALSE
  /\ UNCHANGED <<headers, bytes, data_size, failed, crashed>>

\* _em_buffer_writer takes a block behind what it has.
Receive(n) ==
  /\ method # "none"
  /\ BufTakes(reply, n)
  /\ reply' = BufAppend(reply, n)
  /\ bytes' = [i \in 1 .. buf_size |->
                 IF i > reply.data_size /\ i <= reply.data_size + n THEN curl
                 ELSE IF i \in DOMAIN bytes THEN bytes[i] ELSE None]
  /\ answer' = answer + n
  /\ UNCHANGED <<curl, handles, forms, headers, method, performed, data_size, succeeded,
                 failed, crashed>>

\* The caller is given what is in the buffer.
Respond == data_size' = reply.data_size /\ succeeded' = TRUE

\* Mutant: the form is freed, the handle is not.
Succeed_HandleKept ==
  /\ method # "none"
  /\ Respond
  /\ forms' = forms \ {curl}
  /\ method' = "none"
  /\ UNCHANGED <<curl, handles, headers, buffer, performed, answer, failed, crashed>>

\* The whole reply has come.
Succeed ==
  /\ method # "none"
  /\ Respond
  /\ forms' = forms \ {curl}
  /\ handles' = handles \ {curl}
  /\ method' = "none"
  /\ UNCHANGED <<curl, headers, buffer, performed, answer, failed, crashed>>

\* No connection, a time limit, or a block that does not fit: the writer asks for a
\* pause, which nobody ends before CURLOPT_TIMEOUT.
Fail ==
  /\ method # "none"
  /\ method' = "none"
  /\ failed' = [requests |-> failed.requests \cup {curl},
                forms |-> IF method = "multipart" THEN failed.forms \cup {curl} ELSE failed.forms]
  /\ UNCHANGED <<curl, handles, forms, headers, buffer, performed, answer, data_size,
                 succeeded, crashed>>

\* em_httpc_destroy gives up the common headers and the buffer, and with it the reply the
\* caller was given; em_httpc_init makes new ones.  Neither looks at hc->curl.
Recreate ==
  /\ Ready
  /\ header_slist' = <<>>
  /\ reply' = BufInit(buf_size) /\ bytes' = <<>>
  /\ succeeded' = FALSE
  /\ UNCHANGED <<curl, handles, forms, arg_slist, method, performed, answer, data_size,
                 failed, crashed>>

----------------------------------------------------------------------------
Next == \/ Recreate
        \/ \E h \in Headers : AddHeader(h) \/ AddToArgument(h)
        \/ Setopt \/ ResetHeader \/ ResetArgument
        \/ \E m \in Methods, a \in BOOLEAN : Start(m, a)
        \/ \E n \in BlockSizes : Receive(n)
        \/ Succeed \/ Fail

Spec == Init /\ [][Next]_vars

----------------------------------------------------------------------------
(* Properties. *)

\* The caller of a request that succeeded is given exactly the bytes the server sent
\* for it, however earlier requests ended, until the next one reuses the buffer (55, 141).
ReplyIsOwn ==
  succeeded => /\ data_size = answer /\ data_size <= buf_size
               /\ \A i \in 1 .. data_size : bytes[i] = curl

\* The handles and forms that exist are those of the request under way and those that
\* failed requests left behind, one each (134-144, 235-248).
HandlesAccounted ==
  LET current == IF method = "none" THEN {} ELSE {curl}
  IN /\ handles = failed.requests \cup current
     /\ forms = failed.forms \cup (IF method = "multipart" THEN {curl} ELSE {})
=============================================================================
