-------------------------------- MODULE Http --------------------------------
(***************************************************************************)
(* The HTTP client, src/src/http.rs: one call of req, which returns the    *)
(* whole body, or of req_buffered, which hands it to a callback piece by   *)
(* piece.  Both follow redirections.  Sending a request and reading from   *)
(* the connection are the library's (reqwless).                            *)
(*                                                                         *)
(* BUFFERS is a mutex that a call holds from its start to its end; the     *)
(* program makes one call at a time.                                       *)
(***************************************************************************)
EXTENDS Naturals, Sequences

CONSTANTS
  Urls,
  Bytes,
  Bodies,         \* what servers have: sequences of bytes
  None,
  TooLong,        \* any URL that to_url_string refuses
  BufferSize,     \* what the headers leave of the response buffer
  MaxRespLen,     \* MAX_RESP_LEN of req, 20 for the build date
  DefaultLength,  \* content_length when the server gives none, 20 MiB
  Limit           \* bytes the callback takes: the size of a partition

Errors ==
  {"Reqwless", "ResponseTooLarge", "RequestMissingLocation", "UrlTooLong",
   "BadStatus", "Callback"}

ASSUME HttpAssumption ==
  /\ None \notin Urls
  /\ TooLong \notin Urls
  /\ None # TooLong
  /\ None \notin Errors \cup {"Ok", "panic"}
  /\ Bodies \subseteq Seq(Bytes)
  /\ BufferSize \in Nat \ {0}
  /\ MaxRespLen \in Nat
  /\ DefaultLength \in Nat
  /\ Limit \in Nat

(***************************************************************************)
(* A partition and one buffer are together smaller than 20 MiB.            *)
(***************************************************************************)
ASSUME LimitAssumption == Limit + BufferSize <= DefaultLength

VARIABLES
  site,    \* the servers' answer to each URL
  asked,   \* the URL passed to the call
  call,    \* "req" or "req_buffered"
  pc,
  url,     \* the URL requested now
  from,    \* the URL whose body is being read, None before
  tot,     \* bytes counted by req_buffered
  pos,     \* bytes consumed from the reader
  out,     \* the bytes the caller got
  result   \* of the call

vars == <<site, asked, call, pc, url, from, tot, pos, out, result>>

(***************************************************************************)
(* What the caller sees of the result.                                     *)
(***************************************************************************)
Outcome ==
  IF result = None THEN "pending"
                   ELSE IF result = "Ok" THEN "ok" ELSE "error"

Fetched == INSTANCE Fetch WITH outcome <- Outcome

-----------------------------------------------------------------------------
Init ==
  /\ site \in [Urls -> Fetched!Answers]
  /\ asked \in Urls \cup {TooLong}
  /\ call \in {"req", "req_buffered"}
  /\ pc = "call"
  /\ url = asked
  /\ from = None
  /\ tot = 0
  /\ pos = 0
  /\ out = << >>
  /\ result = None

Return(r) == pc' = "done" /\ result' = r

Continue(where) == pc' = where /\ UNCHANGED result

(***************************************************************************)
(* to_url_string copies the URL, unless it is too long or not UTF-8.       *)
(***************************************************************************)
Call ==
  /\ pc = "call"
  /\ IF url = TooLong THEN Return("UrlTooLong") ELSE Continue("send")
  /\ UNCHANGED <<site, asked, call, url, from, tot, pos, out>>

(***************************************************************************)
(* The name does not resolve, the connection fails, the answer's headers   *)
(* do not fit the buffer.                                                  *)
(***************************************************************************)
RequestFails ==
  /\ pc = "send"
  /\ Return("Reqwless")
  /\ UNCHANGED <<site, asked, call, url, from, tot, pos, out>>

Succeeds ==
  /\ pc = "send"
  /\ site[url].kind = "success"
  /\ Continue("body")
  /\ from' = url
  /\ UNCHANGED <<site, asked, call, url, tot, pos, out>>

FailsWithStatus ==
  /\ pc = "send"
  /\ site[url].kind = "bad"
  /\ Return("BadStatus")
  /\ UNCHANGED <<site, asked, call, url, from, tot, pos, out>>

FollowMutant(location) == Continue("send") /\ url' = location

ForgetMutant(location) == Continue("send") /\ UNCHANGED url

Follow(location) ==
  \/ /\ location \in Urls
     /\ Continue("send")
     /\ url' = location
  \/ /\ location = TooLong
     /\ Return("UrlTooLong")
     /\ UNCHANGED url
  \/ /\ location = None
     /\ Return("RequestMissingLocation")
     /\ UNCHANGED url

Redirects ==
  /\ pc = "send"
  /\ site[url].kind = "redirection"
  /\ Follow(site[url].location)
  /\ UNCHANGED <<site, asked, call, from, tot, pos, out>>

-----------------------------------------------------------------------------
(***************************************************************************)
(* The body.  A reader notices a lost connection unless closing it is how  *)
(* the server marks the end of the body.                                   *)
(***************************************************************************)
Body == site[from].body

Ends(n) == n = Len(Body) \/ site[from].framing = "close"

BodyFails ==
  /\ pc = "body"
  /\ Return("Reqwless")
  /\ UNCHANGED <<site, asked, call, url, from, tot, pos, out>>

(***************************************************************************)
(* req: read_to_end into the buffer, then copy what fits MAX_RESP_LEN.     *)
(***************************************************************************)
ReadToEnd(n) ==
  /\ pc = "body" /\ call = "req"
  /\ n \in 0 .. Len(Body)
  /\ Ends(n)
  /\ pos' = n
  /\ \/ /\ n > BufferSize
        /\ Return("Reqwless")
        /\ UNCHANGED out
     \/ /\ n <= BufferSize /\ n > MaxRespLen
        /\ Return("ResponseTooLarge")
        /\ UNCHANGED out
     \/ /\ n <= BufferSize /\ n <= MaxRespLen
        /\ Return("Ok")
        /\ out' = SubSeq(Body, 1, n)
  /\ UNCHANGED <<site, asked, call, url, from, tot>>

(***************************************************************************)
(* req_buffered: fill_buf returned n bytes.  A callback may fail for other *)
(* reasons than the size, such as a flash error.                           *)
(***************************************************************************)
ContentLength ==
  IF site[from].framing = "length" THEN Len(Body) ELSE DefaultLength

TooMuchMutant(n) == n >= ContentLength

TooMuch(n) == n > ContentLength

ConsumeMutant(n) == UNCHANGED pos

Consume(n) == pos' = pos + n

FillBuf(n) ==
  /\ pc = "body" /\ call = "req_buffered"
  /\ n \in 1 .. BufferSize
  /\ pos + n <= Len(Body)
  /\ tot' = tot + n
  /\ IF TooMuch(tot + n)
     THEN Return("panic") /\ UNCHANGED <<pos, out>>
     ELSE \/ Return("Callback") /\ UNCHANGED <<pos, out>>
          \/ /\ tot + n <= Limit
             /\ out' = out \o SubSeq(Body, pos + 1, pos + n)
             /\ Consume(n)
             /\ Continue("body")
  /\ UNCHANGED <<site, asked, call, url, from>>

EndOfBody ==
  /\ pc = "body" /\ call = "req_buffered"
  /\ Ends(pos)
  /\ Return("Ok")
  /\ UNCHANGED <<site, asked, call, url, from, tot, pos, out>>

Done == pc = "done" /\ UNCHANGED vars

-----------------------------------------------------------------------------
Reads ==
  \/ \E n \in 0 .. Len(Body) : ReadToEnd(n)
  \/ \E n \in 1 .. BufferSize : FillBuf(n)

Step ==
  \/ Call
  \/ Succeeds
  \/ FailsWithStatus
  \/ Redirects
  \/ pc = "body" /\ Reads
  \/ EndOfBody

Faults == RequestFails \/ BodyFails

Next == Step \/ Faults \/ Done

Spec == Init /\ [][Next]_vars

(***************************************************************************)
(* Fairness: the executor polls the call, and the servers answer.  http.rs *)
(* sets no timeout: a server that stays silent on an open connection is    *)
(* outside this specification.                                             *)
(***************************************************************************)
FairSpec == Spec /\ WF_vars(Step)

-----------------------------------------------------------------------------
(***************************************************************************)
(* Every variable keeps its type; in particular no request is sent to a    *)
(* URL that to_url_string did not accept.                                  *)
(***************************************************************************)
TypeOK ==
  /\ site \in [Urls -> Fetched!Answers]
  /\ asked \in Urls \cup {TooLong}
  /\ call \in {"req", "req_buffered"}
  /\ pc \in {"call", "send", "body", "done"}
  /\ url \in Urls \cup {TooLong}
  /\ url = TooLong => pc \in {"call", "done"}
  /\ from \in Urls \cup {None}
  /\ tot \in Nat
  /\ pos \in Nat
  /\ result \in Errors \cup {"Ok", "panic", None}

(***************************************************************************)
(* req_buffered never panics on having "downloaded more than the content   *)
(* length", whether the server gave one or the default of 20 MiB stands    *)
(* for it: the callback refuses the bytes long before that.                *)
(***************************************************************************)
NoPanic == result # "panic"

(***************************************************************************)
(* The client implements Fetch: however the body is cut into pieces and    *)
(* whatever the redirects, the caller gets a prefix of the right body, and *)
(* Ok only with the whole of it, or when a server that closes the          *)
(* connection to end the body was cut off.                                 *)
(***************************************************************************)
ImplementsFetch == Fetched!Spec

Circular ==
  /\ asked \in Urls
  /\ \A u \in Fetched!Chain : /\ site[u].kind = "redirection"
                              /\ site[u].location \in Urls

(***************************************************************************)
(* The call returns unless every URL that the redirects lead to redirects  *)
(* to another: there is no limit on their number, so servers that send it  *)
(* in a circle keep it for ever, and with it BUFFERS and the start of the  *)
(* device.                                                                 *)
(***************************************************************************)
Terminates == <>(result # None) \/ []Circular

=============================================================================
