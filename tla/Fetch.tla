------------------------------- MODULE Fetch --------------------------------
(***************************************************************************)
(* What a caller of the HTTP client (src/src/http.rs) relies on: the bytes *)
(* it gets are a prefix of one body, the one at the end of the redirects   *)
(* that start at the URL it asked for, and success means the whole body,   *)
(* unless the server ends it by closing the connection, which looks the    *)
(* same as losing the connection.                                          *)
(***************************************************************************)
EXTENDS Naturals, Sequences

CONSTANTS
  Urls,
  Bodies,   \* sequences of bytes
  None,
  TooLong   \* any URL that to_url_string refuses

Framings == {"length", "chunked", "close"}

(***************************************************************************)
(* What a server answers to a URL: a body and how its end is marked        *)
(* (Content-Length, chunks, closing the connection), a redirection with    *)
(* the URL in its Location header, None if it lacks that, or any other     *)
(* status.                                                                 *)
(***************************************************************************)
Success == [kind : {"success"}, body : Bodies, framing : Framings]
Redirection == [kind : {"redirection"}, location : Urls \cup {TooLong, None}]
BadStatus == [kind : {"bad"}]
Answers == Success \cup Redirection \cup BadStatus

VARIABLES
  site,     \* the answer to each URL
  asked,    \* the URL the caller asked for
  out,      \* the bytes the caller got
  from,     \* the URL whose body they are, None before the answer
  outcome   \* of the call

fetchVars == <<site, asked, out, from, outcome>>

-----------------------------------------------------------------------------
(***************************************************************************)
(* The URLs that redirects lead to: the least set that holds the URL asked *)
(* for and the location of every redirection in it.                        *)
(***************************************************************************)
ClosedUnderRedirects(S) ==
  \A u \in S : site[u].kind = "redirection" =>
                 site[u].location \in S \cup {TooLong, None}

Chain == {u \in Urls : \A S \in SUBSET Urls :
                         asked \in S /\ ClosedUnderRedirects(S) => u \in S}

Init ==
  /\ site \in [Urls -> Answers]
  /\ asked \in Urls \cup {TooLong}
  /\ out = << >>
  /\ from = None
  /\ outcome = "pending"

Answer(u) ==
  /\ outcome = "pending"
  /\ from = None
  /\ u \in Chain
  /\ site[u].kind = "success"
  /\ from' = u
  /\ UNCHANGED <<site, asked, out, outcome>>

Body == site[from].body

Receive(n) ==
  /\ outcome = "pending"
  /\ from # None
  /\ n \in Len(out) .. Len(Body)
  /\ out' = SubSeq(Body, 1, n)
  /\ UNCHANGED <<site, asked, from, outcome>>

Succeed(n) ==
  /\ outcome = "pending"
  /\ from # None
  /\ n \in Len(out) .. Len(Body)
  /\ n = Len(Body) \/ site[from].framing = "close"
  /\ out' = SubSeq(Body, 1, n)
  /\ outcome' = "ok"
  /\ UNCHANGED <<site, asked, from>>

Fail ==
  /\ outcome = "pending"
  /\ outcome' = "error"
  /\ UNCHANGED <<site, asked, out, from>>

Next ==
  \/ \E u \in Urls : Answer(u)
  \/ \E n \in 0 .. (IF from = None THEN 0 ELSE Len(Body)) :
       Receive(n) \/ Succeed(n)
  \/ Fail

Spec == Init /\ [][Next]_fetchVars

=============================================================================
