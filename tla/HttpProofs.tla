----------------------------- MODULE HttpProofs -----------------------------
(***************************************************************************)
(* Proofs about Http, for any servers, bodies and buffer sizes: the client *)
(* keeps its types, never panics and implements Fetch.                     *)
(***************************************************************************)
EXTENDS Http, SequenceTheorems, TLAPS

(***************************************************************************)
(* The inductive invariant.  Before the answer nothing was read, and the   *)
(* URL requested is one that the redirects lead to; while the body is read *)
(* the count of req_buffered, the position of the reader and the bytes     *)
(* handed over agree, and the callback has taken them all.                 *)
(***************************************************************************)
Waiting ==
  pc \in {"call", "send"} =>
    from = None /\ tot = 0 /\ pos = 0 /\ out = << >>

OnChain == url \in Urls => url \in Fetched!Chain

Reading ==
  pc = "body" =>
    /\ from \in Fetched!Chain
    /\ site[from].kind = "success"
    /\ tot = pos
    /\ tot <= Limit
    /\ call = "req" => pos = 0
    /\ pos <= Len(Body)
    /\ out = SubSeq(Body, 1, pos)

Inv ==
  /\ TypeOK
  /\ pc = "done" <=> result # None
  /\ Waiting
  /\ OnChain
  /\ Reading
  /\ NoPanic

-----------------------------------------------------------------------------
(***************************************************************************)
(* The URL asked for starts the chain of redirects.                        *)
(***************************************************************************)
LEMMA ChainStarts == asked \in Urls => asked \in Fetched!Chain
  BY DEF Fetched!Chain

(***************************************************************************)
(* A redirection leads from one URL of the chain to another.               *)
(***************************************************************************)
LEMMA ChainContinues ==
  ASSUME NEW u \in Fetched!Chain, site[u].kind = "redirection",
         site[u].location \in Urls
  PROVE  site[u].location \in Fetched!Chain
  <1> DEFINE v == site[u].location
  <1> SUFFICES ASSUME NEW S \in SUBSET Urls, asked \in S,
                      Fetched!ClosedUnderRedirects(S)
               PROVE  v \in S
    BY DEF Fetched!Chain
  <1>1. u \in S
    BY DEF Fetched!Chain
  <1>2. v \in S \cup {TooLong, None}
    BY <1>1 DEF Fetched!ClosedUnderRedirects
  <1> QED
    BY <1>2, HttpAssumption

(***************************************************************************)
(* A body is a sequence, and the answer of success has one.                *)
(***************************************************************************)
LEMMA BodyIsSeq ==
  ASSUME TypeOK, from \in Urls, site[from].kind = "success"
  PROVE  Body \in Seq(Bytes) /\ Len(Body) \in Nat
  <1>1. site[from] \in Fetched!Answers
    BY DEF TypeOK
  <1>2. site[from] \in Fetched!Success
    BY <1>1 DEF Fetched!Answers, Fetched!Redirection, Fetched!BadStatus
  <1>3. Body \in Bodies
    BY <1>2 DEF Fetched!Success, Body
  <1> QED
    BY <1>3, HttpAssumption

(***************************************************************************)
(* A prefix and the bytes that follow it are a longer prefix.              *)
(***************************************************************************)
LEMMA PrefixGrows ==
  ASSUME NEW s \in Seq(Bytes), NEW p \in Nat, NEW n \in Nat, p + n <= Len(s)
  PROVE  SubSeq(s, 1, p) \o SubSeq(s, p + 1, p + n) = SubSeq(s, 1, p + n)
  <1>1. 1 \in 1 .. p + 1 /\ p \in 1 - 1 .. p + n /\ p + n \in p .. Len(s)
    OBVIOUS
  <1> QED
    BY <1>1, ConcatAdjacentSubSeq

(***************************************************************************)
(* The length of a prefix.                                                 *)
(***************************************************************************)
LEMMA PrefixLen ==
  ASSUME NEW s \in Seq(Bytes), NEW p \in Nat, p <= Len(s)
  PROVE  Len(SubSeq(s, 1, p)) = p
  OBVIOUS

-----------------------------------------------------------------------------
(***************************************************************************)
(* The invariant holds when the call starts.                               *)
(***************************************************************************)
LEMMA InvInit == Init => Inv
  <1> SUFFICES ASSUME Init
               PROVE  Inv
    OBVIOUS
  <1> USE HttpAssumption DEF Init
  <1>1. TypeOK
    BY DEF TypeOK
  <1>2. OnChain
    BY ChainStarts DEF OnChain
  <1> QED
    BY <1>1, <1>2 DEF Inv, Waiting, Reading, NoPanic

(***************************************************************************)
(* No step moves the chain of redirects.                                   *)
(***************************************************************************)
LEMMA ChainFixed ==
  ASSUME UNCHANGED <<site, asked>>
  PROVE  Fetched!Chain' = Fetched!Chain
  BY DEF Fetched!Chain, Fetched!ClosedUnderRedirects

(***************************************************************************)
(* A return leaves everything but the counters alone: nothing to show for  *)
(* the body any more.                                                      *)
(***************************************************************************)
LEMMA ReturnKeepsInv ==
  ASSUME Inv, NEW r \in Errors \cup {"Ok"}, Return(r),
         UNCHANGED <<site, asked, call, url, from>>,
         tot' \in Nat, pos' \in Nat
  PROVE  Inv'
  <1> USE DEF Return, Inv
  <1>1. TypeOK'
    BY DEF TypeOK
  <1>2. OnChain'
    BY ChainFixed DEF OnChain
  <1>3. pc' = "done" <=> result' # None
    BY HttpAssumption
  <1>4. NoPanic'
    BY DEF NoPanic, Errors
  <1> QED
    BY <1>1, <1>2, <1>3, <1>4 DEF Waiting, Reading

(***************************************************************************)
(* Every step keeps the invariant.                                         *)
(***************************************************************************)
LEMMA InvNext == Inv /\ [Next]_vars => Inv'
  <1> SUFFICES ASSUME Inv, [Next]_vars
               PROVE  Inv'
    OBVIOUS
  <1> USE HttpAssumption
  <1>0. TypeOK /\ tot \in Nat /\ pos \in Nat
    BY DEF Inv, TypeOK
  <1>1. CASE Call
    <2>1. CASE url = TooLong
      BY <1>0, <1>1, <2>1, ReturnKeepsInv DEF Call, Errors
    <2>2. CASE url # TooLong
      <3> USE <1>1, <2>2 DEF Call, Continue, Inv
      <3>1. TypeOK'
        BY DEF TypeOK
      <3>2. OnChain'
        BY ChainFixed DEF OnChain
      <3> QED
        BY <3>1, <3>2 DEF Waiting, Reading, NoPanic
    <2> QED
      BY <2>1, <2>2
  <1>2. CASE RequestFails \/ BodyFails \/ FailsWithStatus
    BY <1>0, <1>2, ReturnKeepsInv
       DEF RequestFails, BodyFails, FailsWithStatus, Errors
  <1>3. CASE Succeeds
    <2> USE <1>3 DEF Succeeds, Continue, Inv
    <2>1. url \in Urls
      BY DEF TypeOK
    <2>2. TypeOK'
      BY <2>1 DEF TypeOK
    <2>3. OnChain'
      BY ChainFixed DEF OnChain
    <2>4. from' \in Fetched!Chain' /\ site'[from'].kind = "success"
      BY <2>1, ChainFixed DEF OnChain
    <2>5. Body' \in Seq(Bytes) /\ Len(Body') \in Nat
      <3>1. site[url] \in Fetched!Success
        BY <2>1 DEF TypeOK, Fetched!Answers, Fetched!Redirection,
                    Fetched!BadStatus
      <3> QED
        BY <3>1 DEF Body, Fetched!Success
    <2>6. SubSeq(Body', 1, 0) = << >>
      BY SubSeqEmpty
    <2>7. Reading'
      BY <2>4, <2>5, <2>6 DEF Reading, Waiting
    <2> QED
      BY <2>2, <2>3, <2>7 DEF Waiting, NoPanic
  <1>4. CASE Redirects
    <2>0. url \in Urls
      BY <1>4 DEF Redirects, Inv, TypeOK
    <2>1. CASE site[url].location \in Urls
      <3>1. /\ pc' = "send" /\ url' = site[url].location
            /\ UNCHANGED <<site, asked, call, from, tot, pos, out, result>>
        BY <1>4, <2>1 DEF Redirects, Follow, Continue
      <3>2. TypeOK'
        BY <3>1, <2>1 DEF Inv, TypeOK
      <3>3. OnChain'
        BY <1>4, <3>1, <2>0, <2>1, ChainContinues, ChainFixed
           DEF OnChain, Inv, Redirects
      <3> QED
        BY <1>4, <3>1, <3>2, <3>3 DEF Redirects, Inv, Waiting, Reading, NoPanic
    <2>2. CASE site[url].location \notin Urls
      BY <1>0, <1>4, <2>2, ReturnKeepsInv DEF Redirects, Follow, Errors
    <2> QED
      BY <2>1, <2>2
  <1>5. ASSUME NEW n \in 0 .. Len(Body), ReadToEnd(n)
        PROVE  Inv'
    <2>1. Len(Body) \in Nat
      BY <1>0, <1>5, BodyIsSeq DEF ReadToEnd, Inv, Reading, Fetched!Chain
    <2>2. n \in Nat
      BY <2>1
    <2> QED
      BY <1>0, <1>5, <2>2, ReturnKeepsInv DEF ReadToEnd, Errors
  <1>6. ASSUME NEW n \in 1 .. BufferSize, FillBuf(n)
        PROVE  Inv'
    <2> USE <1>6
    <2>1. /\ from \in Urls /\ site[from].kind = "success"
          /\ from \in Fetched!Chain
          /\ tot = pos /\ tot <= Limit /\ out = SubSeq(Body, 1, pos)
      BY DEF FillBuf, Inv, Reading, Fetched!Chain
    <2>2. Body \in Seq(Bytes) /\ Len(Body) \in Nat
      BY <1>0, <2>1, BodyIsSeq
    <2>3. n \in Nat /\ tot + n \in Nat /\ pos + n <= Len(Body)
      BY <1>0 DEF FillBuf
    <2>4. ~TooMuch(tot + n)
      <3>1. tot + n <= DefaultLength
        BY <1>0, <2>1, <2>3, LimitAssumption
      <3> QED
        BY <1>0, <2>1, <2>2, <2>3, <3>1 DEF TooMuch, ContentLength
    <2>5. CASE Return("Callback") /\ UNCHANGED <<pos, out>>
      BY <1>0, <2>3, <2>5, ReturnKeepsInv DEF FillBuf, Errors
    <2>6. CASE /\ tot + n <= Limit
               /\ out' = out \o SubSeq(Body, pos + 1, pos + n)
               /\ Consume(n)
               /\ Continue("body")
      <3> USE <2>6
      <3>1. /\ UNCHANGED <<site, asked, call, url, from, result, pc>>
            /\ tot' = tot + n /\ pos' = pos + n
        BY DEF FillBuf, Consume, Continue
      <3>2. TypeOK'
        BY <1>0, <2>3, <3>1 DEF TypeOK
      <3>3. OnChain'
        BY <3>1, ChainFixed DEF Inv, OnChain
      <3>4. Body' = Body
        BY <3>1 DEF Body
      <3>5. out' = SubSeq(Body, 1, pos + n)
        BY <1>0, <2>1, <2>2, <2>3, PrefixGrows
      <3>6. Reading'
        BY <1>0, <2>1, <2>2, <2>3, <3>1, <3>4, <3>5, ChainFixed
           DEF Reading, FillBuf
      <3> QED
        BY <3>1, <3>2, <3>3, <3>6 DEF FillBuf, Inv, Waiting, NoPanic
    <2> QED
      BY <2>4, <2>5, <2>6 DEF FillBuf
  <1>7. CASE EndOfBody
    BY <1>0, <1>7, ReturnKeepsInv DEF EndOfBody
  <1>8. CASE UNCHANGED vars
    <2> USE <1>8 DEF vars
    <2>1. Fetched!Chain' = Fetched!Chain /\ Body' = Body
      BY ChainFixed DEF Body
    <2> QED
      BY <2>1 DEF Inv, TypeOK, Waiting, OnChain, Reading, NoPanic
  <1> QED
    BY <1>1, <1>2, <1>3, <1>4, <1>5, <1>6, <1>7, <1>8
       DEF Next, Step, Reads, Faults, Done

(***************************************************************************)
(* Every call keeps the invariant.                                         *)
(***************************************************************************)
THEOREM Safety == Spec => []Inv
  BY InvInit, InvNext, PTL DEF Spec

(***************************************************************************)
(* The types hold: no request goes to a URL that to_url_string refused.    *)
(***************************************************************************)
THEOREM TypeSafety == Spec => []TypeOK
  <1>1. Inv => TypeOK
    BY DEF Inv
  <1> QED
    BY <1>1, Safety, PTL

(***************************************************************************)
(* req_buffered never reaches its panic, for any servers, as long as the   *)
(* partition and a buffer fit the default content length.                  *)
(***************************************************************************)
THEOREM PanicSafety == Spec => []NoPanic
  <1>1. Inv => NoPanic
    BY DEF Inv
  <1> QED
    BY <1>1, Safety, PTL

-----------------------------------------------------------------------------
(***************************************************************************)
(* A call that has not returned is pending.                                *)
(***************************************************************************)
LEMMA OutcomePending ==
  ASSUME Inv, pc # "done"
  PROVE  Outcome = "pending"
  BY DEF Inv, Outcome

(***************************************************************************)
(* Returning Ok is success to the caller.                                  *)
(***************************************************************************)
LEMMA OutcomeOk ==
  ASSUME Return("Ok")
  PROVE  Outcome' = "ok"
  BY HttpAssumption DEF Return, Outcome

(***************************************************************************)
(* Returning any error is failure to the caller.                           *)
(***************************************************************************)
LEMMA OutcomeError ==
  ASSUME NEW r \in Errors, Return(r)
  PROVE  Outcome' = "error"
  BY HttpAssumption DEF Return, Outcome, Errors

(***************************************************************************)
(* The start of a call is a start of Fetch.                                *)
(***************************************************************************)
LEMMA FetchInit == Init => Fetched!Init
  BY DEF Init, Outcome, Fetched!Init

(***************************************************************************)
(* Returning an error is Fetch's failure, wherever it happens.             *)
(***************************************************************************)
LEMMA ErrorIsFail ==
  ASSUME Inv, pc # "done", NEW r \in Errors, Return(r),
         UNCHANGED <<site, asked, out, from>>
  PROVE  Fetched!Fail
  BY OutcomePending, OutcomeError DEF Fetched!Fail, Outcome

(***************************************************************************)
(* A step that changes nothing changes nothing of Fetch.                   *)
(***************************************************************************)
LEMMA UnchangedFetch == UNCHANGED vars => UNCHANGED Fetched!fetchVars
  BY DEF vars, Outcome, Fetched!fetchVars

(***************************************************************************)
(* Every step of the client is a step of Fetch or leaves it unchanged.     *)
(***************************************************************************)
LEMMA FetchNext == Inv /\ Inv' /\ [Next]_vars => [Fetched!Next]_(Fetched!fetchVars)
  <1> SUFFICES ASSUME Inv, Inv', [Next]_vars
               PROVE  Fetched!Next \/ UNCHANGED Fetched!fetchVars
    OBVIOUS
  <1> USE HttpAssumption
  <1>0. TypeOK /\ tot \in Nat /\ pos \in Nat
    BY DEF Inv, TypeOK
  <1>1. CASE Call
    <2>1. CASE url = TooLong
      BY <1>1, <2>1, ErrorIsFail DEF Call, Errors, Fetched!Next
    <2>2. CASE url # TooLong
      BY <1>1, <2>2 DEF Call, Continue, Outcome, Fetched!fetchVars
    <2> QED
      BY <2>1, <2>2
  <1>2. CASE RequestFails \/ BodyFails \/ FailsWithStatus
    BY <1>2, ErrorIsFail
       DEF RequestFails, BodyFails, FailsWithStatus, Errors, Fetched!Next
  <1>3. CASE Succeeds
    <2>1. url \in Urls /\ url \in Fetched!Chain /\ from = None
      BY <1>3 DEF Succeeds, Inv, TypeOK, OnChain, Waiting
    <2>2. Outcome = "pending"
      BY <1>3, OutcomePending DEF Succeeds
    <2>3. Fetched!Answer(url)
      BY <1>3, <2>1, <2>2 DEF Succeeds, Continue, Outcome, Fetched!Answer
    <2> QED
      BY <2>1, <2>3 DEF Fetched!Next
  <1>4. CASE Redirects
    <2>1. CASE site[url].location \in Urls
      BY <1>4, <2>1
         DEF Redirects, Follow, Continue, Outcome, Fetched!fetchVars
    <2>2. CASE site[url].location \notin Urls
      BY <1>4, <2>2, ErrorIsFail DEF Redirects, Follow, Errors, Fetched!Next
    <2> QED
      BY <2>1, <2>2
  <1>5. CASE pc = "body"
    <2>1. /\ from \in Urls /\ from # None
          /\ site[from].kind = "success"
          /\ out = SubSeq(Body, 1, pos) /\ pos <= Len(Body)
      BY <1>5 DEF Inv, Reading, Fetched!Chain
    <2>2. Body \in Seq(Bytes) /\ Len(Body) \in Nat /\ Fetched!Body = Body
      BY <1>0, <2>1, BodyIsSeq DEF Fetched!Body, Body
    <2>3. Len(out) = pos
      BY <1>0, <2>1, <2>2, PrefixLen
    <2>4. Outcome = "pending"
      BY <1>5, OutcomePending
    <2>5. ASSUME NEW n \in 0 .. Len(Body), ReadToEnd(n)
          PROVE  Fetched!Next
      <3>1. CASE Return("Ok") /\ out' = SubSeq(Body, 1, n)
        <4>1. pos = 0
          BY <1>5, <2>5 DEF ReadToEnd, Inv, Reading
        <4>2. n \in Len(out) .. Len(Fetched!Body)
          BY <2>2, <2>3, <4>1
        <4>3. Outcome' = "ok"
          BY <3>1, OutcomeOk
        <4>4. Fetched!Succeed(n)
          BY <2>1, <2>2, <2>4, <2>5, <3>1, <4>2, <4>3
             DEF ReadToEnd, Ends, Fetched!Succeed
        <4> QED
          BY <2>1, <2>2, <4>4 DEF Fetched!Next
      <3>2. CASE \E r \in Errors : Return(r) /\ UNCHANGED out
        BY <1>5, <2>5, <3>2, ErrorIsFail DEF ReadToEnd, Fetched!Next
      <3> QED
        BY <2>5, <3>1, <3>2 DEF ReadToEnd, Errors
    <2>6. ASSUME NEW n \in 1 .. BufferSize, FillBuf(n)
          PROVE  Fetched!Next
      <3>1. CASE Return("panic")
        BY <3>1 DEF Return, Inv, NoPanic
      <3>2. CASE Return("Callback") /\ UNCHANGED out
        BY <1>5, <2>6, <3>2, ErrorIsFail DEF FillBuf, Errors, Fetched!Next
      <3>3. CASE /\ out' = out \o SubSeq(Body, pos + 1, pos + n)
                 /\ Continue("body")
        <4>1. n \in Nat /\ pos + n <= Len(Body)
          BY <2>6 DEF FillBuf
        <4>2. out' = SubSeq(Body, 1, pos + n)
          BY <1>0, <2>1, <2>2, <3>3, <4>1, PrefixGrows
        <4>3. Outcome' = Outcome
          BY <3>3 DEF Continue, Outcome
        <4>4. pos + n \in Len(out) .. Len(Fetched!Body)
          BY <1>0, <2>2, <2>3, <4>1
        <4>5. Fetched!Receive(pos + n)
          BY <2>1, <2>2, <2>4, <2>6, <4>2, <4>3, <4>4
             DEF FillBuf, Fetched!Receive
        <4>6. pos + n \in 0 .. Len(Fetched!Body)
          BY <1>0, <2>2, <4>1
        <4> QED
          BY <2>1, <4>5, <4>6 DEF Fetched!Next
      <3> QED
        BY <2>6, <3>1, <3>2, <3>3 DEF FillBuf
    <2>7. CASE EndOfBody
      <3>1. Outcome' = "ok"
        BY <2>7, OutcomeOk DEF EndOfBody
      <3>2. out' = SubSeq(Body, 1, pos)
        BY <2>1, <2>7 DEF EndOfBody
      <3>3. pos \in Len(out) .. Len(Fetched!Body)
        BY <1>0, <2>1, <2>2, <2>3
      <3>4. Fetched!Succeed(pos)
        BY <2>1, <2>2, <2>4, <2>7, <3>1, <3>2, <3>3
           DEF EndOfBody, Ends, Fetched!Succeed
      <3>5. pos \in 0 .. Len(Fetched!Body)
        BY <1>0, <2>1, <2>2
      <3> QED
        BY <2>1, <3>4, <3>5 DEF Fetched!Next
    <2> QED
      BY <1>2, <1>5, <2>5, <2>6, <2>7, UnchangedFetch
         DEF Next, Step, Reads, Faults, Done, Call, Succeeds,
             FailsWithStatus, Redirects
  <1> QED
    BY <1>1, <1>2, <1>3, <1>4, <1>5, UnchangedFetch
       DEF Next, Step, Faults, Done, EndOfBody

(***************************************************************************)
(* The client implements Fetch: what a caller gets is a prefix of the body *)
(* the redirects lead to, and Ok means that nothing of it is missing,      *)
(* unless closing the connection is how the server ends it.                *)
(***************************************************************************)
THEOREM Refinement == Spec => ImplementsFetch
  BY FetchInit, FetchNext, Safety, PTL DEF Spec, ImplementsFetch, Fetched!Spec

=============================================================================
