---------------------------- MODULE RetryReader ----------------------------
(***************************************************************************)
(* services/retry_transport.go: one proxied response.  RoundTrip decides   *)
(* whether the body is wrapped and at which byte of the object it starts;  *)
(* Read reconnects to another pod when the connection breaks; Close ends   *)
(* it.  Read and Close hold the reader's mutex for their whole length, so  *)
(* Close only happens between two Reads; a Read is split where the         *)
(* upstream decides what happens next.                                     *)
(*                                                                         *)
(* Bytes of the object are their offsets 0..Size-1.  A window is the       *)
(* half-open interval [start, stop) of offsets that a response carries.    *)
(***************************************************************************)
EXTENDS Integers, Sequences

CONSTANTS
    Size,       \* length of the object
    Ranges,     \* Range headers clients send: NoRange, From(s), Slice(s, t), Suffix(n)
    MaxRetries  \* max-retries

NoRange == [kind |-> "none", from |-> 0, to |-> Size]
From(s) == [kind |-> "from", from |-> s, to |-> Size]
Slice(s, t) == [kind |-> "slice", from |-> s, to |-> t]
Suffix(n) == [kind |-> "suffix", from |-> Size - n, to |-> Size]

(* All but a slice reach to the end of the object; a range may be empty.   *)
AllRanges ==
    {NoRange} \cup {From(s) : s \in 0..Size} \cup {Suffix(n) : n \in 0..Size}
    \cup {Slice(s, t) : s \in 0..Size, t \in 0..Size}

ASSUME RetryReaderAssumption ==
    /\ Size \in Nat \ {0}
    /\ MaxRetries \in Nat
    /\ Ranges \subseteq AllRanges

VARIABLES
    asked,      \* the request's Range header
    start, stop,\* the window the first response carries
    origStart,  \* where RoundTrip believes it starts
    expected,   \* Content-Length of the first response, -1 if unknown
    wrapped,    \* the body is a retryingReadCloser
    body,       \* the open upstream body: next byte, end, and how it broke
    bytesRead,
    delivered,  \* the bytes Read returned, in order
    retries,
    pc,         \* "request", "open" (between Reads), "retry", "reread", "done"
    outcome     \* how the client's stream ended

vars == <<asked, start, stop, origStart, expected, wrapped, body, bytesRead,
          delivered, retries, pc, outcome>>
meta == <<asked, start, stop, origStart, expected, wrapped>>

Body(pos, end) == [pos |-> pos, end |-> end, broken |-> "no"]

Init ==
    /\ asked \in Ranges
    /\ start = 0 /\ stop = 0 /\ origStart = 0 /\ expected = -1
    /\ wrapped = FALSE
    /\ body = Body(0, 0)
    /\ bytesRead = 0
    /\ delivered = <<>>
    /\ retries = 0
    /\ pc = "request"
    /\ outcome = "none"

-----------------------------------------------------------------------------
(* RoundTrip *)

(* What an upstream may answer.  External.  A 200 ignores the Range.  A    *)
(* 206 starts where it was asked to, or says in Content-Range where; it    *)
(* may end before the end that was asked for.  The length may be unknown   *)
(* (chunked).  A range without a byte in it gets no 206 (but a 416, see    *)
(* RoundTripPasses).                                                       *)
Responses ==
    {[status |-> 200, start |-> 0, stop |-> Size, cr |-> FALSE, length |-> n] : n \in {Size, -1}}
    \cup {resp \in [status : {206}, start : 0..Size, stop : 0..Size, cr : BOOLEAN, length : -1..Size] :
             /\ asked.kind # "none" /\ asked.from < asked.to
             /\ resp.start < resp.stop
             /\ ~resp.cr => resp.start = asked.from /\ resp.stop <= asked.to
             /\ resp.length \in {resp.stop - resp.start, -1}}

(* parseRange: a suffix has no absolute start. *)
RangeStartKnown == asked.kind \in {"from", "slice"}

OrigStart_FromRequest(resp) == asked.from

(* 0 for a 200, the start in Content-Range, else the start asked for. *)
OrigStart(resp) ==
    IF resp.status = 200 THEN 0
    ELSE IF resp.cr THEN resp.start
    ELSE asked.from

Wrappable(resp) == MaxRetries > 0 /\ (resp.status = 200 \/ resp.cr \/ RangeStartKnown)

RoundTrip ==
    /\ pc = "request"
    /\ \E resp \in Responses :
          /\ start' = resp.start
          /\ stop' = resp.stop
          /\ expected' = resp.length
          /\ wrapped' = Wrappable(resp)
          /\ origStart' = OrigStart(resp)
          /\ body' = Body(resp.start, resp.stop)
    /\ pc' = "open"
    /\ UNCHANGED <<asked, bytesRead, delivered, retries, outcome>>

(* An error of the transport, or a status that is neither 200 nor 206:     *)
(* the response goes to the client as it is.                               *)
RoundTripPasses ==
    /\ pc = "request"
    /\ pc' = "done"
    /\ outcome' = "passed"
    /\ UNCHANGED <<meta, body, bytesRead, delivered, retries>>

-----------------------------------------------------------------------------
(* Read *)

End(how) == pc' = "done" /\ outcome' = how

Breaks == {"retryable", "fatal"}

(* n bytes of the open body reach the client. *)
Take(n) ==
    /\ bytesRead' = bytesRead + n
    /\ delivered' = delivered \o [i \in 1..n |-> body.pos + i - 1]

(* body.Read returns data, and perhaps an error with it that Read keeps to *)
(* itself: the body returns it again on the next call.                     *)
ReadData ==
    /\ pc = "open" /\ body.broken = "no"
    /\ \E n \in 1..(body.end - body.pos), broken \in {"no"} \cup Breaks :
          /\ Take(n)
          /\ body' = [body EXCEPT !.pos = @ + n, !.broken = broken]
    /\ UNCHANGED <<meta, retries, pc, outcome>>

(* EOF of the upstream body, where its length is complete. *)
ReadEOF ==
    /\ pc = "open" /\ body.broken = "no" /\ body.pos = body.end
    /\ End("eof")
    /\ UNCHANGED <<meta, body, bytesRead, delivered, retries>>

(* The connection breaks between two Reads, also after the last byte. *)
ConnectionLost ==
    /\ pc = "open" /\ body.broken = "no"
    /\ \E broken \in Breaks : body' = [body EXCEPT !.broken = broken]
    /\ UNCHANGED <<meta, bytesRead, delivered, retries, pc, outcome>>

FullyDelivered == expected >= 0 /\ bytesRead >= expected

Exhausted_OffByOne == retries > MaxRetries

Exhausted == retries >= MaxRetries

(* Looks at the retry budget before it looks at what was delivered. *)
ReadError_BudgetFirst ==
    /\ pc = "open" /\ body.broken # "no"
    /\ IF ~wrapped \/ body.broken = "fatal" THEN End("broken")
       ELSE IF Exhausted THEN End("exhausted")
       ELSE IF FullyDelivered THEN End("eof")
       ELSE pc' = "retry" /\ UNCHANGED outcome
    /\ UNCHANGED <<meta, body, bytesRead, delivered, retries>>

(* body.Read returns an error and no data. *)
ReadError ==
    /\ pc = "open" /\ body.broken # "no"
    /\ IF ~wrapped \/ body.broken = "fatal" THEN End("broken")
       ELSE IF FullyDelivered THEN End("eof")
       ELSE IF Exhausted THEN End("exhausted")
       ELSE pc' = "retry" /\ UNCHANGED outcome
    /\ UNCHANGED <<meta, body, bytesRead, delivered, retries>>

ResumeAt_IgnoresStart == bytesRead

(* newStart in reconnectFn. *)
ResumeAt == origStart + bytesRead

AtEnd_Past == ResumeAt >= Size - 1

(* 416 whose total equals the resume offset. *)
AtEnd == ResumeAt = Size

(* reconnectFn: "bytes=<ResumeAt>-" to another pod.  A pod answers 206     *)
(* from there on, perhaps not to the end of the object but no shorter than *)
(* the first response reached, or, past the end, 416; it may also be       *)
(* unreachable, answer something else, or not be found.                    *)
Reconnect ==
    /\ pc = "retry"
    /\ retries' = retries + 1
    /\ \/ /\ \E end \in stop..Size : ResumeAt < end /\ body' = Body(ResumeAt, end)
          /\ pc' = "reread"
          /\ UNCHANGED outcome
       \/ /\ AtEnd
          /\ End("eof")
          /\ UNCHANGED body
       \/ /\ End("reconnect failed")
          /\ UNCHANGED body
    /\ UNCHANGED <<meta, bytesRead, delivered>>

(* Treats an error here like one of an ordinary Read, with a fresh budget. *)
Reread_ResetsRetries ==
    /\ pc = "reread"
    /\ \E n \in 0..(body.end - body.pos), broken \in {"no"} \cup Breaks :
          /\ n = 0 => broken # "no"
          /\ Take(n)
          /\ body' = [body EXCEPT !.pos = @ + n, !.broken = broken]
    /\ retries' = 0
    /\ pc' = "open"
    /\ UNCHANGED <<meta, outcome>>

(* The first read of the new body; its result is returned as it is, so an  *)
(* error here ends the stream, with or without data.                       *)
Reread ==
    /\ pc = "reread"
    /\ \E n \in 0..(body.end - body.pos), broken \in {"no"} \cup Breaks :
          /\ n = 0 => broken # "no"
          /\ Take(n)
          /\ body' = [body EXCEPT !.pos = @ + n, !.broken = broken]
          /\ IF broken = "no" THEN pc' = "open" /\ UNCHANGED outcome
             ELSE End(IF broken = "retryable" THEN "lost again" ELSE "broken")
    /\ UNCHANGED <<meta, retries>>

(* Close: the client has gone, or ReverseProxy is done copying. *)
Close ==
    /\ pc = "open"
    /\ End("closed")
    /\ UNCHANGED <<meta, body, bytesRead, delivered, retries>>

ReadStep == ReadData \/ ReadEOF \/ ReadError \/ Reconnect \/ Reread

Next == RoundTrip \/ RoundTripPasses \/ ReadStep \/ ConnectionLost \/ Close

(* ReverseProxy copies until Read reports EOF or an error.  That a Read of *)
(* the upstream's body comes back is assumed: the code sets no timeout.    *)
Spec == Init /\ [][Next]_vars /\ WF_vars(RoundTrip) /\ WF_vars(ReadStep)

-----------------------------------------------------------------------------
(* Properties *)

TypeOK ==
    /\ asked \in Ranges
    /\ start \in 0..Size /\ stop \in 0..Size /\ origStart \in 0..Size
    /\ expected \in -1..Size
    /\ wrapped \in BOOLEAN
    /\ body \in [pos : 0..Size, end : 0..Size, broken : {"no"} \cup Breaks]
    /\ bytesRead \in 0..Size
    /\ delivered \in Seq(0..(Size - 1)) /\ Len(delivered) = bytesRead
    /\ retries \in 0..MaxRetries
    /\ pc \in {"request", "open", "retry", "reread", "done"}
    /\ outcome \in {"none", "passed", "eof", "broken", "exhausted", "closed",
                    "reconnect failed", "lost again"}

(* Whatever was lost and retried, the client gets the bytes of the object  *)
(* in order from where the first response started: none is missing, none   *)
(* comes twice, none is spliced in from elsewhere.                         *)
Contiguous == \A i \in 1..Len(delivered) : delivered[i] = start + i - 1

(* A stream that ends with EOF delivered the whole window of the response: *)
(* a dirty close taken for EOF, or a 416 taken for EOF, loses nothing.     *)
EOFMeansComplete == outcome = "eof" => bytesRead >= stop - start

(* A client that has the whole announced length is not told that the       *)
(* stream failed for want of retries or of another pod: the break that     *)
(* comes after it, on whichever connection, counts as EOF.                 *)
CompleteNeverFails == outcome \in {"exhausted", "reconnect failed"} => ~FullyDelivered

(* Every stream ends, however often the upstream fails, provided that each *)
(* connection yields, ends or breaks at some time.                         *)
StreamEnds == <>(pc = "done")
=============================================================================
