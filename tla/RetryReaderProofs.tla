------------------------- MODULE RetryReaderProofs -------------------------
(***************************************************************************)
(* Theorems about RetryReader, for every object size, every set of Range   *)
(* headers and every retry budget.                                         *)
(*                                                                         *)
(* Inv says where the client is in the object and is inductive by itself.  *)
(* Bounds adds how far the open body reaches, what the response promised   *)
(* and how much of the retry budget is left; it needs Inv.                 *)
(***************************************************************************)
EXTENDS RetryReader, TLAPS

(* While a body is open its next byte is the one the client misses first,  *)
(* and RoundTrip knows where the stream began.                             *)
Position ==
    /\ bytesRead \in Nat
    /\ start \in Nat
    /\ origStart = start
    /\ pc \in {"open", "reread"} => body.pos = start + bytesRead

InOrder ==
    /\ delivered \in Seq(Int)
    /\ Len(delivered) = bytesRead
    /\ Contiguous

Inv ==
    /\ asked \in [kind : {"none", "from", "slice", "suffix"}, from : 0..Size, to : 0..Size]
    /\ body \in [pos : Nat, end : Nat, broken : {"no"} \cup Breaks]
    /\ Position
    /\ InOrder

LEMMA RangeFields ==
    ASSUME NEW r \in AllRanges
    PROVE  r \in [kind : {"none", "from", "slice", "suffix"}, from : 0..Size, to : 0..Size]
<1>1. Size \in Nat
  BY RetryReaderAssumption
<1>2. CASE r = NoRange
  BY <1>1, <1>2 DEF NoRange
<1>3. CASE \E s \in 0..Size : r = From(s)
  BY <1>1, <1>3 DEF From
<1>4. CASE \E n \in 0..Size : r = Suffix(n)
  BY <1>1, <1>4 DEF Suffix
<1>5. CASE \E s \in 0..Size, t \in 0..Size : r = Slice(s, t)
  BY <1>1, <1>5 DEF Slice
<1>6. QED
  BY <1>2, <1>3, <1>4, <1>5 DEF AllRanges

LEMMA ConcatIndex ==
    ASSUME NEW s \in Seq(Int), NEW t \in Seq(Int)
    PROVE  /\ s \o t \in Seq(Int)
           /\ Len(s \o t) = Len(s) + Len(t)
           /\ \A i \in 1..(Len(s) + Len(t)) :
                 (s \o t)[i] = IF i <= Len(s) THEN s[i] ELSE t[i - Len(s)]
OBVIOUS

(* Appending the bytes an open body yields keeps the client's bytes in     *)
(* order.                                                                  *)
LEMMA TakeInOrder ==
    ASSUME Inv, pc \in {"open", "reread"}, NEW n \in Nat, Take(n), UNCHANGED start
    PROVE  InOrder' /\ bytesRead' = bytesRead + n
<1> DEFINE new == [i \in 1..n |-> body.pos + i - 1]
<1>1. /\ bytesRead \in Nat /\ start \in Nat /\ body.pos = start + bytesRead
      /\ delivered \in Seq(Int) /\ Len(delivered) = bytesRead
      /\ \A i \in 1..Len(delivered) : delivered[i] = start + i - 1
  BY DEF Inv, Position, InOrder, Contiguous
<1>2. new \in Seq(Int) /\ Len(new) = n
  BY <1>1
<1>3. delivered' = delivered \o new /\ bytesRead' = bytesRead + n
  BY DEF Take
<1>4. delivered' \in Seq(Int) /\ Len(delivered') = bytesRead + n
  <2> HIDE DEF new
  <2>1. QED
    BY <1>1, <1>2, <1>3, ConcatIndex
<1>5. ASSUME NEW i \in 1..(bytesRead + n)
      PROVE  delivered'[i] = start + i - 1
  <2>1. CASE i <= bytesRead
    BY <1>1, <1>2, <1>3, <2>1
  <2>2. CASE i > bytesRead
    <3>1. i - bytesRead \in 1..n /\ delivered'[i] = new[i - bytesRead]
      <4> HIDE DEF new
      <4>1. delivered'[i] = (delivered \o new)[i] /\ ~(i <= Len(delivered)) /\ i - bytesRead \in 1..n
        BY <1>1, <1>3, <2>2
      <4>2. QED
        BY <1>1, <1>2, <4>1, ConcatIndex
    <3>2. QED
      BY <1>1, <3>1
  <2>3. QED
    BY <1>1, <2>1, <2>2
<1>6. QED
  BY <1>3, <1>4, <1>5 DEF InOrder, Contiguous

LEMMA InitInv == Init => Inv
<1> SUFFICES ASSUME Init PROVE Inv
  OBVIOUS
<1>1. asked \in [kind : {"none", "from", "slice", "suffix"}, from : 0..Size, to : 0..Size]
  BY RangeFields, RetryReaderAssumption DEF Init
<1>2. QED
  BY <1>1 DEF Init, Inv, Position, InOrder, Contiguous, Body, Breaks

(* Every response RoundTrip may get carries a window of the object. *)
LEMMA ResponseWindow ==
    ASSUME NEW resp \in Responses
    PROVE  /\ resp.start \in 0..Size /\ resp.stop \in 0..Size /\ resp.start <= resp.stop
           /\ resp.length \in {-1, resp.stop - resp.start}
           /\ OrigStart(resp) = resp.start
<1>1. Size \in Nat
  BY RetryReaderAssumption
<1>2. CASE resp \in {[status |-> 200, start |-> 0, stop |-> Size, cr |-> FALSE, length |-> n] :
                        n \in {Size, -1}}
  BY <1>1, <1>2 DEF OrigStart
<1>3. CASE /\ resp \in [status : {206}, start : 0..Size, stop : 0..Size, cr : BOOLEAN, length : -1..Size]
           /\ resp.start < resp.stop
           /\ ~resp.cr => resp.start = asked.from
           /\ resp.length \in {resp.stop - resp.start, -1}
  BY <1>1, <1>3 DEF OrigStart
<1>4. QED
  BY <1>2, <1>3 DEF Responses

LEMMA RoundTripInv == ASSUME Inv, pc = "request", bytesRead = 0, RoundTrip PROVE Inv'
<1>1. PICK resp \in Responses :
          /\ start' = resp.start
          /\ stop' = resp.stop
          /\ origStart' = OrigStart(resp)
          /\ body' = Body(resp.start, resp.stop)
  BY DEF RoundTrip
<1>2. /\ asked.from \in 0..Size /\ asked.to \in 0..Size /\ Size \in Nat
      /\ UNCHANGED <<asked, bytesRead, delivered>> /\ pc' = "open"
  BY RetryReaderAssumption DEF Inv, RoundTrip
<1>3. resp.start \in Nat /\ resp.stop \in Nat /\ OrigStart(resp) = resp.start
  BY <1>2, ResponseWindow
<1>4. Position'
  BY <1>1, <1>2, <1>3 DEF Position, Body
<1>5. InOrder'
  BY <1>2 DEF Inv, InOrder, Contiguous
<1>6. body' \in [pos : Nat, end : Nat, broken : {"no"} \cup Breaks]
  BY <1>1, <1>3 DEF Body
<1>7. QED
  BY <1>2, <1>4, <1>5, <1>6 DEF Inv

(* Nothing is delivered before the response is there. *)
Fresh == pc = "request" => bytesRead = 0

LEMMA NextInv == Inv /\ Fresh /\ [Next]_vars => Inv' /\ Fresh'
<1> SUFFICES ASSUME Inv, Fresh, [Next]_vars PROVE Inv' /\ Fresh'
  OBVIOUS
<1> USE DEF meta
<1>1. CASE RoundTrip
  BY <1>1, RoundTripInv DEF RoundTrip, Fresh
<1>2. CASE ReadData
  <2>1. PICK n \in 1..(body.end - body.pos), broken \in {"no"} \cup Breaks :
            Take(n) /\ body' = [body EXCEPT !.pos = @ + n, !.broken = broken]
    BY <1>2 DEF ReadData
  <2>2. n \in Nat /\ pc = "open" /\ UNCHANGED <<asked, start, origStart, pc>>
    BY <1>2 DEF ReadData, Inv
  <2>3. InOrder' /\ bytesRead' = bytesRead + n
    BY <2>1, <2>2, TakeInOrder
  <2>4. body' \in [pos : Nat, end : Nat, broken : {"no"} \cup Breaks] /\ body'.pos = body.pos + n
    <3>1. body \in [pos : Nat, end : Nat, broken : {"no"} \cup Breaks] /\ body.pos + n \in Nat
      BY <2>2 DEF Inv
    <3>2. QED
      BY <2>1, <3>1
  <2>5. QED
    BY <2>2, <2>3, <2>4 DEF Inv, Position, Fresh
<1>3. CASE Reconnect
  <2>1. UNCHANGED <<asked, start, origStart, bytesRead, delivered>> /\ pc' # "request" /\ pc' # "open"
    BY <1>3 DEF Reconnect, End
  <2>2. bytesRead \in Nat /\ start \in Nat /\ origStart = start /\ Size \in Nat
    BY RetryReaderAssumption DEF Inv, Position
  <2>3. \/ \E end \in stop..Size : start + bytesRead < end /\ body' = Body(start + bytesRead, end)
        \/ pc' = "done" /\ UNCHANGED body
    BY <1>3, <2>2 DEF Reconnect, ResumeAt, End
  <2>4. body' \in [pos : Nat, end : Nat, broken : {"no"} \cup Breaks]
    BY <2>2, <2>3 DEF Inv, Body
  <2>5. Position'
    BY <2>1, <2>2, <2>3 DEF Position, Body
  <2>6. QED
    BY <2>1, <2>4, <2>5 DEF Inv, InOrder, Contiguous, Fresh
<1>4. CASE Reread
  <2>1. PICK n \in 0..(body.end - body.pos), broken \in {"no"} \cup Breaks :
            Take(n) /\ body' = [body EXCEPT !.pos = @ + n, !.broken = broken]
    BY <1>4 DEF Reread
  <2>2. /\ n \in Nat /\ pc = "reread" /\ UNCHANGED <<asked, start, origStart>>
        /\ pc' # "request"
    <3>1. body.end - body.pos \in Int
      BY DEF Inv
    <3>2. n \in Nat
      BY <3>1
    <3>3. pc = "reread" /\ UNCHANGED <<asked, start, origStart>>
      BY <1>4 DEF Reread
    <3>4. pc' = "open" \/ pc' = "done"
      BY <1>4 DEF Reread, End
    <3>5. QED
      BY <3>2, <3>3, <3>4
  <2>3. InOrder' /\ bytesRead' = bytesRead + n
    BY <2>1, <2>2, TakeInOrder
  <2>4. body' \in [pos : Nat, end : Nat, broken : {"no"} \cup Breaks] /\ body'.pos = body.pos + n
    <3>1. body \in [pos : Nat, end : Nat, broken : {"no"} \cup Breaks] /\ body.pos + n \in Nat
      BY <2>2 DEF Inv
    <3>2. QED
      BY <2>1, <3>1
  <2>5. QED
    BY <2>2, <2>3, <2>4 DEF Inv, Position, Fresh
<1>5. CASE ConnectionLost
  <2>1. PICK broken \in Breaks : body' = [body EXCEPT !.broken = broken]
    BY <1>5 DEF ConnectionLost
  <2>2. body' \in [pos : Nat, end : Nat, broken : {"no"} \cup Breaks] /\ body'.pos = body.pos
    BY <2>1 DEF Inv
  <2>3. QED
    BY <1>5, <2>2 DEF ConnectionLost, Inv, Position, InOrder, Contiguous, Fresh
<1>6. CASE RoundTripPasses \/ ReadEOF \/ ReadError \/ Close
  BY <1>6 DEF RoundTripPasses, ReadEOF, ReadError, Close, End, Inv, Position, InOrder,
              Contiguous, Fresh
<1>7. CASE UNCHANGED vars
  BY <1>7 DEF vars, Inv, Position, InOrder, Contiguous, Fresh
<1>8. QED
  BY <1>1, <1>2, <1>3, <1>4, <1>5, <1>6, <1>7 DEF Next, ReadStep

(* The client receives consecutive bytes of the object, starting where the *)
(* first response started, for any number of breaks and reconnects.        *)
THEOREM ContiguousDelivery == Spec => []Contiguous
<1>1. Init => Fresh
  BY DEF Init, Fresh
<1>2. Inv => Contiguous
  BY DEF Inv, InOrder
<1>3. QED
  BY <1>1, <1>2, InitInv, NextInv, PTL DEF Spec

-----------------------------------------------------------------------------
(* What the response promised: a window of the object, and the length that *)
(* was announced for it.                                                   *)
Promise ==
    /\ asked \in Ranges
    /\ stop \in 0..Size /\ start <= stop
    /\ expected \in {-1, stop - start}
    /\ wrapped \in BOOLEAN
    /\ pc = "request" => outcome = "none" /\ bytesRead = 0
    /\ outcome = "passed" => bytesRead = 0

(* The open body reaches at least to the end of the window. *)
Reach ==
    /\ body.pos <= body.end /\ stop <= body.end /\ body.end <= Size
    /\ start + bytesRead <= Size

Budget ==
    /\ retries \in 0..MaxRetries
    /\ pc = "retry" => retries < MaxRetries

Ending ==
    /\ pc \in {"request", "open", "retry", "reread", "done"}
    /\ outcome \in {"none", "passed", "eof", "broken", "exhausted", "closed",
                    "reconnect failed", "lost again"}
    /\ pc # "done" => outcome = "none"
    /\ EOFMeansComplete
    /\ pc = "retry" => ~FullyDelivered
    /\ CompleteNeverFails

Bounds == Promise /\ Reach /\ Budget /\ Ending

IInv == Inv /\ Fresh /\ Bounds

LEMMA InitBounds == Init => Bounds
<1> SUFFICES ASSUME Init PROVE Bounds
  OBVIOUS
<1>1. Size \in Nat /\ MaxRetries \in Nat
  BY RetryReaderAssumption
<1>2. wrapped \in BOOLEAN
  BY DEF Init
<1>3. Promise
  BY <1>1, <1>2 DEF Init, Promise
<1>4. Reach /\ Budget /\ Ending
  BY <1>1 DEF Init, Reach, Budget, Ending, EOFMeansComplete, CompleteNeverFails, Body
<1>5. QED
  BY <1>3, <1>4 DEF Bounds

(* Bytes taken from the open body move the client forward, at most to the  *)
(* end of that body.                                                       *)
LEMMA TakeReach ==
    ASSUME Inv, Reach, pc \in {"open", "reread"}, UNCHANGED <<start, stop>>,
           NEW n \in Nat, n <= body.end - body.pos, NEW broken,
           Take(n), body' = [body EXCEPT !.pos = @ + n, !.broken = broken]
    PROVE  Reach' /\ bytesRead' \in Nat /\ bytesRead' >= bytesRead
<1>1. /\ body.pos = start + bytesRead /\ bytesRead \in Nat /\ start \in Nat /\ Size \in Nat
      /\ body \in [pos : Nat, end : Nat, broken : {"no"} \cup Breaks]
  BY RetryReaderAssumption DEF Inv, Position
<1>2. body'.pos = body.pos + n /\ body'.end = body.end /\ bytesRead' = bytesRead + n
  BY <1>1 DEF Take
<1>3. QED
  BY <1>1, <1>2 DEF Reach

LEMMA NextBounds == Inv /\ Fresh /\ Bounds /\ [Next]_vars => Bounds'
<1> SUFFICES ASSUME Inv, Fresh, Bounds, [Next]_vars PROVE Bounds'
  OBVIOUS
<1> USE DEF meta
<1>0. /\ Size \in Nat /\ MaxRetries \in Nat /\ bytesRead \in Nat /\ start \in Nat
      /\ stop \in 0..Size /\ origStart = start /\ body.pos \in Nat /\ body.end \in Nat
      /\ asked \in Ranges /\ asked \in AllRanges
  BY RetryReaderAssumption DEF Inv, Position, Bounds, Promise
<1>1. CASE RoundTrip
  <2>1. PICK resp \in Responses :
            /\ start' = resp.start
            /\ stop' = resp.stop
            /\ expected' = resp.length
            /\ wrapped' = Wrappable(resp)
            /\ body' = Body(resp.start, resp.stop)
    BY <1>1 DEF RoundTrip
  <2>2. /\ pc = "request" /\ pc' = "open" /\ bytesRead = 0
        /\ UNCHANGED <<asked, bytesRead, retries, outcome>>
    BY <1>1 DEF RoundTrip, Fresh
  <2>3. /\ resp.start \in 0..Size /\ resp.stop \in 0..Size /\ resp.start <= resp.stop
        /\ resp.length \in {-1, resp.stop - resp.start}
    BY ResponseWindow
  <2>4. wrapped' \in BOOLEAN
    BY <2>1 DEF Wrappable
  <2>5. Promise'
    BY <1>0, <2>1, <2>2, <2>3, <2>4 DEF Bounds, Promise
  <2>6. Reach'
    BY <1>0, <2>1, <2>2, <2>3 DEF Reach, Body
  <2>7. QED
    BY <2>2, <2>5, <2>6 DEF Bounds, Budget, Ending, Promise, EOFMeansComplete, CompleteNeverFails
<1>2. CASE ReadData
  <2>1. PICK n \in 1..(body.end - body.pos), broken \in {"no"} \cup Breaks :
            Take(n) /\ body' = [body EXCEPT !.pos = @ + n, !.broken = broken]
    BY <1>2 DEF ReadData
  <2>2. n \in Nat /\ n <= body.end - body.pos
    BY <1>0
  <2>3. pc = "open" /\ UNCHANGED <<asked, start, stop, expected, wrapped, retries, pc, outcome>>
    BY <1>2 DEF ReadData
  <2>4. Reach' /\ bytesRead' \in Nat
    BY <2>1, <2>2, <2>3, TakeReach DEF Bounds
  <2>5. QED
    BY <2>3, <2>4 DEF Bounds, Promise, Budget, Ending, EOFMeansComplete, CompleteNeverFails
<1>3. CASE ReadEOF
  <2>1. bytesRead >= stop - start
    BY <1>0, <1>3 DEF ReadEOF, Bounds, Reach, Inv, Position
  <2>2. QED
    BY <1>3, <2>1 DEF ReadEOF, End, Bounds, Promise, Reach, Budget, Ending, EOFMeansComplete, CompleteNeverFails
<1>4. CASE ReadError
  <2>1. FullyDelivered => bytesRead >= stop - start
    BY <1>0 DEF FullyDelivered, Bounds, Promise
  <2>2. ~Exhausted => retries < MaxRetries
    BY <1>0 DEF Exhausted, Bounds, Budget
  <2>3. /\ pc = "open"
        /\ UNCHANGED <<asked, start, stop, expected, wrapped, body, bytesRead, retries>>
        /\ \/ pc' = "done" /\ outcome' = "broken"
           \/ pc' = "done" /\ outcome' = "exhausted" /\ ~FullyDelivered
           \/ pc' = "done" /\ outcome' = "eof" /\ FullyDelivered
           \/ pc' = "retry" /\ outcome' = outcome /\ ~Exhausted /\ ~FullyDelivered
    BY <1>4 DEF ReadError, End
  <2>4. UNCHANGED FullyDelivered
    BY <2>3 DEF FullyDelivered
  <2>5. QED
    BY <2>1, <2>2, <2>3, <2>4 DEF Bounds, Promise, Reach, Budget, Ending, EOFMeansComplete, CompleteNeverFails
<1>5. CASE Reconnect
  <2>1. /\ pc = "retry" /\ retries' = retries + 1
        /\ UNCHANGED <<asked, start, stop, expected, wrapped, bytesRead>>
    BY <1>5 DEF Reconnect
  <2>2. \/ pc' = "reread" /\ outcome' = outcome
        \/ pc' = "done" /\ outcome' = "eof" /\ start + bytesRead = Size
        \/ pc' = "done" /\ outcome' = "reconnect failed"
    BY <1>0, <1>5 DEF Reconnect, End, ResumeAt, AtEnd
  <2>3. Reach'
    <3>1. CASE body' = body
      BY <2>1, <3>1 DEF Bounds, Reach
    <3>2. ASSUME NEW end \in stop..Size, start + bytesRead < end, body' = Body(start + bytesRead, end)
          PROVE  Reach'
      <4>1. body'.pos = start + bytesRead /\ body'.end = end
        BY <3>2 DEF Body
      <4>2. QED
        BY <1>0, <2>1, <3>2, <4>1 DEF Reach
    <3>3. QED
      BY <1>0, <1>5, <3>1, <3>2 DEF Reconnect, ResumeAt
  <2>4. Budget'
    <3>1. retries \in 0..MaxRetries /\ retries < MaxRetries /\ pc' # "retry"
      BY <2>1, <2>2 DEF Bounds, Budget
    <3>2. QED
      BY <1>0, <2>1, <3>1 DEF Budget
  <2>5. Ending'
    <3>1. outcome = "none"
      BY <2>1 DEF Bounds, Ending
    <3>2. EOFMeansComplete'
      BY <1>0, <2>1, <2>2, <3>1 DEF EOFMeansComplete
    <3>3. ~FullyDelivered /\ UNCHANGED FullyDelivered
      BY <2>1 DEF Bounds, Ending, FullyDelivered
    <3>4. QED
      BY <2>2, <3>1, <3>2, <3>3 DEF Ending, CompleteNeverFails
  <2>6. Promise'
    BY <2>1, <2>2 DEF Bounds, Promise, Ending
  <2>7. QED
    BY <2>3, <2>4, <2>5, <2>6 DEF Bounds
<1>6. CASE Reread
  <2>1. PICK n \in 0..(body.end - body.pos), broken \in {"no"} \cup Breaks :
            /\ Take(n) /\ body' = [body EXCEPT !.pos = @ + n, !.broken = broken]
            /\ IF broken = "no" THEN pc' = "open" /\ UNCHANGED outcome
               ELSE End(IF broken = "retryable" THEN "lost again" ELSE "broken")
    BY <1>6 DEF Reread
  <2>2. n \in Nat /\ n <= body.end - body.pos
    BY <1>0
  <2>3. /\ pc = "reread" /\ UNCHANGED <<asked, start, stop, expected, wrapped, retries>>
        /\ \/ pc' = "open" /\ outcome' = outcome
           \/ pc' = "done" /\ outcome' \in {"lost again", "broken"}
    BY <1>6, <2>1 DEF Reread, End
  <2>4. Reach' /\ bytesRead' \in Nat
    BY <2>1, <2>2, <2>3, TakeReach DEF Bounds
  <2>5. QED
    BY <2>3, <2>4 DEF Bounds, Promise, Budget, Ending, EOFMeansComplete, CompleteNeverFails
<1>7. CASE ConnectionLost
  <2>1. PICK broken \in Breaks : body' = [body EXCEPT !.broken = broken]
    BY <1>7 DEF ConnectionLost
  <2>2. body'.pos = body.pos /\ body'.end = body.end
    BY <2>1 DEF Inv
  <2>3. QED
    BY <1>7, <2>2 DEF ConnectionLost, Bounds, Promise, Reach, Budget, Ending, EOFMeansComplete, CompleteNeverFails, FullyDelivered
<1>8. CASE RoundTripPasses
  BY <1>8 DEF RoundTripPasses, Fresh, Bounds, Promise, Reach, Budget, Ending, EOFMeansComplete, CompleteNeverFails
<1>9. CASE Close
  BY <1>9 DEF Close, End, Bounds, Promise, Reach, Budget, Ending, EOFMeansComplete, CompleteNeverFails
<1>10. CASE UNCHANGED vars
  BY <1>10 DEF vars, Bounds, Promise, Reach, Budget, Ending, EOFMeansComplete, CompleteNeverFails, FullyDelivered
<1>11. QED
  BY <1>1, <1>2, <1>3, <1>4, <1>5, <1>6, <1>7, <1>8, <1>9, <1>10 DEF Next, ReadStep

LEMMA AlwaysIInv == Spec => []IInv
<1>1. Init => Fresh
  BY DEF Init, Fresh
<1>2. QED
  BY <1>1, InitInv, NextInv, InitBounds, NextBounds, PTL DEF Spec, IInv

(* Read and Close keep every variable of a stream in its range: offsets    *)
(* inside the object, as many bytes counted as delivered, and no more      *)
(* reconnects than max-retries.                                            *)
THEOREM TypeCorrect == Spec => []TypeOK
<1>1. IInv => TypeOK
  <2> SUFFICES ASSUME IInv PROVE TypeOK
    OBVIOUS
  <2>1. /\ Size \in Nat /\ bytesRead \in Nat /\ start \in Nat /\ start + bytesRead <= Size
        /\ delivered \in Seq(Int) /\ Len(delivered) = bytesRead
        /\ \A i \in 1..Len(delivered) : delivered[i] = start + i - 1
    BY RetryReaderAssumption DEF IInv, Bounds, Reach, Inv, Position, InOrder, Contiguous
  <2>2. delivered \in Seq(0..(Size - 1))
    <3>1. \A i \in 1..Len(delivered) : delivered[i] \in 0..(Size - 1)
      BY <2>1
    <3>2. QED
      BY <2>1, <3>1
  <2>3. body \in [pos : 0..Size, end : 0..Size, broken : {"no"} \cup Breaks]
    <3>1. /\ body \in [pos : Nat, end : Nat, broken : {"no"} \cup Breaks]
          /\ body.pos \in 0..Size /\ body.end \in 0..Size
      BY <2>1 DEF IInv, Inv, Bounds, Reach
    <3>2. QED
      BY <3>1
  <2>4. expected \in -1..Size
    BY <2>1 DEF IInv, Bounds, Promise
  <2>5. start \in 0..Size /\ stop \in 0..Size /\ origStart \in 0..Size /\ bytesRead \in 0..Size
    BY <2>1 DEF IInv, Bounds, Promise, Inv, Position
  <2>6. QED
    BY <2>1, <2>2, <2>3, <2>4, <2>5 DEF IInv, Bounds, Promise, Budget, Ending, TypeOK
<1>2. QED
  BY <1>1, AlwaysIInv, PTL

(* Whichever way a stream comes to its EOF (the upstream's own, a dirty    *)
(* close after the announced length, a 416 on reconnect), the client holds *)
(* the whole window of the first response.                                 *)
THEOREM EOFComplete == Spec => []EOFMeansComplete
<1>1. IInv => EOFMeansComplete
  BY DEF IInv, Bounds, Ending
<1>2. QED
  BY <1>1, AlwaysIInv, PTL

(* A client that has the announced length is never told that the retries   *)
(* are used up or that no other pod was found.                             *)
THEOREM CompleteIsNoFailure == Spec => []CompleteNeverFails
<1>1. IInv => CompleteNeverFails
  BY DEF IInv, Bounds, Ending
<1>2. QED
  BY <1>1, AlwaysIInv, PTL
=============================================================================
