--------------------------- MODULE FormDataProofs ---------------------------
(***************************************************************************)
(* Proofs about FormData, for any requests, names and sizes: that the      *)
(* parser stays within its buffers and within the boundary, that of a      *)
(* well-formed body it enters the parts, and that it comes to the end.     *)
(***************************************************************************)
EXTENDS FormData, Induction, SequenceTheorems

-----------------------------------------------------------------------------
(* The output buffer and the value, while symbols are put into them.       *)

Texts == Seq(Symbols)

Buffers == [out : { s \in Texts : Len(s) < BufferSize }, value : { s \in Texts : Len(s) <= BufferSize }]

LEMMA PutCharWithin ==
  ASSUME NEW buf \in Buffers, NEW s \in Symbols
  PROVE  PutChar(buf, s) \in Buffers
<1> DEFINE text == Append(buf.out, s)
<1>1. /\ buf.out \in Texts /\ Len(buf.out) < BufferSize /\ Len(buf.out) \in Nat
      /\ buf.value \in Texts /\ Len(buf.value) <= BufferSize
      /\ buf = [out |-> buf.out, value |-> buf.value]
  BY LenProperties DEF Buffers, Texts
<1>2. text \in Texts /\ Len(text) = Len(buf.out) + 1
  BY <1>1, AppendProperties DEF Texts
<1>3. PutChar(buf, s) = IF Len(text) = BufferSize
                        THEN [out |-> <<>>, value |-> IF buf.value = <<>> THEN text ELSE buf.value]
                        ELSE [out |-> text, value |-> buf.value]
  BY <1>1 DEF PutChar, Flush
<1>4. <<>> \in Texts /\ Len(<<>>) = 0 /\ BufferSize \in Nat \ {0}
  BY FormDataAssumption DEF Texts
<1> HIDE DEF text
<1>5. Len(text) = BufferSize \/ Len(text) < BufferSize
  BY <1>1, <1>2, <1>4
<1> QED BY <1>1, <1>2, <1>3, <1>4, <1>5 DEF Buffers

Filling(symbols, buf) ==
  [i \in 0 .. Len(symbols) |->
     IF i = 0 THEN [out |-> out, value |-> value] ELSE PutChar(buf[i - 1], symbols[i])]

(* The loop over the symbols has a result.                                 *)
LEMMA FillingExists ==
  ASSUME NEW symbols \in Texts, [out |-> out, value |-> value] \in Buffers
  PROVE  \E buf : buf = Filling(symbols, buf)
<1> DEFINE step == [i \in 1 .. Len(symbols) |-> [b \in Buffers |-> PutChar(b, symbols[i])]]
           first == [out |-> out, value |-> value]
<1>1. Len(symbols) \in Nat /\ \A i \in 1 .. Len(symbols) : symbols[i] \in Symbols
  BY LenProperties, ElementOfSeq DEF Texts
<1>2. step \in [1 .. Len(symbols) -> [Buffers -> Buffers]]
  BY <1>1, PutCharWithin
<1>3. \A i \in 1 .. Len(symbols), b \in Buffers : step[i][b] = PutChar(b, symbols[i])
  OBVIOUS
<1> HIDE DEF step
<1>4. first \in Buffers
  OBVIOUS
<1> HIDE DEF first
<1>5. PICK f \in [0 .. Len(symbols) -> Buffers] :
        f[0] = first /\ \A i \in 1 .. Len(symbols) : f[i] = step[i][f[i - 1]]
  <2>1. \A n \in Nat : \A g \in [1 .. n -> [Buffers -> Buffers]] :
          \E f \in [0 .. n -> Buffers] : f[0] = first /\ \A i \in 1 .. n : f[i] = g[i][f[i - 1]]
    BY <1>4, LoopExists
  <2> QED BY <1>1, <1>2, <2>1
<1>6. ASSUME NEW i \in 0 .. Len(symbols)
      PROVE  f[i] = IF i = 0 THEN first ELSE PutChar(f[i - 1], symbols[i])
  <2>1. CASE i # 0
    <3>1. i \in 1 .. Len(symbols) /\ i - 1 \in 0 .. Len(symbols)
      BY <1>1, <2>1
    <3>2. f[i - 1] \in Buffers
      BY <1>5, <3>1
    <3> QED BY <1>3, <1>5, <2>1, <3>1, <3>2
  <2> QED BY <1>5, <2>1
<1>7. f = Filling(symbols, f)
  BY <1>5, <1>6 DEF Filling, first
<1> QED BY <1>7

LEMMA OutputWithin ==
  ASSUME NEW symbols \in Texts, [out |-> out, value |-> value] \in Buffers, Output(symbols)
  PROVE  [out |-> out', value |-> value'] \in Buffers
<1> DEFINE buf == CHOOSE b : b = Filling(symbols, b)
           S == { n \in 0 .. Len(symbols) : buf[n] \in Buffers }
<1>1. buf = Filling(symbols, buf)
  BY FillingExists
<1>2. out' = buf[Len(symbols)].out /\ value' = buf[Len(symbols)].value
  BY DEF Output, Filling
<1> HIDE DEF buf
<1>3. Len(symbols) \in Nat /\ 0 \in S
  BY <1>1, LenProperties DEF Filling, Texts
<1>4. ASSUME NEW n \in 1 .. Len(symbols), n - 1 \in S PROVE n \in S
  <2>1. buf[n - 1] \in Buffers /\ symbols[n] \in Symbols
    BY <1>4, ElementOfSeq DEF Texts
  <2>2. buf[n] = PutChar(buf[n - 1], symbols[n])
    BY <1>1, <1>3 DEF Filling
  <2> QED BY <1>3, <2>1, <2>2, PutCharWithin
<1>5. Len(symbols) \in S
  <2> HIDE DEF S
  <2>1. 0 .. Len(symbols) \subseteq S
    BY <1>3, <1>4, BoundedInduction
  <2> QED BY <1>3, <2>1
<1>6. buf[Len(symbols)] \in Buffers
  BY <1>5
<1> QED BY <1>2, <1>6 DEF Buffers

-----------------------------------------------------------------------------
(* The inductive invariant: beside what WithinBuffers says, that what is   *)
(* read is text, and that the pattern being matched has a boundary in it.  *)

Lengths ==
  /\ chunk \in 0 .. StdinMax
  /\ unread \in Texts /\ input \in Texts

Matching ==
  /\ pattern \in Texts
  /\ start \in 0 .. 2 /\ pos \in Nat
  /\ pc = "parsing" => start <= pos /\ pos < Len(pattern) /\ 4 < Len(pattern)

Collected ==
  /\ header \in Texts /\ Len(header) < MaxHeader
  /\ [out |-> out, value |-> value] \in Buffers
  /\ field \in Names \cup {NoName}
  /\ DOMAIN params \subseteq Names \cup {NoName}

IInv ==
  /\ pc \in {"start", "parsing", "returned", "refused"}
  /\ state \in {"seek", "after", "headers", "data", "finish"}
  /\ request \in Requests
  /\ Lengths /\ Matching /\ Collected

LEMMA InitIInv == Init => IInv
<1> SUFFICES ASSUME Init PROVE IInv
  OBVIOUS
<1>1. <<>> \in Texts /\ Len(<<>>) = 0 /\ DOMAIN <<>> = {}
  BY DEF Texts
<1>2. Lengths /\ Matching
  BY <1>1, FormDataAssumption DEF Init, Lengths, Matching, Texts
<1>3. Collected
  BY <1>1, FormDataAssumption DEF Init, Collected, Buffers
<1> QED BY <1>2, <1>3 DEF Init, IInv

LEMMA LeastProperties ==
  ASSUME NEW m \in Nat, NEW n \in Nat
  PROVE  Least(m, n) \in Nat /\ Least(m, n) <= m /\ Least(m, n) <= n
BY DEF Least

(* The boundary is put after four symbols.                                 *)
LEMMA BeginMatches ==
  ASSUME IInv, pc = "start", NEW b \in Texts \ {<<>>}, Begin(b)
  PROVE  IInv'
<1> DEFINE front == <<"cr", "lf", "-", "-">>
<1>1. front \in Texts /\ Len(front) = 4
  <2>1. "cr" \in Symbols /\ "lf" \in Symbols /\ "-" \in Symbols
    BY FormDataAssumption
  <2>2. front \in Seq(Symbols)
    BY <2>1
  <2>3. Len(front) = 4
    OBVIOUS
  <2> QED BY <2>2, <2>3 DEF Texts
<1>2. Len(b) \in Nat /\ Len(b) # 0
  BY LenProperties, EmptySeq DEF Texts
<1>3. pattern' \in Texts /\ Len(pattern') = 4 + Len(b)
  <2> HIDE DEF front
  <2>1. pattern' = front \o b
    BY DEF Begin, front
  <2>2. front \o b \in Seq(Symbols) /\ Len(front \o b) = Len(front) + Len(b)
    BY <1>1, ConcatProperties DEF Texts
  <2> QED BY <1>1, <2>1, <2>2 DEF Texts
<1>4. Matching'
  BY <1>2, <1>3 DEF Begin, Matching
<1>5. request.length \in Nat /\ StdinMax \in Nat
  BY FormDataAssumption DEF IInv
<1>6. Lengths'
  <2>1. Least(request.length, StdinMax) \in 0 .. StdinMax
    BY <1>5 DEF Least
  <2> QED BY <2>1 DEF Begin, Lengths, IInv
<1>7. Collected'
  BY DEF Begin, Collected, IInv, partVars
<1> QED BY <1>4, <1>6, <1>7 DEF Begin, IInv

LEMMA StartIInv == IInv /\ (Start \/ StartWithout \/ Refuse) => IInv'
<1>1. ASSUME IInv, Start PROVE IInv'
  <2>1. request.boundary \in Texts \ {<<>>}
    BY <1>1, FormDataAssumption DEF IInv, Texts
  <2> QED BY <1>1, <2>1, BeginMatches DEF Start
<1>2. ASSUME IInv, StartWithout PROVE IInv'
  BY <1>2, FormDataAssumption, BeginMatches DEF StartWithout, Texts
<1>3. ASSUME IInv, Refuse PROVE IInv'
  BY <1>3 DEF IInv, Refuse, Lengths, Matching, Collected, readVars, matchVars, partVars
<1> QED BY <1>1, <1>2, <1>3

LEMMA ReadIInv == IInv /\ (Read \/ Return) => IInv'
<1>1. ASSUME IInv, Read PROVE IInv'
  <2>1. Len(unread) \in Nat /\ chunk \in Nat /\ StdinMax \in Nat /\ chunk <= StdinMax
    BY <1>1, LenProperties, FormDataAssumption DEF IInv, Lengths, Texts
  <2>2. chunk' \in Nat /\ chunk' <= chunk /\ chunk' <= Len(unread)
    BY <1>1, <2>1, LeastProperties DEF Read
  <2>3. input' \in Texts /\ unread' \in Texts
    <3>1. PICK k \in Nat : k = chunk'
      BY <2>2
    <3>2. k <= Len(unread) /\ \A i \in 1 .. Len(unread) : unread[i] \in Symbols
      BY <1>1, <2>2, <3>1, ElementOfSeq DEF IInv, Lengths, Texts
    <3>3. SubSeq(unread, 1, k) \in Texts /\ SubSeq(unread, k + 1, Len(unread)) \in Texts
      BY <2>1, <3>2, SubSeqProperties DEF Texts
    <3> QED BY <1>1, <3>1, <3>3 DEF Read
  <2>4. Lengths'
    BY <2>1, <2>2, <2>3 DEF Lengths
  <2> QED BY <1>1, <2>4 DEF IInv, Read, Matching, Collected, matchVars, partVars
<1>2. ASSUME IInv, Return PROVE IInv'
  BY <1>2 DEF IInv, Return, Lengths, Matching, Collected, readVars, matchVars, partVars
<1> QED BY <1>1, <1>2

-----------------------------------------------------------------------------
(* The steps of the parser.                                                *)

LEMMA ConsumeLengths ==
  ASSUME Lengths, input # <<>>, Consume
  PROVE  Lengths' /\ pc' = pc /\ request' = request /\ Head(input) \in Symbols
<1>1. Tail(input) \in Texts /\ Head(input) \in Symbols
  BY HeadTailProperties DEF Lengths, Texts
<1> QED BY <1>1 DEF Lengths, Consume, readVars

LEMMA ThrowIInv ==
  ASSUME IInv, Throw
  PROVE  IInv'
<1>1. <<>> \in Texts
  BY DEF Texts
<1> QED BY <1>1 DEF IInv, Throw, Lengths, Matching, Collected, readVars, matchVars, partVars

LEMMA SeekIInv ==
  ASSUME IInv, Seek \/ AfterBoundary \/ Skip
  PROVE  IInv'
<1>1. CASE Seek
  <2>1. Lengths' /\ pc' = pc /\ request' = request /\ pc = "parsing"
    BY <1>1, ConsumeLengths DEF IInv, Seek, In
  <2>2. Collected' /\ pattern' = pattern /\ state' \in {state, "after"}
    BY <1>1 DEF IInv, Seek, Collected, partVars
  <2>3. \/ start' = 0 /\ pos' = 0
        \/ start' = start /\ pos' = start
        \/ start' = start /\ pos' = pos + 1 /\ pos + 1 # Len(pattern)
    BY <1>1 DEF Seek, Complete
  <2>4. Len(pattern) \in Nat
    BY LenProperties DEF IInv, Matching, Texts
  <2>5. Matching'
    BY <2>1, <2>2, <2>3, <2>4 DEF IInv, Matching
  <2> QED BY <2>1, <2>2, <2>5 DEF IInv
<1>2. CASE AfterBoundary
  <2>1. Lengths' /\ pc' = pc /\ request' = request
    BY <1>2, ConsumeLengths DEF IInv, AfterBoundary, In
  <2>2. Matching' /\ state' \in {state, "headers", "finish"}
    BY <1>2, <2>1 DEF IInv, AfterBoundary, Matching, matchVars
  <2>3. header' \in {header, <<>>} /\ <<>> \in Texts /\ Len(<<>>) = 0 /\ MaxHeader \in Nat \ {0}
    BY <1>2, FormDataAssumption DEF AfterBoundary, Texts
  <2>4. Collected'
    BY <1>2, <2>3 DEF IInv, AfterBoundary, Collected, partVars
  <2> QED BY <2>1, <2>2, <2>4 DEF IInv
<1>3. CASE Skip
  <2>1. Lengths' /\ pc' = pc /\ request' = request
    BY <1>3, ConsumeLengths DEF IInv, Skip, In
  <2> QED BY <1>3, <2>1 DEF IInv, Skip, Matching, Collected, matchVars, partVars
<1> QED BY <1>1, <1>2, <1>3

LEMMA HeaderIInv ==
  ASSUME IInv, \/ HeaderSymbol \/ HeaderTooLong \/ HeaderReturn
               \/ HeaderLine \/ HeaderBad \/ HeadersEnd
  PROVE  IInv'
<1>0. <<>> \in Texts /\ Len(<<>>) = 0 /\ MaxHeader \in Nat \ {0} /\ BufferSize \in Nat \ {0}
  BY FormDataAssumption DEF Texts
<1>1. CASE HeaderTooLong \/ HeaderBad
  BY <1>1, ThrowIInv DEF HeaderTooLong, HeaderBad
<1>2. CASE HeaderSymbol \/ HeaderReturn \/ HeaderLine \/ HeadersEnd
  <2>1. Lengths' /\ pc' = pc /\ request' = request /\ Head(input) \in Symbols
    BY <1>2, ConsumeLengths
       DEF IInv, HeaderSymbol, HeaderReturn, HeaderLine, HeadersEnd, In
  <2>2. Matching' /\ state' \in {state, "data"}
    BY <1>2, <2>1
       DEF IInv, HeaderSymbol, HeaderReturn, HeaderLine, HeadersEnd, Matching, matchVars
  <2>3. CASE HeaderSymbol
    <3>1. header' = Append(header, Head(input)) /\ Len(header) < MaxHeader - 1
      BY <2>3 DEF HeaderSymbol, c
    <3>2. Append(header, Head(input)) \in Texts /\ Len(Append(header, Head(input))) = Len(header) + 1
      BY <2>1, AppendProperties DEF IInv, Collected, Texts
    <3>3. Len(header) \in Nat
      BY LenProperties DEF IInv, Collected, Texts
    <3>4. header' \in Texts /\ Len(header') < MaxHeader
      BY <1>0, <3>1, <3>2, <3>3
    <3> QED BY <2>1, <2>2, <2>3, <3>4 DEF IInv, Collected, HeaderSymbol, partVars
  <2>4. CASE HeaderReturn
    BY <2>1, <2>2, <2>4 DEF IInv, Collected, HeaderReturn, partVars
  <2>5. CASE HeaderLine
    BY <1>0, <2>1, <2>2, <2>5 DEF IInv, Collected, HeaderLine
  <2>6. CASE HeadersEnd
    BY <1>0, <2>1, <2>2, <2>6 DEF IInv, Collected, HeadersEnd, Buffers
  <2> QED BY <1>2, <2>3, <2>4, <2>5, <2>6
<1> QED BY <1>1, <1>2
LEMMA DataIInv ==
  ASSUME IInv, DataMatch \/ DataEnd \/ DataSymbol \/ DataLineFeed \/ DataMismatch
  PROVE  IInv'
<1>0. /\ pc = "parsing" /\ input # <<>> /\ Len(pattern) \in Nat
      /\ <<>> \in Texts /\ Len(<<>>) = 0 /\ BufferSize \in Nat \ {0}
  BY FormDataAssumption, LenProperties
     DEF IInv, Matching, Texts, In, DataMatch, DataEnd, DataSymbol, DataLineFeed, DataMismatch
<1>1. CASE DataMatch
  <2>1. Lengths' /\ pc' = pc /\ request' = request
    BY <1>0, <1>1, ConsumeLengths DEF IInv, DataMatch
  <2>2. pos' = pos + 1 /\ pos + 1 # Len(pattern) /\ start' = start /\ pattern' = pattern
    BY <1>1 DEF DataMatch, Complete
  <2>3. Matching'
    BY <1>0, <2>1, <2>2 DEF IInv, Matching
  <2> QED BY <1>1, <2>1, <2>3 DEF IInv, DataMatch, Collected, partVars
<1>2. CASE DataEnd
  <2>1. Lengths' /\ pc' = pc /\ request' = request
    BY <1>0, <1>2, ConsumeLengths DEF IInv, DataEnd
  <2>2. Matching' /\ state' = "after"
    BY <1>0, <1>2, <2>1 DEF IInv, Matching, DataEnd
  <2>3. DOMAIN params' \subseteq Names \cup {NoName}
    BY <1>2 DEF IInv, Collected, DataEnd
  <2>4. [out |-> out', value |-> value'] \in Buffers
    BY <1>0, <1>2 DEF DataEnd, Buffers
  <2>5. Collected'
    BY <1>2, <2>3, <2>4 DEF IInv, Collected, DataEnd
  <2> QED BY <2>1, <2>2, <2>5 DEF IInv
<1>3. CASE DataSymbol
  <2>1. Lengths' /\ pc' = pc /\ request' = request /\ Head(input) \in Symbols
    BY <1>0, <1>3, ConsumeLengths DEF IInv, DataSymbol
  <2>2. <<Head(input)>> \in Texts /\ Output(<<Head(input)>>)
    BY <1>3, <2>1 DEF DataSymbol, c, Texts
  <2>3. [out |-> out', value |-> value'] \in Buffers
    BY <2>2, OutputWithin DEF IInv, Collected
  <2>4. Collected' /\ Matching' /\ state' = state
    BY <1>3, <2>1, <2>3 DEF IInv, Collected, Matching, DataSymbol, matchVars
  <2> QED BY <2>1, <2>4 DEF IInv
<1>4. CASE DataLineFeed
  <2>1. Lengths' /\ pc' = pc /\ request' = request
    BY <1>0, <1>4, ConsumeLengths DEF IInv, DataLineFeed
  <2>2. Matching'
    BY <1>0, <1>4, <2>1 DEF IInv, Matching, DataLineFeed
  <2> QED BY <1>4, <2>1, <2>2 DEF IInv, DataLineFeed, Collected, partVars
<1>5. CASE DataMismatch
  <2> DEFINE held == SubSeq(pattern, start + 1, pos)
  <2>1. held \in Texts
    <3>1. \A i \in 1 .. Len(pattern) : pattern[i] \in Symbols
      BY ElementOfSeq DEF IInv, Matching, Texts
    <3>2. start \in Nat /\ pos \in Nat /\ pos < Len(pattern)
      BY <1>0 DEF IInv, Matching
    <3>3. \A i \in start + 1 .. pos : pattern[i] \in Symbols
      BY <1>0, <3>1, <3>2
    <3> QED BY <3>2, <3>3, SubSeqProperties DEF Texts
  <2> HIDE DEF held
  <2>2. Output(held)
    BY <1>5 DEF DataMismatch, held
  <2>3. [out |-> out', value |-> value'] \in Buffers
    BY <2>1, <2>2, OutputWithin DEF IInv, Collected
  <2>4. Matching'
    BY <1>0, <1>5 DEF IInv, Matching, DataMismatch
  <2>5. Collected'
    BY <1>5, <2>3 DEF IInv, Collected, DataMismatch
  <2> QED BY <1>5, <2>4, <2>5 DEF IInv, DataMismatch, Lengths, readVars
<1> QED BY <1>1, <1>2, <1>3, <1>4, <1>5

LEMMA NextIInv == IInv /\ [Next]_vars => IInv'
<1> SUFFICES ASSUME IInv, [Next]_vars PROVE IInv'
  OBVIOUS
<1>1. CASE ParseStep
  BY <1>1, SeekIInv, HeaderIInv, DataIInv DEF ParseStep
<1>2. CASE UNCHANGED vars
  BY <1>2 DEF vars, readVars, matchVars, partVars, IInv, Lengths, Matching, Collected
<1> QED BY <1>1, <1>2, StartIInv, ReadIInv DEF Next, Finished

THEOREM Invariance == Spec => []IInv
BY InitIInv, NextIInv, PTL DEF Spec

-----------------------------------------------------------------------------
(* The parser stays within its two buffers, and what it compares is a      *)
(* symbol of the boundary, for bodies of any length and content, buffers of*)
(* any size, and whatever is taken for the boundary                        *)
(* (fcgi_handler.cpp:240-249, 286-291, 309-365).                           *)
THEOREM StaysWithinBuffers == Spec => []WithinBuffers
<1>1. IInv => WithinBuffers
  BY DEF IInv, Lengths, Matching, Collected, Buffers, WithinBuffers
<1> QED BY <1>1, Invariance, PTL

-----------------------------------------------------------------------------
(* What is ahead of the parser, as the rest of a text and what follows it. *)

(* What of a text is left after its first j symbols.                       *)
Suffix(text, j) == SubSeq(text, j + 1, Len(text))

LEMMA SuffixProperties ==
  ASSUME NEW t \in Texts, NEW j \in 0 .. Len(t)
  PROVE  /\ Suffix(t, j) \in Texts
         /\ Len(Suffix(t, j)) = Len(t) - j
         /\ \A i \in 1 .. Len(t) - j : Suffix(t, j)[i] = t[j + i]
<1>1. Len(t) \in Nat /\ \A i \in 1 .. Len(t) : t[i] \in Symbols
  BY LenProperties, ElementOfSeq DEF Texts
<1>2. \A i \in j + 1 .. Len(t) : t[i] \in Symbols
  BY <1>1
<1>3. /\ SubSeq(t, j + 1, Len(t)) \in Seq(Symbols)
      /\ Len(SubSeq(t, j + 1, Len(t))) = IF j + 1 <= Len(t) THEN Len(t) - (j + 1) + 1 ELSE 0
      /\ \A i \in 1 .. Len(t) - (j + 1) + 1 : SubSeq(t, j + 1, Len(t))[i] = t[(j + 1) + i - 1]
  BY <1>1, <1>2, SubSeqProperties
<1>4. \A i \in 1 .. Len(t) - j : (j + 1) + i - 1 = j + i
  BY <1>1
<1> QED BY <1>1, <1>3, <1>4 DEF Suffix, Texts

LEMMA SuffixEnds ==
  ASSUME NEW t \in Texts
  PROVE  Suffix(t, 0) = t /\ Suffix(t, Len(t)) = <<>>
<1>1. Len(t) \in Nat
  BY LenProperties DEF Texts
<1> QED BY <1>1, SubSeqFull, SubSeqEmpty DEF Suffix, Texts

(* The next symbol of a text that has not come to its end.                 *)
LEMMA SuffixStep ==
  ASSUME NEW t \in Texts, NEW u \in Texts, NEW j \in Nat, j < Len(t)
  PROVE  /\ Suffix(t, j) \o u \in Texts /\ Suffix(t, j) \o u # <<>>
         /\ Head(Suffix(t, j) \o u) = t[j + 1]
         /\ Tail(Suffix(t, j) \o u) = Suffix(t, j + 1) \o u
<1> DEFINE s == Suffix(t, j)
           s2 == Suffix(t, j + 1)
           r == s \o u
           r2 == s2 \o u
<1>1. Len(t) \in Nat /\ Len(u) \in Nat /\ j \in 0 .. Len(t) /\ j + 1 \in 0 .. Len(t)
  BY LenProperties DEF Texts
<1>2. /\ s \in Texts /\ Len(s) = Len(t) - j /\ \A i \in 1 .. Len(t) - j : s[i] = t[j + i]
  BY <1>1, SuffixProperties
<1>3. /\ s2 \in Texts /\ Len(s2) = Len(t) - (j + 1) /\ \A i \in 1 .. Len(t) - (j + 1) : s2[i] = t[(j + 1) + i]
  BY <1>1, SuffixProperties
<1> HIDE DEF s, s2
<1>4. /\ r \in Texts /\ Len(r) = Len(s) + Len(u)
      /\ \A i \in 1 .. Len(s) + Len(u) : r[i] = IF i <= Len(s) THEN s[i] ELSE u[i - Len(s)]
  BY <1>2, ConcatProperties DEF Texts
<1>5. /\ r2 \in Texts /\ Len(r2) = Len(s2) + Len(u)
      /\ \A i \in 1 .. Len(s2) + Len(u) : r2[i] = IF i <= Len(s2) THEN s2[i] ELSE u[i - Len(s2)]
  BY <1>3, ConcatProperties DEF Texts
<1> HIDE DEF r, r2
<1>6. r # <<>> /\ Len(r) \in Nat \ {0}
  <2>1. Len(r) # 0
    BY <1>1, <1>2, <1>4
  <2>2. Len(<<>>) = 0
    OBVIOUS
  <2> QED BY <1>1, <1>2, <1>4, <2>1, <2>2
<1>7. Head(r) = r[1]
  BY <1>4, <1>6 DEF Texts
<1>8. r[1] = t[j + 1]
  BY <1>1, <1>2, <1>4
<1>9. Tail(r) \in Texts /\ Len(Tail(r)) = Len(r) - 1 /\ \A i \in 1 .. Len(Tail(r)) : Tail(r)[i] = r[i + 1]
  BY <1>4, <1>6, HeadTailProperties DEF Texts
<1>10. Len(Tail(r)) = Len(r2)
  BY <1>1, <1>2, <1>3, <1>4, <1>5, <1>9
<1>11. ASSUME NEW i \in 1 .. Len(Tail(r)) PROVE Tail(r)[i] = r2[i]
  <2>1. i \in 1 .. Len(s2) + Len(u) /\ i + 1 \in 1 .. Len(s) + Len(u) /\ Len(s) = Len(s2) + 1 /\ i \in Nat
    BY <1>1, <1>2, <1>3, <1>5, <1>10
  <2>2. CASE i <= Len(s2)
    <3>1. i + 1 <= Len(s) /\ i + 1 \in 1 .. Len(t) - j /\ i \in 1 .. Len(t) - (j + 1) /\ j + (i + 1) = (j + 1) + i
      BY <1>1, <1>2, <1>3, <2>1, <2>2
    <3>2. r2[i] = s2[i] /\ s2[i] = t[(j + 1) + i]
      BY <1>3, <1>5, <2>1, <2>2, <3>1
    <3>3. r[i + 1] = s[i + 1]
      BY <1>4, <2>1, <3>1
    <3>4. s[i + 1] = t[j + (i + 1)]
      BY <1>2, <3>1
    <3> QED BY <1>9, <3>1, <3>2, <3>3, <3>4
  <2>3. CASE ~(i <= Len(s2))
    <3>1. ~(i + 1 <= Len(s)) /\ (i + 1) - Len(s) = i - Len(s2)
      BY <1>1, <1>2, <1>3, <2>1, <2>3
    <3>2. r2[i] = u[i - Len(s2)]
      BY <1>5, <2>1, <2>3
    <3>3. r[i + 1] = u[(i + 1) - Len(s)]
      BY <1>4, <2>1, <3>1
    <3> QED BY <1>9, <3>1, <3>2, <3>3
  <2> QED BY <2>2, <2>3
<1>12. Tail(r) = r2
  BY <1>5, <1>9, <1>10, <1>11, SeqEqual DEF Texts
<1> QED BY <1>4, <1>6, <1>7, <1>8, <1>12 DEF r, r2, s, s2

(* What the parser has yet to look at, in its buffer and outside.          *)
Ahead == input \o unread

LEMMA AheadConsumed ==
  ASSUME Lengths, input # <<>>, Consume
  PROVE  Ahead' = Tail(Ahead) /\ c = Head(Ahead) /\ Ahead # <<>>
<1>1. /\ input \in Texts /\ unread \in Texts /\ Len(input) \in Nat \ {0} /\ Len(unread) \in Nat
  BY LenProperties, EmptySeq DEF Lengths, Texts
<1>2. /\ Suffix(input, 0) = input /\ Suffix(input, 1) = Tail(input)
  <2>1. Tail(input) = SubSeq(input, 2, Len(input))
    BY <1>1, TailIsSubSeq DEF Texts
  <2> QED BY <1>1, <2>1, SuffixEnds DEF Suffix
<1>3. /\ Head(Suffix(input, 0) \o unread) = input[0 + 1] /\ Suffix(input, 0) \o unread # <<>>
      /\ Tail(Suffix(input, 0) \o unread) = Suffix(input, 0 + 1) \o unread
  BY <1>1, SuffixStep
<1>4. Head(input) = input[1]
  BY <1>1 DEF Texts
<1>5. Ahead' = Tail(input) \o unread
  BY DEF Ahead, Consume, readVars
<1> QED BY <1>2, <1>3, <1>4, <1>5 DEF Ahead, c

(* A symbol that is consumed is the next one of a text that is ahead.      *)
LEMMA Consumed ==
  ASSUME Lengths, input # <<>>, Consume,
         NEW t \in Texts, NEW u \in Texts, NEW j \in Nat, j < Len(t), Ahead = Suffix(t, j) \o u
  PROVE  c = t[j + 1] /\ Ahead' = Suffix(t, j + 1) \o u
BY AheadConsumed, SuffixStep

(* The next symbol without its being consumed.                             *)
LEMMA NextIs ==
  ASSUME Lengths, input # <<>>,
         NEW t \in Texts, NEW u \in Texts, NEW j \in Nat, j < Len(t), Ahead = Suffix(t, j) \o u
  PROVE  c = t[j + 1]
<1>1. /\ input \in Texts /\ unread \in Texts /\ Len(input) \in Nat \ {0} /\ Len(unread) \in Nat
  BY LenProperties, EmptySeq DEF Lengths, Texts
<1>2. Suffix(input, 0) = input
  BY <1>1, SuffixEnds
<1>3. Head(Suffix(input, 0) \o unread) = input[0 + 1]
  BY <1>1, SuffixStep
<1>4. Head(input) = input[1]
  BY <1>1 DEF Texts
<1>5. Head(Ahead) = t[j + 1]
  BY SuffixStep
<1> QED BY <1>2, <1>3, <1>4, <1>5 DEF Ahead, c

LEMMA AheadRead == ASSUME IInv, Read PROVE Ahead' = Ahead /\ Ahead \in Texts
<1>1. Len(unread) \in Nat /\ chunk \in Nat /\ unread \in Texts /\ input = <<>>
  BY LenProperties, FormDataAssumption DEF IInv, Lengths, Texts, Read
<1>2. PICK k \in Nat : k = chunk' /\ k <= Len(unread)
  BY <1>1, LeastProperties DEF Read
<1>3. SubSeq(unread, 1, k) \o SubSeq(unread, k + 1, Len(unread)) = SubSeq(unread, 1, Len(unread))
  <2>1. 1 \in 1 .. Len(unread) + 1 /\ k \in 1 - 1 .. Len(unread) /\ Len(unread) \in k .. Len(unread)
    BY <1>1, <1>2
  <2> QED BY <1>1, <2>1, ConcatAdjacentSubSeq DEF Texts
<1>4. SubSeq(unread, 1, Len(unread)) = unread /\ <<>> \o unread = unread
  BY <1>1, SubSeqFull, ConcatEmptySeq DEF Texts
<1>5. Ahead' = SubSeq(unread, 1, k) \o SubSeq(unread, k + 1, Len(unread))
  BY <1>2 DEF Ahead, Read
<1> QED BY <1>1, <1>3, <1>4, <1>5 DEF Ahead

-----------------------------------------------------------------------------
(* The texts a well-formed body is made of.                                *)

LEMMA LineEnds ==
  ASSUME NEW eol \in Eols
  PROVE  /\ eol \in Texts /\ Dashes \in Texts /\ Len(Dashes) = 2
         /\ \/ eol = <<"cr", "lf">> /\ Len(eol) = 2 /\ eol[1] = "cr" /\ eol[2] = "lf"
            \/ eol = <<"lf">> /\ Len(eol) = 1 /\ eol[1] = "lf"
<1>1. "cr" \in Symbols /\ "lf" \in Symbols /\ "-" \in Symbols
  BY FormDataAssumption
<1>2. <<"cr", "lf">> \in Seq(Symbols) /\ <<"lf">> \in Seq(Symbols) /\ <<"-", "-">> \in Seq(Symbols)
  BY <1>1
<1>3. CASE eol = <<"cr", "lf">>
  BY <1>2, <1>3 DEF Dashes, Texts
<1>4. CASE eol = <<"lf">>
  BY <1>2, <1>4 DEF Dashes, Texts
<1> QED BY <1>3, <1>4 DEF Eols

(* Where the symbols of two texts are in both put together.                *)
LEMMA Joined ==
  ASSUME NEW s \in Texts, NEW t \in Texts
  PROVE  /\ s \o t \in Texts /\ Len(s \o t) = Len(s) + Len(t)
         /\ Len(s) \in Nat /\ Len(t) \in Nat
         /\ \A i \in 1 .. Len(s) : (s \o t)[i] = s[i]
         /\ \A i \in 1 .. Len(t) : (s \o t)[Len(s) + i] = t[i]
<1>1. Len(s) \in Nat /\ Len(t) \in Nat
  BY LenProperties DEF Texts
<1>2. /\ s \o t \in Texts /\ Len(s \o t) = Len(s) + Len(t)
      /\ \A i \in 1 .. Len(s) + Len(t) : (s \o t)[i] = IF i <= Len(s) THEN s[i] ELSE t[i - Len(s)]
  BY ConcatProperties DEF Texts
<1>3. ASSUME NEW i \in 1 .. Len(s) PROVE (s \o t)[i] = s[i]
  <2>1. i \in 1 .. Len(s) + Len(t) /\ i <= Len(s)
    BY <1>1
  <2> QED BY <1>2, <2>1
<1>4. ASSUME NEW i \in 1 .. Len(t) PROVE (s \o t)[Len(s) + i] = t[i]
  <2>1. Len(s) + i \in 1 .. Len(s) + Len(t) /\ ~(Len(s) + i <= Len(s)) /\ (Len(s) + i) - Len(s) = i
    BY <1>1
  <2> QED BY <1>2, <2>1
<1> QED BY <1>1, <1>2, <1>3, <1>4

LEMMA Fronts ==
  /\ <<"cr", "lf">> \o Dashes = <<"cr", "lf", "-", "-">>
  /\ LET two == <<"cr", "lf">> \o Dashes  one == <<"lf">> \o Dashes
     IN  /\ two \in Texts /\ Len(two) = 4 /\ two[1] = "cr" /\ two[2] = "lf" /\ two[3] = "-" /\ two[4] = "-"
         /\ one \in Texts /\ Len(one) = 3 /\ one[1] = "lf" /\ one[2] = "-" /\ one[3] = "-"
<1> DEFINE two == <<"cr", "lf">>  one == <<"lf">>  four == <<"cr", "lf", "-", "-">>
<1>1. "cr" \in Symbols /\ "lf" \in Symbols /\ "-" \in Symbols
  BY FormDataAssumption
<1>2. two \in Texts /\ Len(two) = 2 /\ two[1] = "cr" /\ two[2] = "lf"
  BY <1>1 DEF Texts
<1>3. one \in Texts /\ Len(one) = 1 /\ one[1] = "lf"
  BY <1>1 DEF Texts
<1>4. four \in Texts /\ Len(four) = 4 /\ four[1] = "cr" /\ four[2] = "lf" /\ four[3] = "-" /\ four[4] = "-"
  BY <1>1 DEF Texts
<1>5. Dashes \in Texts /\ Len(Dashes) = 2 /\ Dashes[1] = "-" /\ Dashes[2] = "-"
  BY <1>1 DEF Texts, Dashes
<1> HIDE DEF two, one, four
<1>6. /\ two \o Dashes \in Texts /\ Len(two \o Dashes) = 4
      /\ (two \o Dashes)[1] = "cr" /\ (two \o Dashes)[2] = "lf"
      /\ (two \o Dashes)[3] = "-" /\ (two \o Dashes)[4] = "-"
  <2>1. /\ two \o Dashes \in Texts /\ Len(two \o Dashes) = Len(two) + Len(Dashes)
        /\ \A i \in 1 .. Len(two) : (two \o Dashes)[i] = two[i]
        /\ \A i \in 1 .. Len(Dashes) : (two \o Dashes)[Len(two) + i] = Dashes[i]
    BY <1>2, <1>5, Joined
  <2>2. (two \o Dashes)[2 + 1] = "-" /\ (two \o Dashes)[2 + 2] = "-"
    BY <1>2, <1>5, <2>1
  <2> QED BY <1>2, <1>5, <2>1, <2>2
<1>7. two \o Dashes = four
  <2>1. \A i \in 1 .. 4 : (two \o Dashes)[i] = four[i]
    BY <1>4, <1>6
  <2> QED BY <1>4, <1>6, <2>1, SeqEqual DEF Texts
<1>8. /\ one \o Dashes \in Texts /\ Len(one \o Dashes) = 3
      /\ (one \o Dashes)[1] = "lf" /\ (one \o Dashes)[2] = "-" /\ (one \o Dashes)[3] = "-"
  <2>1. /\ one \o Dashes \in Texts /\ Len(one \o Dashes) = Len(one) + Len(Dashes)
        /\ \A i \in 1 .. Len(one) : (one \o Dashes)[i] = one[i]
        /\ \A i \in 1 .. Len(Dashes) : (one \o Dashes)[Len(one) + i] = Dashes[i]
    BY <1>3, <1>5, Joined
  <2>2. (one \o Dashes)[1 + 1] = "-" /\ (one \o Dashes)[1 + 2] = "-"
    BY <1>3, <1>5, <2>1
  <2> QED BY <1>3, <1>5, <2>1, <2>2
<1> QED BY <1>6, <1>7, <1>8 DEF two, one, four

(* The boundary the parser looks for: two symbols of line end, two dashes, *)
(* and a parameter in which there is no line end.                          *)
Pattern(b) == <<"cr", "lf">> \o Dashes \o b

OneLine(b) == b \in Texts /\ \A i \in DOMAIN b : b[i] \notin {"cr", "lf"}

LEMMA PatternIs ==
  ASSUME NEW b, OneLine(b)
  PROVE  /\ Pattern(b) \in Texts /\ Len(Pattern(b)) = 4 + Len(b) /\ Len(b) \in Nat
         /\ Pattern(b)[1] = "cr" /\ Pattern(b)[2] = "lf"
         /\ \A x \in 3 .. 4 + Len(b) : Pattern(b)[x] \notin {"cr", "lf"}
         /\ <<"cr", "lf", "-", "-">> \o b = Pattern(b)
<1> DEFINE front == <<"cr", "lf">> \o Dashes
<1>1. <<"cr", "lf">> \o Dashes = <<"cr", "lf", "-", "-">>
  BY Fronts
<1>2. b \in Texts /\ DOMAIN b = 1 .. Len(b) /\ \A i \in DOMAIN b : b[i] \notin {"cr", "lf"}
  BY LenProperties DEF OneLine, Texts
<1>3. front \in Texts /\ Len(front) = 4 /\ front[1] = "cr" /\ front[2] = "lf" /\ front[3] = "-" /\ front[4] = "-"
  BY Fronts
<1> HIDE DEF front
<1>4. Pattern(b) = front \o b
  BY DEF Pattern, front
<1>5. /\ front \o b \in Texts /\ Len(front \o b) = 4 + Len(b) /\ Len(b) \in Nat
      /\ \A i \in 1 .. 4 : (front \o b)[i] = front[i]
      /\ \A i \in 1 .. Len(b) : (front \o b)[4 + i] = b[i]
  <2>1. /\ front \o b \in Texts /\ Len(front \o b) = Len(front) + Len(b) /\ Len(b) \in Nat
        /\ \A i \in 1 .. Len(front) : (front \o b)[i] = front[i]
        /\ \A i \in 1 .. Len(b) : (front \o b)[Len(front) + i] = b[i]
    BY <1>2, <1>3, Joined
  <2> QED BY <1>3, <2>1
<1>6. ASSUME NEW x \in 3 .. 4 + Len(b) PROVE Pattern(b)[x] \notin {"cr", "lf"}
  <2>1. CASE x \in {3, 4}
    BY <1>3, <1>4, <1>5, <2>1
  <2>2. CASE x \notin {3, 4}
    <3>1. x - 4 \in 1 .. Len(b) /\ 4 + (x - 4) = x
      BY <1>5, <2>2
    <3>2. (front \o b)[4 + (x - 4)] = b[x - 4]
      BY <1>5, <3>1
    <3> QED BY <1>2, <1>4, <3>1, <3>2
  <2> QED BY <2>1, <2>2
<1>7. <<"cr", "lf", "-", "-">> \o b = Pattern(b)
  BY <1>1, <1>4 DEF front
<1> QED BY <1>3, <1>4, <1>5, <1>6, <1>7

(* A delimiter is the end of the boundary, with a line end of both symbols *)
(* all of it.                                                              *)
LEMMA DelimiterIs ==
  ASSUME NEW b, OneLine(b), NEW eol \in Eols
  PROVE  /\ Delimiter(b, eol) \in Texts
         /\ Len(Delimiter(b, eol)) = Len(eol) + 2 + Len(b)
         /\ \A y \in 1 .. Len(eol) + 2 + Len(b) : Delimiter(b, eol)[y] = Pattern(b)[(2 - Len(eol)) + y]
<1>1. b \in Texts /\ Len(b) \in Nat
  BY PatternIs DEF OneLine
<1>2. CASE eol = <<"cr", "lf">>
  <2>1. Len(eol) = 2 /\ Delimiter(b, eol) = Pattern(b)
    BY <1>2 DEF Delimiter, Pattern
  <2>2. \A y \in 1 .. 4 + Len(b) : (2 - 2) + y = y
    BY <1>1
  <2> QED BY <1>1, <2>1, <2>2, PatternIs
<1>3. CASE eol = <<"lf">>
  <2> DEFINE front == eol \o Dashes
             all   == <<"cr", "lf">> \o Dashes
  <2>1. /\ front \in Texts /\ Len(front) = 3 /\ front[1] = "lf" /\ front[2] = "-" /\ front[3] = "-"
        /\ all \in Texts /\ Len(all) = 4 /\ all[2] = "lf" /\ all[3] = "-" /\ all[4] = "-"
    BY <1>3, Fronts
  <2> HIDE DEF front, all
  <2>2. \A y \in 1 .. 3 : front[y] = all[1 + y]
    BY <2>1
  <2>3. /\ front \o b \in Texts /\ Len(front \o b) = Len(front) + Len(b)
        /\ \A i \in 1 .. Len(front) : (front \o b)[i] = front[i]
        /\ \A i \in 1 .. Len(b) : (front \o b)[Len(front) + i] = b[i]
    BY <1>1, <2>1, Joined
  <2>4. /\ \A i \in 1 .. Len(all) : (all \o b)[i] = all[i]
        /\ \A i \in 1 .. Len(b) : (all \o b)[Len(all) + i] = b[i]
    BY <1>1, <2>1, Joined
  <2>5. Delimiter(b, eol) = front \o b /\ Pattern(b) = all \o b /\ Len(eol) = 1
    BY <1>3 DEF Delimiter, Pattern, front, all
  <2>6. ASSUME NEW y \in 1 .. 3 + Len(b) PROVE (front \o b)[y] = (all \o b)[1 + y]
    <3>1. CASE y \in 1 .. 3
      <4>1. 1 + y \in 1 .. 4
        BY <3>1
      <4> QED BY <2>1, <2>2, <2>3, <2>4, <3>1, <4>1
    <3>2. CASE y \notin 1 .. 3
      <4>1. y - 3 \in 1 .. Len(b) /\ 3 + (y - 3) = y /\ 4 + (y - 3) = 1 + y
        BY <1>1, <3>2
      <4>2. (front \o b)[3 + (y - 3)] = b[y - 3] /\ (all \o b)[4 + (y - 3)] = b[y - 3]
        BY <2>1, <2>3, <2>4, <4>1
      <4> QED BY <4>1, <4>2
    <3> QED BY <3>1, <3>2
  <2>7. \A y \in 1 .. 3 + Len(b) : (front \o b)[y] = (all \o b)[(2 - 1) + y]
    <3>1. \A y \in 1 .. 3 + Len(b) : (2 - 1) + y = 1 + y
      OBVIOUS
    <3> QED BY <2>6, <3>1
  <2>8. Len(front \o b) = 1 + 2 + Len(b) /\ 1 + 2 + Len(b) = 3 + Len(b) /\ front \o b \in Texts
    BY <1>1, <2>1, <2>3
  <2> QED BY <2>5, <2>7, <2>8
<1> QED BY <1>2, <1>3 DEF Eols

LEMMA HeadingIs ==
  ASSUME NEW part, part.name \in Symbols, NEW eol \in Eols
  PROVE  LET H == Heading(part, eol)
             e == Len(eol)
         IN  /\ H \in Texts /\ Len(H) = 3 * e + 1
             /\ \A j \in 0 .. 3 * e :
                  H[j + 1] = IF j = e THEN part.name
                             ELSE IF j \in {e - 1, 2 * e, 3 * e} THEN "lf" ELSE "cr"
<1> DEFINE name == <<part.name>>
           two   == eol \o name
           three == two \o eol
           H     == three \o eol
           e     == Len(eol)
<1>1. name \in Texts /\ Len(name) = 1 /\ name[1] = part.name
  BY DEF Texts
<1>2. eol \in Texts /\ e \in {1, 2}
      /\ (e = 2 => eol[1] = "cr" /\ eol[2] = "lf") /\ (e = 1 => eol[1] = "lf")
  BY LineEnds
<1> HIDE DEF name, e
<1>3. /\ two \in Texts /\ Len(two) = e + 1
      /\ \A i \in 1 .. e : two[i] = eol[i]
      /\ \A i \in 1 .. 1 : two[e + i] = name[i]
  <2>1. /\ eol \o name \in Texts /\ Len(eol \o name) = Len(eol) + Len(name)
        /\ \A i \in 1 .. Len(eol) : (eol \o name)[i] = eol[i]
        /\ \A i \in 1 .. Len(name) : (eol \o name)[Len(eol) + i] = name[i]
    BY <1>1, <1>2, Joined
  <2> QED BY <1>1, <1>2, <2>1 DEF e
<1> HIDE DEF two
<1>4. /\ three \in Texts /\ Len(three) = e + 1 + e
      /\ \A i \in 1 .. e + 1 : three[i] = two[i]
      /\ \A i \in 1 .. e : three[e + 1 + i] = eol[i]
  <2>1. /\ two \o eol \in Texts /\ Len(two \o eol) = Len(two) + Len(eol)
        /\ \A i \in 1 .. Len(two) : (two \o eol)[i] = two[i]
        /\ \A i \in 1 .. Len(eol) : (two \o eol)[Len(two) + i] = eol[i]
    BY <1>2, <1>3, Joined
  <2> QED BY <1>2, <1>3, <2>1 DEF e
<1> HIDE DEF three
<1>5. /\ H \in Texts /\ Len(H) = e + 1 + e + e
      /\ \A i \in 1 .. e + 1 + e : H[i] = three[i]
      /\ \A i \in 1 .. e : H[e + 1 + e + i] = eol[i]
  <2>1. /\ three \o eol \in Texts /\ Len(three \o eol) = Len(three) + Len(eol)
        /\ \A i \in 1 .. Len(three) : (three \o eol)[i] = three[i]
        /\ \A i \in 1 .. Len(eol) : (three \o eol)[Len(three) + i] = eol[i]
    BY <1>2, <1>4, Joined
  <2> QED BY <1>2, <1>4, <2>1 DEF e
<1> HIDE DEF H
<1>6. CASE e = 1
  <2>1. H[1] = "lf" /\ H[2] = part.name /\ H[3] = "lf" /\ H[4] = "lf"
    <3>1. two[1] = "lf" /\ two[2] = part.name
      BY <1>1, <1>2, <1>3, <1>6
    <3>2. three[1] = "lf" /\ three[2] = part.name /\ three[3] = "lf"
      BY <1>2, <1>4, <1>6, <3>1
    <3> QED BY <1>2, <1>5, <1>6, <3>2
  <2>2. \A j \in 0 .. 3 : H[j + 1] = IF j = 1 THEN part.name ELSE IF j \in {0, 2, 3} THEN "lf" ELSE "cr"
    BY <2>1
  <2> QED BY <1>5, <1>6, <2>2 DEF H, three, two, name, e, Heading
<1>7. CASE e = 2
  <2>1. /\ H[1] = "cr" /\ H[2] = "lf" /\ H[3] = part.name /\ H[4] = "cr" /\ H[5] = "lf"
        /\ H[6] = "cr" /\ H[7] = "lf"
    <3>1. two[1] = "cr" /\ two[2] = "lf" /\ two[3] = part.name
      BY <1>1, <1>2, <1>3, <1>7
    <3>2. /\ three[1] = "cr" /\ three[2] = "lf" /\ three[3] = part.name
          /\ three[4] = "cr" /\ three[5] = "lf"
      BY <1>2, <1>4, <1>7, <3>1
    <3> QED BY <1>2, <1>5, <1>7, <3>2
  <2>2. \A j \in 0 .. 6 : H[j + 1] = IF j = 2 THEN part.name ELSE IF j \in {1, 4, 6} THEN "lf" ELSE "cr"
    BY <2>1
  <2> QED BY <1>5, <1>7, <2>2 DEF H, three, two, name, e, Heading
<1> QED BY <1>2, <1>6, <1>7

(* A value and the delimiter after it.                                     *)
Piece(r, k, eol) == r.parts[k].value \o Delimiter(r.boundary, eol)

LEMMA RequestIs ==
  ASSUME NEW r \in Requests, NEW eol \in Eols, WellFormed(r, eol)
  PROVE  /\ OneLine(r.boundary) /\ Len(r.parts) \in Nat /\ DOMAIN r.parts = 1 .. Len(r.parts)
         /\ \A k \in 1 .. Len(r.parts) :
              /\ r.parts[k].name \in Names /\ r.parts[k].value \in Texts
              /\ Carries(r.parts[k].value, r.boundary, eol)
<1>1. r.boundary \in Texts /\ r.parts \in Seq([name : Names, value : Texts])
  BY FormDataAssumption DEF Texts
<1>2. /\ Len(r.parts) \in Nat /\ DOMAIN r.parts = 1 .. Len(r.parts)
      /\ \A k \in 1 .. Len(r.parts) : r.parts[k] \in [name : Names, value : Texts]
  BY <1>1, LenProperties, ElementOfSeq
<1>3. \A k \in 1 .. Len(r.parts) : r.parts[k].name \in Names /\ r.parts[k].value \in Texts
  BY <1>2
<1> QED BY <1>1, <1>2, <1>3 DEF WellFormed, OneLine

LEMMA PieceIs ==
  ASSUME NEW r \in Requests, NEW eol \in Eols, WellFormed(r, eol), NEW k \in 1 .. Len(r.parts)
  PROVE  LET text == Piece(r, k, eol)
             end  == Len(r.parts[k].value)
         IN  /\ text \in Texts /\ end \in Nat /\ Len(text) = end + Len(eol) + 2 + Len(r.boundary)
             /\ \A x \in 1 .. end : text[x] = r.parts[k].value[x]
             /\ \A y \in 1 .. Len(eol) + 2 + Len(r.boundary) :
                  text[end + y] = Pattern(r.boundary)[(2 - Len(eol)) + y]
<1> DEFINE v == r.parts[k].value
           d == Delimiter(r.boundary, eol)
<1>1. OneLine(r.boundary) /\ v \in Texts
  BY RequestIs
<1>2. /\ d \in Texts /\ Len(d) = Len(eol) + 2 + Len(r.boundary)
      /\ \A y \in 1 .. Len(eol) + 2 + Len(r.boundary) : d[y] = Pattern(r.boundary)[(2 - Len(eol)) + y]
  BY <1>1, DelimiterIs
<1> HIDE DEF v, d
<1>3. /\ v \o d \in Texts /\ Len(v \o d) = Len(v) + Len(d) /\ Len(v) \in Nat
      /\ \A i \in 1 .. Len(v) : (v \o d)[i] = v[i]
      /\ \A i \in 1 .. Len(d) : (v \o d)[Len(v) + i] = d[i]
  BY <1>1, <1>2, Joined
<1>4. Len(eol) \in Nat /\ Len(r.boundary) \in Nat
  BY <1>1, LineEnds, PatternIs
<1>5. Len(v \o d) = Len(v) + Len(eol) + 2 + Len(r.boundary)
  <2> DEFINE a == Len(eol)  b == Len(r.boundary)  l == Len(v)
  <2>1. Len(v \o d) = l + (a + 2 + b) /\ a \in Nat /\ b \in Nat /\ l \in Nat
    BY <1>2, <1>3, <1>4
  <2> HIDE DEF a, b, l
  <2>2. Len(v \o d) = l + a + 2 + b
    BY <2>1
  <2> QED BY <2>2 DEF a, b, l
<1> QED BY <1>2, <1>3, <1>5 DEF Piece, v, d

(* What follows a delimiter: the next part, or two dashes.                 *)
LEMMA FollowingIs ==
  ASSUME NEW r \in Requests, NEW eol \in Eols, WellFormed(r, eol)
  PROVE  LET text == Following(r, eol)
             n    == Len(r.parts)
         IN  /\ \A k \in 1 .. n + 1 : text[k] \in Texts
             /\ text[n + 1] = Dashes \o eol
             /\ \A k \in 1 .. n : text[k] = Heading(r.parts[k], eol) \o (Piece(r, k, eol) \o text[k + 1])
<1> DEFINE n == Len(r.parts)
           last == Dashes \o eol
           Rest(f) == [k \in 1 .. n + 1 |->
                         IF k = n + 1 THEN Dashes \o eol
                         ELSE Heading(r.parts[k], eol)
                                \o ((r.parts[k].value \o Delimiter(r.boundary, eol)) \o f[k + 1])]
           step == [i \in 1 .. n |->
                      [t \in Texts |-> Heading(r.parts[n + 1 - i], eol) \o (Piece(r, n + 1 - i, eol) \o t)]]
           text == CHOOSE f : f = Rest(f)
<1>1. n \in Nat /\ last \in Texts
  BY RequestIs, LineEnds, Joined
<1>2. ASSUME NEW k \in 1 .. n, NEW t \in Texts
      PROVE  Heading(r.parts[k], eol) \o (Piece(r, k, eol) \o t) \in Texts
  <2>1. r.parts[k].name \in Symbols
    BY RequestIs, FormDataAssumption
  <2>2. Heading(r.parts[k], eol) \in Texts /\ Piece(r, k, eol) \in Texts
    BY <2>1, HeadingIs, PieceIs
  <2>3. Piece(r, k, eol) \o t \in Texts
    BY <2>2, Joined
  <2> QED BY <2>2, <2>3, Joined
<1> HIDE DEF last
<1>3. step \in [1 .. n -> [Texts -> Texts]]
  <2>1. \A i \in 1 .. n : n + 1 - i \in 1 .. n
    BY <1>1
  <2> HIDE DEF n
  <2> QED BY <1>2, <2>1
<1>4. \A i \in 1 .. n, t \in Texts : step[i][t] = Heading(r.parts[n + 1 - i], eol) \o (Piece(r, n + 1 - i, eol) \o t)
  OBVIOUS
<1> HIDE DEF step, n
<1>5. PICK g \in [0 .. n -> Texts] : g[0] = last /\ \A i \in 1 .. n : g[i] = step[i][g[i - 1]]
  <2>1. \A m \in Nat : \A h \in [1 .. m -> [Texts -> Texts]] :
          \E f \in [0 .. m -> Texts] : f[0] = last /\ \A i \in 1 .. m : f[i] = h[i][f[i - 1]]
    BY <1>1, LoopExists
  <2> QED BY <1>1, <1>3, <2>1
<1> DEFINE f == [k \in 1 .. n + 1 |-> g[n + 1 - k]]
<1>6. ASSUME NEW k \in 1 .. n
      PROVE  f[k] = Heading(r.parts[k], eol) \o (Piece(r, k, eol) \o f[k + 1])
  <2>1. /\ n + 1 - k \in 1 .. n /\ n + 1 - (n + 1 - k) = k /\ (n + 1 - k) - 1 = n + 1 - (k + 1)
        /\ k \in 1 .. n + 1 /\ k + 1 \in 1 .. n + 1 /\ n + 1 - (k + 1) \in 0 .. n
    BY <1>1
  <2>2. f[k] = g[n + 1 - k] /\ f[k + 1] = g[n + 1 - (k + 1)] /\ f[k + 1] \in Texts
    BY <1>5, <2>1
  <2> QED BY <1>4, <1>5, <2>1, <2>2
<1>7. f[n + 1] = last
  <2>1. n + 1 \in 1 .. n + 1 /\ n + 1 - (n + 1) = 0
    BY <1>1
  <2> QED BY <1>5, <2>1
<1>8. f = Rest(f)
  <2> DEFINE h == Rest(f)
  <2>1. ASSUME NEW k \in 1 .. n + 1 PROVE f[k] = h[k]
    <3>1. CASE k = n + 1
      BY <1>7, <3>1 DEF last
    <3>2. CASE k # n + 1
      <4>1. k \in 1 .. n
        BY <1>1, <3>2
      <4> HIDE DEF f
      <4> QED BY <1>6, <3>2, <4>1 DEF Piece
    <3> QED BY <3>1, <3>2
  <2> QED BY <2>1
<1> HIDE DEF f
<1>9. text = Rest(text)
  BY <1>8
<1>10. text = Following(r, eol)
  BY DEF Following, n
<1> HIDE DEF text
<1>11. text[n + 1] = Dashes \o eol /\ \A k \in 1 .. n : text[k] = Heading(r.parts[k], eol) \o (Piece(r, k, eol) \o text[k + 1])
  <2>1. n + 1 \in 1 .. n + 1 /\ \A k \in 1 .. n : k \in 1 .. n + 1 /\ k # n + 1
    BY <1>1
  <2> QED BY <1>9, <2>1 DEF Piece
<1>12. \A k \in 1 .. n + 1 : text[k] \in Texts
  <2> DEFINE S == { i \in 0 .. n : text[n + 1 - i] \in Texts }
  <2>1. 0 \in S
    <3>1. n + 1 - 0 = n + 1 /\ 0 \in 0 .. n
      BY <1>1
    <3> QED BY <1>1, <1>11, <3>1 DEF last
  <2>2. ASSUME NEW i \in 1 .. n, i - 1 \in S PROVE i \in S
    <3>1. n + 1 - i \in 1 .. n /\ n + 1 - (i - 1) = (n + 1 - i) + 1 /\ i \in 0 .. n
      BY <1>1
    <3>2. text[(n + 1 - i) + 1] \in Texts
      BY <2>2, <3>1
    <3>3. text[n + 1 - i] \in Texts
      BY <1>2, <1>11, <3>1, <3>2
    <3> QED BY <3>1, <3>3
  <2>3. 0 .. n \subseteq S
    <3> HIDE DEF S
    <3> QED BY <1>1, <2>1, <2>2, BoundedInduction
  <2>4. ASSUME NEW k \in 1 .. n + 1 PROVE text[k] \in Texts
    <3>1. n + 1 - k \in 0 .. n /\ n + 1 - (n + 1 - k) = k
      BY <1>1
    <3> QED BY <2>3, <3>1
  <2> QED BY <2>4
<1> QED BY <1>10, <1>11, <1>12 DEF n

-----------------------------------------------------------------------------
(* What is in the buffers.                                                 *)

(* The first m symbols of a text have been put into the buffers.           *)
Holds(buf, text, m) ==
  IF m < BufferSize THEN buf.out = SubSeq(text, 1, m) /\ buf.value = <<>>
  ELSE buf.value = SubSeq(text, 1, BufferSize)

LEMMA Prefix ==
  ASSUME NEW text \in Texts, NEW m \in Nat, m <= Len(text)
  PROVE  /\ SubSeq(text, 1, m) \in Texts /\ Len(SubSeq(text, 1, m)) = m
         /\ \A i \in 1 .. m : SubSeq(text, 1, m)[i] = text[i]
<1>1. Len(text) \in Nat /\ \A i \in 1 .. Len(text) : text[i] \in Symbols
  BY LenProperties, ElementOfSeq DEF Texts
<1>2. \A i \in 1 .. m : text[i] \in Symbols
  BY <1>1
<1>3. /\ SubSeq(text, 1, m) \in Seq(Symbols)
      /\ Len(SubSeq(text, 1, m)) = IF 1 <= m THEN m - 1 + 1 ELSE 0
      /\ \A i \in 1 .. m - 1 + 1 : SubSeq(text, 1, m)[i] = text[1 + i - 1]
  BY <1>1, <1>2, SubSeqProperties
<1>4. m - 1 + 1 = m /\ \A i \in 1 .. m : 1 + i - 1 = i
  OBVIOUS
<1> QED BY <1>3, <1>4 DEF Texts

LEMMA PutHolds ==
  ASSUME NEW text \in Texts, NEW m \in Nat, m < Len(text), NEW buf \in Buffers, Holds(buf, text, m)
  PROVE  Holds(PutChar(buf, text[m + 1]), text, m + 1)
<1> DEFINE s == text[m + 1]
           full == Append(buf.out, s)
<1>1. /\ buf.out \in Texts /\ Len(buf.out) < BufferSize /\ Len(buf.out) \in Nat /\ buf.value \in Texts
      /\ buf = [out |-> buf.out, value |-> buf.value] /\ BufferSize \in Nat \ {0}
      /\ Len(text) \in Nat /\ s \in Symbols
  <2>1. Len(text) \in Nat /\ m + 1 \in 1 .. Len(text)
    BY LenProperties DEF Texts
  <2> QED BY <2>1, LenProperties, ElementOfSeq, FormDataAssumption DEF Buffers, Texts
<1> HIDE DEF s
<1> SUFFICES Holds(PutChar(buf, s), text, m + 1)
  BY DEF s
<1>2. PutChar(buf, s) = IF Len(full) = BufferSize
                        THEN [out |-> <<>>, value |-> IF buf.value = <<>> THEN full ELSE buf.value]
                        ELSE [out |-> full, value |-> buf.value]
  BY <1>1 DEF PutChar, Flush
<1>3. CASE m < BufferSize
  <2>1. buf.out = SubSeq(text, 1, m) /\ buf.value = <<>>
    BY <1>3 DEF Holds
  <2>2. full = SubSeq(text, 1, m + 1) /\ Len(full) = m + 1
    <3>1. SubSeq(text, 1, (m + 1) - 1) \o <<s>> = SubSeq(text, 1, m + 1)
      <4>1. 1 \in 1 .. Len(text) /\ m + 1 \in 1 .. Len(text)
        BY <1>1
      <4> QED BY <4>1, SubSeqRecursiveSecond DEF Texts, s
    <3>2. full = buf.out \o <<s>>
      BY <1>1, AppendIsConcat DEF Texts
    <3>3. (m + 1) - 1 = m /\ m + 1 \in Nat /\ m + 1 <= Len(text)
      BY <1>1
    <3>4. Len(SubSeq(text, 1, m + 1)) = m + 1
      BY <3>3, Prefix
    <3> QED BY <2>1, <3>1, <3>2, <3>3, <3>4
  <2> HIDE DEF full
  <2>3. CASE m + 1 = BufferSize
    BY <1>1, <1>2, <2>1, <2>2, <2>3 DEF Holds
  <2>4. CASE m + 1 # BufferSize
    <3>1. m + 1 < BufferSize
      BY <1>1, <1>3, <2>4
    <3> QED BY <1>2, <2>1, <2>2, <2>4, <3>1 DEF Holds
  <2> QED BY <2>3, <2>4
<1>4. CASE ~(m < BufferSize)
  <2>1. buf.value = SubSeq(text, 1, BufferSize)
    BY <1>4 DEF Holds
  <2>2. BufferSize <= Len(text) /\ BufferSize \in Nat /\ ~(m + 1 < BufferSize)
    BY <1>1, <1>4
  <2>3. Len(buf.value) = BufferSize /\ Len(<<>>) = 0
    BY <2>1, <2>2, Prefix
  <2>4. buf.value # <<>>
    BY <1>1, <2>3
  <2>5. PutChar(buf, s).value = buf.value
    BY <1>2, <2>4
  <2> QED BY <2>1, <2>2, <2>5 DEF Holds
<1> QED BY <1>3, <1>4

(* What is put out continues the text.                                     *)
LEMMA OutputHolds ==
  ASSUME NEW text \in Texts, NEW m \in Nat, NEW symbols \in Texts, m + Len(symbols) <= Len(text),
         \A x \in 1 .. Len(symbols) : symbols[x] = text[m + x],
         [out |-> out, value |-> value] \in Buffers,
         Holds([out |-> out, value |-> value], text, m),
         Output(symbols)
  PROVE  Holds([out |-> out', value |-> value'], text, m + Len(symbols))
<1> DEFINE buf == CHOOSE b : b = Filling(symbols, b)
           l == Len(symbols)
           S == { n \in 0 .. l : buf[n] \in Buffers /\ Holds(buf[n], text, m + n) }
<1>1. buf = Filling(symbols, buf)
  BY FillingExists
<1>2. out' = buf[l].out /\ value' = buf[l].value
  BY DEF Output, Filling
<1>3. l \in Nat /\ Len(text) \in Nat
  BY LenProperties DEF Texts
<1> HIDE DEF buf
<1>4. 0 \in S
  <2>1. buf[0] = [out |-> out, value |-> value] /\ m + 0 = m
    BY <1>1, <1>3 DEF Filling
  <2> QED BY <1>3, <2>1
<1>5. ASSUME NEW n \in 1 .. l, n - 1 \in S PROVE n \in S
  <2>1. buf[n - 1] \in Buffers /\ Holds(buf[n - 1], text, m + (n - 1)) /\ symbols[n] \in Symbols
    BY <1>5, ElementOfSeq DEF Texts
  <2>2. buf[n] = PutChar(buf[n - 1], symbols[n])
    BY <1>1, <1>3 DEF Filling
  <2>3. PICK a \in Nat : a = m + (n - 1) /\ a + 1 = m + n /\ a < Len(text)
    BY <1>3
  <2>4. symbols[n] = text[a + 1]
    BY <2>3
  <2>5. Holds(PutChar(buf[n - 1], text[a + 1]), text, a + 1)
    BY <2>1, <2>3, PutHolds
  <2>6. PutChar(buf[n - 1], symbols[n]) \in Buffers
    BY <2>1, PutCharWithin
  <2> QED BY <1>3, <2>2, <2>3, <2>4, <2>5, <2>6
<1>6. l \in S
  <2> HIDE DEF S, l
  <2>1. 0 .. l \subseteq S
    BY <1>3, <1>4, <1>5, BoundedInduction
  <2> QED BY <1>3, <2>1
<1>7. Holds(buf[l], text, m + l)
  BY <1>6
<1> QED BY <1>2, <1>7 DEF Holds

(* A boundary that is complete is the one the value ends in.               *)
LEMMA NotBefore ==
  ASSUME NEW r \in Requests, NEW eol \in Eols, WellFormed(r, eol), NEW k \in 1 .. Len(r.parts),
         NEW j \in Nat, NEW from \in {0, 1}, NEW held \in Nat, held <= j,
         from + held + 1 = Len(Pattern(r.boundary)), j + 1 < Len(Piece(r, k, eol)),
         \A x \in 1 .. held + 1 : Piece(r, k, eol)[j - held + x] = Pattern(r.boundary)[from + x]
  PROVE  FALSE
<1> DEFINE text  == Piece(r, k, eol)
           lf    == <<"lf">>
           early == Delimiter(r.boundary, lf)
           l     == Len(early)
<1>1. OneLine(r.boundary) /\ Carries(r.parts[k].value, r.boundary, eol)
  BY RequestIs
<1>2. lf \in Eols /\ Len(lf) = 1
  BY DEF Eols
<1>3. /\ early \in Texts /\ l = 1 + 2 + Len(r.boundary)
      /\ \A y \in 1 .. 1 + 2 + Len(r.boundary) : early[y] = Pattern(r.boundary)[(2 - 1) + y]
  <2> HIDE DEF lf
  <2>1. /\ early \in Texts /\ l = Len(lf) + 2 + Len(r.boundary)
        /\ \A y \in 1 .. Len(lf) + 2 + Len(r.boundary) : early[y] = Pattern(r.boundary)[(2 - Len(lf)) + y]
    BY <1>1, <1>2, DelimiterIs
  <2> QED BY <1>2, <2>1
<1>4. Len(r.boundary) \in Nat /\ Len(Pattern(r.boundary)) = 4 + Len(r.boundary) /\ l \in Nat /\ l = 3 + Len(r.boundary)
  BY <1>1, <1>3, PatternIs
<1>5. text \in Texts /\ Len(text) \in Nat
  BY PieceIs, LenProperties DEF Texts
<1>6. \A n \in 1 .. Len(text) - l : SubSeq(text, n, n + l - 1) # early
  BY <1>1 DEF Carries, Piece
<1> HIDE DEF text, early, l, lf
<1>7. PICK i \in Nat : /\ i \in 1 .. Len(text) - l /\ i + l - 1 = j + 1 /\ j + 1 <= Len(text)
                      /\ (j + 1) - i + 1 = l /\ i + l = j + 2 /\ i <= j + 1
  <2>1. PICK n \in Nat : n = Len(r.boundary)
    BY <1>4
  <2>2. from + held + 1 = 4 + n /\ l = 3 + n
    BY <1>4, <2>1
  <2>3. j + 1 < Len(text)
    BY DEF text
  <2>4. PICK i \in Nat : i + l = j + 2
    <3>1. j + 2 - l \in Nat /\ (j + 2 - l) + l = j + 2
      BY <2>2
    <3> QED BY <3>1
  <2>5. i # 0
    BY <2>2, <2>4
  <2>6. PICK a \in Nat : a = Len(text)
    BY <1>5
  <2>7. i \in 1 .. a - l /\ i + l - 1 = j + 1 /\ j + 1 <= a /\ (j + 1) - i + 1 = l /\ i <= j + 1
    BY <2>2, <2>3, <2>4, <2>5, <2>6
  <2> QED BY <2>4, <2>6, <2>7
<1>8. /\ SubSeq(text, i, j + 1) \in Texts /\ Len(SubSeq(text, i, j + 1)) = l
      /\ \A y \in 1 .. l : SubSeq(text, i, j + 1)[y] = text[i + y - 1]
  <2>1. \A n \in i .. j + 1 : text[n] \in Symbols
    <3>1. \A n \in i .. j + 1 : n \in 1 .. Len(text)
      BY <1>5, <1>7
    <3> QED BY <1>5, <3>1, ElementOfSeq DEF Texts
  <2>2. i <= j + 1 /\ i \in Int /\ j + 1 \in Int
    BY <1>7
  <2>3. /\ SubSeq(text, i, j + 1) \in Seq(Symbols)
        /\ Len(SubSeq(text, i, j + 1)) = IF i <= j + 1 THEN (j + 1) - i + 1 ELSE 0
        /\ \A y \in 1 .. (j + 1) - i + 1 : SubSeq(text, i, j + 1)[y] = text[i + y - 1]
    BY <2>1, <2>2, SubSeqProperties
  <2> QED BY <1>7, <2>2, <2>3 DEF Texts
<1>9. ASSUME NEW y \in 1 .. l PROVE SubSeq(text, i, j + 1)[y] = early[y]
  <2>1. PICK n \in Nat : n = Len(r.boundary)
    BY <1>4
  <2>2. from + held + 1 = 4 + n /\ l = 3 + n /\ i + l = j + 2 /\ y \in 1 .. l /\ i \in Nat
    BY <1>4, <1>7, <2>1
  <2>3. PICK x \in 1 .. held + 1 : from + x = 1 + y
    <3>1. (1 + y) - from \in 1 .. held + 1 /\ from + ((1 + y) - from) = 1 + y
      BY <2>2
    <3> QED BY <3>1
  <2>4. j - held + x = i + y - 1 /\ from + x = (2 - 1) + y
    BY <2>2, <2>3
  <2>5. text[i + y - 1] = Pattern(r.boundary)[(2 - 1) + y]
    BY <2>4 DEF text
  <2> QED BY <1>3, <1>4, <1>8, <2>5
<1>10. SubSeq(text, i, j + 1) = early
  BY <1>3, <1>8, <1>9, SeqEqual DEF Texts, l
<1> QED BY <1>6, <1>7, <1>10


-----------------------------------------------------------------------------
(* How far into a well-formed body the parser is.                          *)

(* As much of a value as fits the buffer.                                  *)
Taken(v) == SubSeq(v, 1, Least(BufferSize, Len(v)))

(* The parts before the kth are entered, the first of each name.           *)
Entered(k) ==
  /\ DOMAIN params = { request.parts[i].name : i \in 1 .. k - 1 }
  /\ \A i \in 1 .. k - 1 :
       (\A j \in 1 .. i - 1 : request.parts[j].name # request.parts[i].name) =>
         params[request.parts[i].name] = Taken(request.parts[i].value)

(* Before the first delimiter has been seen.                               *)
Seeking(eol) ==
  /\ state = "seek"
  /\ start = 2 /\ 2 <= pos
  /\ Ahead = Suffix(pattern, pos) \o Following(request, eol)[1]
  /\ out = <<>> /\ value = <<>>
  /\ Entered(1)

(* j symbols of what follows a delimiter have been seen, up to the value.  *)
Heads(k, j, eol) ==
  LET e == Len(eol)
  IN  \/ j < e /\ state = "after"
      \/ j = e /\ state = "headers" /\ header = <<>>
      \/ e < j /\ j <= 2 * e /\ state = "headers" /\ header = <<request.parts[k].name>>
      \/ 2 * e < j /\ state = "headers" /\ header = <<>> /\ field = request.parts[k].name

(* What follows a delimiter up to the value, and from the value on.        *)
Opening(k, eol) == Heading(request.parts[k], eol)
Rest(k, eol) == Piece(request, k, eol) \o Following(request, eol)[k + 1]

Between(k, eol) ==
  /\ k <= Len(request.parts)
  /\ pos = start /\ start <= 2 - Len(eol)
  /\ out = <<>> /\ value = <<>>
  /\ \E j \in 0 .. 3 * Len(eol) :
       Ahead = Suffix(Opening(k, eol), j) \o Rest(k, eol) /\ Heads(k, j, eol)

(* j symbols of a value and the delimiter after it have been seen: those   *)
(* that may begin the delimiter are held back, the others are in the       *)
(* buffers; and of the delimiter itself all that were seen are held back.  *)
Within(k, j, eol) ==
  LET text == Piece(request, k, eol)
      held == pos - start
      end  == Len(request.parts[k].value)
  IN  /\ Ahead = Suffix(text, j) \o Following(request, eol)[k + 1]
      /\ held <= j
      /\ \A x \in 1 .. held : text[j - held + x] = pattern[start + x]
      /\ Holds([out |-> out, value |-> value], text, j - held)
      /\ j > end => held = j - end /\ start = 2 - Len(eol)

InValue(k, eol) ==
  /\ k <= Len(request.parts)
  /\ state = "data" /\ field = request.parts[k].name
  /\ start \in {0, 1} /\ (pos = start => start <= 2 - Len(eol))
  /\ \E j \in 0 .. Len(Piece(request, k, eol)) - 1 : Within(k, j, eol)

(* The last delimiter has been seen.                                       *)
Closing(eol) ==
  \/ state = "after" /\ Ahead = Dashes \o eol
  \/ state = "finish"

(* The parser is in the kth part, or past them all.                        *)
Part(k, eol) ==
  /\ Entered(k)
  /\ \/ Between(k, eol)
     \/ InValue(k, eol)
     \/ k = Len(request.parts) + 1 /\ Closing(eol)

(* How far the parser is, from the request to the parameters.              *)
Progress(eol) ==
  \/ /\ pc = "start" /\ Ahead = request.body
     /\ state = "seek" /\ out = <<>> /\ value = <<>> /\ Entered(1)
  \/ pc = "refused"
  \/ pc = "returned" /\ Entered(Len(request.parts) + 1)
  \/ /\ pc = "parsing"
     /\ pattern = Pattern(request.boundary)
     /\ Seeking(eol) \/ \E k \in 1 .. Len(request.parts) + 1 : Part(k, eol)

(* A delimiter has been seen, and the next part or the end is to come.     *)
LEMMA Reached ==
  ASSUME request \in Requests, NEW eol \in Eols, WellFormed(request, eol),
         NEW k \in 1 .. Len(request.parts) + 1,
         pc' = "parsing", request' = request, pattern' = Pattern(request.boundary),
         state' = "after", pos' = start', start' <= 2 - Len(eol),
         out' = <<>>, value' = <<>>, Entered(k)', Ahead' = Following(request, eol)[k]
  PROVE  Progress(eol)'
<1>1. Len(request.parts) \in Nat
  BY RequestIs
<1>2. CASE k = Len(request.parts) + 1
  <2>1. Ahead' = Dashes \o eol
    BY <1>2, FollowingIs
  <2>2. Part(k, eol)'
    BY <1>2, <2>1 DEF Part, Closing
  <2> QED BY <2>2 DEF Progress
<1>3. CASE k # Len(request.parts) + 1
  <2>1. k \in 1 .. Len(request.parts)
    BY <1>1, <1>3
  <2>2. Ahead' = Opening(k, eol) \o Rest(k, eol)
    BY <2>1, FollowingIs DEF Opening, Rest
  <2>3. Opening(k, eol) \in Texts
    <3>1. request.parts[k].name \in Symbols
      BY <2>1, RequestIs, FormDataAssumption
    <3> QED BY <3>1, HeadingIs DEF Opening
  <2>4. Ahead' = Suffix(Opening(k, eol), 0) \o Rest(k, eol)
    BY <2>2, <2>3, SuffixEnds
  <2>5. 0 \in 0 .. 3 * Len(eol) /\ 0 < Len(eol)
    BY LineEnds
  <2>6. Heads(k, 0, eol)'
    BY <2>5 DEF Heads
  <2>7. Opening(k, eol)' = Opening(k, eol) /\ Rest(k, eol)' = Rest(k, eol)
    BY DEF Opening, Rest
  <2>8. k <= Len(request'.parts)
    BY <2>1, <1>1
  <2>9. Between(k, eol)'
    BY <2>4, <2>5, <2>6, <2>7, <2>8 DEF Between
  <2>10. Part(k, eol)'
    BY <2>9 DEF Part
  <2> QED BY <2>10 DEF Progress
<1> QED BY <1>2, <1>3

LEMMA SuffixOfJoined ==
  ASSUME NEW s \in Texts, NEW t \in Texts
  PROVE  Suffix(s \o t, Len(s)) = t
<1>1. /\ s \o t \in Texts /\ Len(s \o t) = Len(s) + Len(t)
      /\ Len(s) \in Nat /\ Len(t) \in Nat
      /\ \A i \in 1 .. Len(t) : (s \o t)[Len(s) + i] = t[i]
  BY Joined
<1> DEFINE l == s \o t
           u == Suffix(l, Len(s))
<1>2. Len(s) \in 0 .. Len(l)
  BY <1>1
<1>3. u \in Texts /\ Len(u) = Len(l) - Len(s) /\ \A i \in 1 .. Len(l) - Len(s) : u[i] = l[Len(s) + i]
  <2> HIDE DEF l
  <2> QED BY <1>1, <1>2, SuffixProperties DEF l
<1>4. Len(l) - Len(s) = Len(t)
  BY <1>1
<1> HIDE DEF u
<1>5. \A i \in 1 .. Len(t) : u[i] = t[i]
  BY <1>1, <1>3, <1>4
<1> QED BY <1>3, <1>4, <1>5, SeqEqual DEF Texts, u

LEMMA StartProgress ==
  ASSUME IInv, NEW eol \in Eols, WellFormed(request, eol), Progress(eol),
         Start \/ StartWithout \/ Refuse
  PROVE  Progress(eol)'
<1> DEFINE b == request.boundary
           F == Following(request, eol)[1]
           two == <<"cr", "lf">>
<1>1. CASE Start
  <2>1. /\ pc' = "parsing" /\ request' = request /\ unread' = unread /\ input' = input
        /\ pattern' = <<"cr", "lf", "-", "-">> \o b /\ start' = 2 /\ pos' = 2
        /\ state' = state /\ out' = out /\ value' = value /\ params' = params
    BY <1>1 DEF Start, Begin, partVars
  <2>2. Ahead' = request.body /\ state = "seek" /\ out = <<>> /\ value = <<>> /\ Entered(1)
    BY <1>1, <2>1 DEF Progress, Start, Ahead
  <2>3. OneLine(b) /\ b \in Texts /\ pattern' = Pattern(b)
    BY <2>1, RequestIs, PatternIs DEF IInv, OneLine
  <2>4. F \in Texts
    <3>1. 1 \in 1 .. Len(request.parts) + 1
      BY RequestIs DEF IInv
    <3> QED BY <3>1, FollowingIs DEF IInv
  <2>5. Suffix(Pattern(b), 2) = Dashes \o b
    <3>1. two \in Texts /\ Len(two) = 2 /\ Dashes \in Texts
      BY LineEnds, FormDataAssumption DEF Texts
    <3> HIDE DEF two
    <3> HIDE DEF b
    <3>2. (two \o Dashes) \o b = two \o (Dashes \o b) /\ Dashes \o b \in Texts
      <4>1. Dashes \o b \in Texts
        BY <2>3, <3>1, ConcatProperties DEF Texts
      <4>2. (two \o Dashes) \o b = two \o (Dashes \o b)
        BY <2>3, <3>1, ConcatAssociative DEF Texts
      <4> QED BY <4>1, <4>2
    <3>3. Suffix(two \o (Dashes \o b), 2) = Dashes \o b
      BY <3>1, <3>2, SuffixOfJoined
    <3> QED BY <3>2, <3>3 DEF Pattern, two
  <2>6. Ahead' = Suffix(pattern', 2) \o F
    BY <2>2, <2>3, <2>5 DEF WellFormed, Body
  <2>7. Entered(1)'
    BY <2>1, <2>2 DEF Entered
  <2>8. Seeking(eol)'
    BY <2>1, <2>2, <2>6, <2>7 DEF Seeking
  <2> QED BY <2>1, <2>3, <2>8 DEF Progress
<1>2. CASE StartWithout
  BY <1>2 DEF StartWithout, WellFormed
<1>3. CASE Refuse
  BY <1>3 DEF Refuse, Progress
<1> QED BY <1>1, <1>2, <1>3

LEMMA SeekProgress ==
  ASSUME IInv, NEW eol \in Eols, WellFormed(request, eol), Progress(eol), Seek
  PROVE  Progress(eol)'
<1> DEFINE F == Following(request, eol)[1]
           n == Len(request.parts)
<1>1. /\ pc = "parsing" /\ state = "seek" /\ input # <<>> /\ Consume
      /\ pattern' = pattern /\ header' = header /\ out' = out /\ value' = value /\ params' = params
  BY DEF Seek, In, partVars
<1>2. pc' = pc /\ request' = request /\ Lengths
  BY <1>1 DEF Consume, readVars, IInv
<1>3. pattern = Pattern(request.boundary) /\ Seeking(eol)
  BY <1>1 DEF Progress, Part, Between, InValue, Closing, Heads
<1>4. n \in Nat /\ 1 \in 1 .. n + 1 /\ F \in Texts
  <2>1. n \in Nat /\ 1 \in 1 .. n + 1
    BY RequestIs DEF IInv
  <2> QED BY <2>1, FollowingIs DEF IInv
<1>5. pos \in Nat /\ pos < Len(pattern) /\ pattern \in Texts /\ Len(pattern) \in Nat
  BY <1>1, LenProperties DEF IInv, Matching, Texts
<1>6. Matches /\ Ahead' = Suffix(pattern, pos + 1) \o F
  BY <1>1, <1>2, <1>3, <1>4, <1>5, Consumed DEF Seeking, Matches
<1>7. Entered(1)'
  BY <1>1, <1>2, <1>3 DEF Seeking, Entered
<1>8. CASE ~Complete
  <2>1. pos' = pos + 1 /\ start' = start /\ state' = state
    BY <1>6, <1>8 DEF Seek
  <2>2. Seeking(eol)'
    BY <1>1, <1>2, <1>3, <1>5, <1>6, <1>7, <2>1 DEF Seeking
  <2> QED BY <1>1, <1>2, <1>3, <2>2 DEF Progress
<1>9. CASE Complete
  <2>1. state' = "after" /\ start' = 0 /\ pos' = 0 /\ pos + 1 = Len(pattern)
    BY <1>6, <1>9 DEF Seek, Complete
  <2>2. Suffix(pattern, pos + 1) \o F = F
    BY <1>4, <1>5, <2>1, SuffixEnds, ConcatEmptySeq DEF Texts
  <2>3. 0 <= 2 - Len(eol)
    <3>1. PICK e \in {1, 2} : Len(eol) = e
      BY LineEnds
    <3>2. 0 <= 2 - e
      OBVIOUS
    <3> QED BY <3>1, <3>2
  <2> QED BY <1>1, <1>2, <1>3, <1>4, <1>6, <1>7, <2>1, <2>2, <2>3, Reached DEF IInv, Seeking
<1> QED BY <1>8, <1>9

(* Where the parser is does not change with how the body is cut.           *)
LEMMA SameProgress ==
  ASSUME NEW eol \in Eols, Progress(eol), Ahead' = Ahead,
         UNCHANGED <<pc, request, matchVars, state, header, partVars>>
  PROVE  Progress(eol)'
<1> DEFINE n == Len(request.parts)
<1>1. /\ pc' = pc /\ request' = request
      /\ pattern' = pattern /\ start' = start /\ pos' = pos /\ state' = state /\ header' = header
      /\ out' = out /\ field' = field /\ value' = value /\ params' = params
  BY DEF matchVars, partVars
<1>2. ASSUME NEW k, Entered(k) PROVE Entered(k)'
  BY <1>1, <1>2 DEF Entered
<1>3. ASSUME Seeking(eol) PROVE Seeking(eol)'
  BY <1>1, <1>2, <1>3 DEF Seeking
<1>4. ASSUME NEW k \in 1 .. n + 1, Part(k, eol) PROVE Part(k, eol)'
  <2>1. Entered(k)'
    BY <1>2, <1>4 DEF Part
  <2>2. ASSUME Between(k, eol) PROVE Between(k, eol)'
    BY <1>1, <2>2 DEF Between, Heads, Opening, Rest
  <2>3. ASSUME InValue(k, eol) PROVE InValue(k, eol)'
    BY <1>1, <2>3 DEF InValue, Within
  <2>4. ASSUME Closing(eol) PROVE Closing(eol)'
    BY <1>1, <2>4 DEF Closing
  <2> QED BY <1>1, <1>4, <2>1, <2>2, <2>3, <2>4 DEF Part
<1>5. CASE pc = "parsing"
  BY <1>1, <1>3, <1>4, <1>5 DEF Progress
<1>6. CASE pc # "parsing"
  BY <1>1, <1>2, <1>6 DEF Progress
<1> QED BY <1>5, <1>6

LEMMA ReadProgress ==
  ASSUME IInv, NEW eol \in Eols, WellFormed(request, eol), Progress(eol), Read \/ Return
  PROVE  Progress(eol)'
<1> DEFINE n == Len(request.parts)
           F == Following(request, eol)
<1>1. CASE Read
  <2>1. /\ Ahead' = Ahead /\ UNCHANGED <<pc, request, matchVars, state, header, partVars>>
    BY <1>1, AheadRead DEF Read
  <2> QED BY <2>1, SameProgress
<1>2. CASE Return
  <2>1. /\ pc' = "returned" /\ pc = "parsing" /\ request' = request /\ params' = params
        /\ input = <<>> /\ unread = <<>>
    BY <1>2 DEF Return, readVars, partVars
  <2>2. Ahead = <<>> /\ n \in Nat
    BY <2>1, RequestIs DEF Ahead, IInv
  <2>3. ASSUME Seeking(eol) PROVE FALSE
    <3>1. pos \in Nat /\ pos < Len(pattern) /\ pattern \in Texts
      BY <2>1 DEF IInv, Matching
    <3>2. F[1] \in Texts
      <4>1. 1 \in 1 .. n + 1
        BY <2>2
      <4> QED BY <4>1, FollowingIs DEF IInv
    <3>3. Ahead = Suffix(pattern, pos) \o F[1]
      BY <2>3 DEF Seeking
    <3> HIDE DEF F
    <3>4. Suffix(pattern, pos) \o F[1] # <<>>
      BY <3>1, <3>2, SuffixStep
    <3> QED BY <2>2, <3>3, <3>4
  <2>4. ASSUME NEW k \in 1 .. n, NEW t \in Texts, NEW j \in Nat, j < Len(t),
               Ahead = Suffix(t, j) \o F[k + 1] \/ Ahead = Suffix(t, j) \o Rest(k, eol)
        PROVE  FALSE
    <3>1. F[k + 1] \in Texts /\ Rest(k, eol) \in Texts
      <4>1. k + 1 \in 1 .. n + 1
        BY <2>2
      <4>2. F[k + 1] \in Texts
        BY <4>1, FollowingIs DEF IInv
      <4> QED BY <4>2, PieceIs, Joined DEF IInv, Rest
    <3> QED BY <2>2, <2>4, <3>1, SuffixStep
  <2>5. ASSUME NEW k \in 1 .. n, Between(k, eol) PROVE FALSE
    <3>1. PICK j \in 0 .. 3 * Len(eol) : Ahead = Suffix(Opening(k, eol), j) \o Rest(k, eol)
      BY <2>5 DEF Between
    <3>2. request.parts[k].name \in Symbols
      BY RequestIs, FormDataAssumption DEF IInv
    <3>3. Opening(k, eol) \in Texts /\ Len(Opening(k, eol)) = 3 * Len(eol) + 1
      BY <3>2, HeadingIs DEF Opening
    <3>4. j \in Nat /\ j < Len(Opening(k, eol))
      <4>1. PICK e \in {1, 2} : Len(eol) = e
        BY LineEnds
      <4> QED BY <3>3, <4>1
    <3> QED BY <2>4, <3>1, <3>3, <3>4
  <2>6. ASSUME NEW k \in 1 .. n, InValue(k, eol) PROVE FALSE
    <3> DEFINE text == Piece(request, k, eol)
    <3>1. PICK j \in 0 .. Len(text) - 1 : Ahead = Suffix(text, j) \o F[k + 1]
      BY <2>6 DEF InValue, Within
    <3>2. text \in Texts /\ Len(text) \in Nat
      BY PieceIs, LenProperties DEF IInv, Texts
    <3> HIDE DEF text
    <3>3. j \in Nat /\ j < Len(text)
      BY <3>1, <3>2
    <3> QED BY <2>4, <3>1, <3>2, <3>3
  <2>7. ASSUME Closing(eol) PROVE state = "finish"
    <3>1. Dashes \o eol \in Texts /\ Len(Dashes \o eol) = 2 + Len(eol) /\ Len(eol) \in Nat
      <4>1. eol \in Texts /\ Dashes \in Texts /\ Len(Dashes) = 2
        BY LineEnds
      <4>2. /\ Dashes \o eol \in Texts /\ Len(Dashes \o eol) = Len(Dashes) + Len(eol)
            /\ Len(eol) \in Nat
        BY <4>1, Joined
      <4> QED BY <4>1, <4>2
    <3>2. Dashes \o eol # <<>>
      <4>1. Len(<<>>) = 0
        OBVIOUS
      <4> QED BY <3>1, <4>1
    <3> QED BY <2>2, <2>7, <3>2 DEF Closing
  <2>8. PICK k \in 1 .. n + 1 : Part(k, eol)
    BY <2>1, <2>3 DEF Progress
  <2>9. k = n + 1 /\ Entered(k)
    <3>1. k # n + 1 => k \in 1 .. n
      BY <2>2
    <3>2. k <= n => k # n + 1
      BY <2>2
    <3> QED BY <2>5, <2>6, <2>8, <3>1, <3>2 DEF Part, Between, InValue
  <2>10. Entered(n + 1)'
    BY <2>1, <2>9 DEF Entered
  <2> QED BY <2>1, <2>10 DEF Progress
<1> QED BY <1>1, <1>2

(* The next symbol of what follows a delimiter.                            *)
LEMMA HeadStep ==
  ASSUME IInv, NEW eol \in Eols, WellFormed(request, eol), input # <<>>,
         NEW k \in 1 .. Len(request.parts), NEW j \in 0 .. 3 * Len(eol),
         Ahead = Suffix(Opening(k, eol), j) \o Rest(k, eol)
  PROVE  /\ c = (IF j = Len(eol) THEN request.parts[k].name
                 ELSE IF j \in {Len(eol) - 1, 2 * Len(eol), 3 * Len(eol)} THEN "lf" ELSE "cr")
         /\ Consume => Ahead' = Suffix(Opening(k, eol), j + 1) \o Rest(k, eol)
         /\ request.parts[k].name \in Names /\ request.parts[k].name \notin {"cr", "lf", BadHeader}
         /\ Opening(k, eol) \in Texts /\ Len(Opening(k, eol)) = 3 * Len(eol) + 1
         /\ Rest(k, eol) \in Texts
<1> DEFINE H == Opening(k, eol)
           R == Rest(k, eol)
           n == Len(request.parts)
<1>1. /\ request.parts[k].name \in Names /\ request.parts[k].name \notin {"cr", "lf", BadHeader}
      /\ request.parts[k].name \in Symbols /\ n \in Nat
  BY RequestIs, FormDataAssumption DEF IInv
<1>2. /\ H \in Texts /\ Len(H) = 3 * Len(eol) + 1
      /\ \A i \in 0 .. 3 * Len(eol) :
           H[i + 1] = IF i = Len(eol) THEN request.parts[k].name
                      ELSE IF i \in {Len(eol) - 1, 2 * Len(eol), 3 * Len(eol)} THEN "lf" ELSE "cr"
  BY <1>1, HeadingIs DEF Opening
<1>3. R \in Texts
  <2>1. k + 1 \in 1 .. n + 1
    BY <1>1
  <2>2. Following(request, eol)[k + 1] \in Texts
    BY <2>1, FollowingIs DEF IInv
  <2> QED BY <2>2, PieceIs, Joined DEF IInv, Rest
<1>4. j \in Nat /\ j < Len(H)
  <2>1. PICK e \in {1, 2} : Len(eol) = e
    BY LineEnds
  <2> QED BY <1>2, <2>1
<1> HIDE DEF H, R
<1>5. c = H[j + 1]
  BY <1>2, <1>3, <1>4, NextIs DEF IInv, H, R
<1>6. ASSUME Consume PROVE Ahead' = Suffix(H, j + 1) \o R
  BY <1>2, <1>3, <1>4, <1>6, Consumed DEF IInv, H, R
<1> QED BY <1>1, <1>2, <1>3, <1>5, <1>6 DEF H, R

(* The parser is before the value of a part, or in the last delimiter.     *)
LEMMA BeforeValue ==
  ASSUME IInv, NEW eol \in Eols, WellFormed(request, eol), Progress(eol), pc = "parsing",
         state \in {"after", "headers"}
  PROVE  /\ pattern = Pattern(request.boundary) /\ Len(request.parts) \in Nat
         /\ \/ /\ Closing(eol) /\ Entered(Len(request.parts) + 1)
               /\ state = "after"
            \/ \E k \in 1 .. Len(request.parts) : Entered(k) /\ Between(k, eol)
<1>1. Len(request.parts) \in Nat
  BY RequestIs DEF IInv
<1>2. PICK k \in 1 .. Len(request.parts) + 1 : Part(k, eol)
  BY DEF Progress, Seeking
<1>3. CASE Between(k, eol)
  <2>1. k \in 1 .. Len(request.parts) /\ Entered(k)
    BY <1>1, <1>2, <1>3 DEF Between, Part
  <2> QED BY <1>1, <1>3, <2>1 DEF Progress
<1>4. CASE k = Len(request.parts) + 1 /\ Closing(eol)
  BY <1>1, <1>2, <1>4 DEF Part, Closing, Progress
<1> QED BY <1>2, <1>3, <1>4 DEF Part, InValue

(* A step that leaves the parser before the value of the same part.        *)
LEMMA StillBetween ==
  ASSUME IInv, NEW eol \in Eols, WellFormed(request, eol), pc = "parsing",
         pattern = Pattern(request.boundary),
         NEW k \in 1 .. Len(request.parts), Entered(k), Between(k, eol),
         NEW j \in 0 .. 3 * Len(eol), Consume, UNCHANGED <<matchVars, out, value, params>>,
         Ahead' = Suffix(Opening(k, eol), j) \o Rest(k, eol), Heads(k, j, eol)'
  PROVE  Progress(eol)'
<1>1. /\ pc' = "parsing" /\ request' = request /\ pattern' = pattern /\ start' = start /\ pos' = pos
      /\ out' = out /\ value' = value /\ params' = params
  BY DEF Consume, readVars, matchVars
<1>2. Opening(k, eol)' = Opening(k, eol) /\ Rest(k, eol)' = Rest(k, eol)
  BY <1>1 DEF Opening, Rest
<1>3. Len(request.parts) \in Nat
  BY RequestIs DEF IInv
<1>4. k <= Len(request'.parts) /\ k \in 1 .. Len(request'.parts) + 1
  BY <1>1, <1>3
<1>5. Between(k, eol)'
  BY <1>1, <1>2, <1>4 DEF Between
<1>6. Entered(k)'
  BY <1>1 DEF Entered
<1>7. Part(k, eol)'
  BY <1>5, <1>6 DEF Part
<1> QED BY <1>1, <1>4, <1>7 DEF Progress

LEMMA AfterProgress ==
  ASSUME IInv, NEW eol \in Eols, WellFormed(request, eol), Progress(eol), AfterBoundary
  PROVE  Progress(eol)'
<1>1. /\ pc = "parsing" /\ state = "after" /\ input # <<>> /\ Consume
      /\ UNCHANGED <<matchVars, out, value, params>> /\ UNCHANGED <<matchVars, partVars>>
  BY DEF AfterBoundary, In, partVars
<1>2. pc' = pc /\ request' = request /\ pattern' = pattern /\ params' = params
  BY <1>1 DEF Consume, readVars, matchVars
<1>3. PICK e \in {1, 2} : Len(eol) = e
  BY LineEnds
<1>4. CASE Closing(eol) /\ Entered(Len(request.parts) + 1)
  <2> DEFINE t == Dashes \o eol
  <2>1. t \in Texts /\ Len(t) = 2 + e /\ t[1] = "-"
    <3>1. eol \in Texts /\ Dashes \in Texts /\ Len(Dashes) = 2 /\ Dashes[1] = "-"
      BY LineEnds DEF Dashes
    <3>2. /\ Dashes \o eol \in Texts /\ Len(Dashes \o eol) = Len(Dashes) + Len(eol)
          /\ \A i \in 1 .. Len(Dashes) : (Dashes \o eol)[i] = Dashes[i]
      BY <3>1, Joined
    <3> QED BY <1>3, <3>1, <3>2
  <2>2. Ahead = Suffix(t, 0) \o <<>> /\ <<>> \in Texts
    <3>1. Ahead = t
      BY <1>1, <1>4 DEF Closing
    <3> HIDE DEF t
    <3>2. Suffix(t, 0) = t /\ t \o <<>> = t /\ <<>> \in Texts
      BY <2>1, SuffixEnds, ConcatEmptySeq DEF Texts
    <3> QED BY <3>1, <3>2
  <2> HIDE DEF t
  <2>3. c = t[0 + 1]
    <3>1. 0 \in Nat /\ 0 < Len(t)
      BY <1>3, <2>1
    <3> QED BY <1>1, <2>1, <2>2, <3>1, NextIs DEF IInv
  <2>4. state' = "finish"
    BY <2>1, <2>3 DEF AfterBoundary
  <2>5. Len(request.parts) \in Nat /\ pattern = Pattern(request.boundary)
    BY <1>1, BeforeValue
  <2>6. PICK k \in 1 .. Len(request.parts) + 1 : k = Len(request.parts) + 1
    BY <2>5
  <2>7. Entered(k)'
    BY <1>2, <1>4, <2>6 DEF Entered
  <2>8. Part(k, eol)'
    BY <1>2, <2>4, <2>6, <2>7 DEF Part, Closing
  <2> QED BY <1>1, <1>2, <2>5, <2>8 DEF Progress
<1>5. CASE \E k \in 1 .. Len(request.parts) : Entered(k) /\ Between(k, eol)
  <2>1. PICK k \in 1 .. Len(request.parts) : Entered(k) /\ Between(k, eol)
    BY <1>5
  <2>2. PICK j \in 0 .. 3 * Len(eol) :
          Ahead = Suffix(Opening(k, eol), j) \o Rest(k, eol) /\ Heads(k, j, eol)
    BY <2>1 DEF Between
  <2>3. j < e /\ j \in Nat
    BY <1>1, <1>3, <2>2 DEF Heads
  <2>4. c = IF j = e - 1 THEN "lf" ELSE "cr"
    <3>1. c = IF j = e THEN request.parts[k].name
              ELSE IF j \in {e - 1, 2 * e, 3 * e} THEN "lf" ELSE "cr"
      BY <1>1, <1>3, <2>2, HeadStep
    <3>2. j # e /\ j # 2 * e /\ j # 3 * e
      BY <1>3, <2>3
    <3> QED BY <3>1, <3>2
  <2>5. Ahead' = Suffix(Opening(k, eol), j + 1) \o Rest(k, eol)
    BY <1>1, <2>2, HeadStep
  <2>6. j + 1 \in 0 .. 3 * Len(eol)
    BY <1>3, <2>3
  <2>7. Heads(k, j + 1, eol)'
    <3>1. CASE j = e - 1
      BY <1>3, <2>4, <3>1 DEF AfterBoundary, Heads
    <3>2. CASE j # e - 1
      <4>1. state' = "after" /\ j + 1 < e
        BY <1>1, <1>3, <2>3, <2>4, <3>2 DEF AfterBoundary
      <4> QED BY <1>3, <4>1 DEF Heads
    <3> QED BY <3>1, <3>2
  <2> QED BY <1>1, <2>1, <2>5, <2>6, <2>7, BeforeValue, StillBetween
<1> QED BY <1>1, <1>4, <1>5, BeforeValue

(* The header of a part: its name, and the line after it.                  *)
LEMMA HeaderProgress ==
  ASSUME IInv, NEW eol \in Eols, WellFormed(request, eol), Progress(eol),
         \/ HeaderSymbol \/ HeaderTooLong \/ HeaderReturn
         \/ HeaderLine \/ HeaderBad \/ HeadersEnd
  PROVE  Progress(eol)'
<1>1. pc = "parsing" /\ state = "headers" /\ input # <<>>
  BY DEF HeaderSymbol, HeaderTooLong, HeaderReturn, HeaderLine, HeaderBad, HeadersEnd, In
<1>2. PICK k \in 1 .. Len(request.parts) : Entered(k) /\ Between(k, eol)
  BY <1>1, BeforeValue
<1>3. pattern = Pattern(request.boundary) /\ Len(request.parts) \in Nat
  BY <1>1, BeforeValue
<1>4. PICK j \in 0 .. 3 * Len(eol) :
        Ahead = Suffix(Opening(k, eol), j) \o Rest(k, eol) /\ Heads(k, j, eol)
  BY <1>2 DEF Between
<1>5. PICK e \in {1, 2} : Len(eol) = e
  BY LineEnds
<1> DEFINE name == request.parts[k].name
<1>6. /\ c = (IF j = e THEN name ELSE IF j \in {e - 1, 2 * e, 3 * e} THEN "lf" ELSE "cr")
      /\ Consume => Ahead' = Suffix(Opening(k, eol), j + 1) \o Rest(k, eol)
      /\ name \in Names /\ name \notin {"cr", "lf", BadHeader}
      /\ Opening(k, eol) \in Texts /\ Len(Opening(k, eol)) = 3 * e + 1
      /\ Rest(k, eol) \in Texts
  BY <1>1, <1>4, <1>5, HeadStep
<1> HIDE DEF name
<1>7. \/ j = e /\ header = <<>>
      \/ e < j /\ j <= 2 * e /\ header = <<name>>
      \/ 2 * e < j /\ header = <<>> /\ field = name
  BY <1>1, <1>4, <1>5 DEF Heads, name
<1>8. j \in 0 .. 3 * e
  BY <1>4, <1>5
<1>9. <<>> # <<name>> /\ Head(<<name>>) = name /\ Len(<<>>) = 0 /\ MaxHeader \in Nat \ {0, 1}
  BY FormDataAssumption
<1>10. ASSUME Consume, UNCHANGED <<matchVars, out, value, params>>, j + 1 <= 3 * e,
              Heads(k, j + 1, eol)'
       PROVE  Progress(eol)'
  <2>1. j + 1 \in 0 .. 3 * Len(eol)
    BY <1>5, <1>8, <1>10
  <2> QED BY <1>1, <1>2, <1>3, <1>6, <1>10, <2>1, StillBetween
<1>11. Consume => request' = request
  BY DEF Consume, readVars
<1>12. CASE HeaderSymbol
  <2>1. Consume /\ UNCHANGED <<matchVars, state, out, field, value, params>> /\ c \notin {"cr", "lf"}
        /\ header' = Append(header, c)
    BY <1>12 DEF HeaderSymbol, partVars
  <2>2. j = e /\ c = name /\ header = <<>>
    BY <1>6, <1>7, <2>1
  <2>3. header' = <<name>>
    BY <2>1, <2>2
  <2>4. e < j + 1 /\ j + 1 <= 2 * e /\ j + 1 <= 3 * e
    BY <2>2
  <2>5. Heads(k, j + 1, eol)'
    BY <1>1, <1>5, <1>11, <2>1, <2>3, <2>4 DEF Heads, name
  <2> QED BY <1>10, <2>1, <2>4, <2>5
<1>13. CASE HeaderTooLong
  <2>1. c \notin {"cr", "lf"} /\ Len(header) >= MaxHeader - 1
    BY <1>13 DEF HeaderTooLong
  <2>2. header = <<>>
    BY <1>6, <1>7, <2>1
  <2> QED BY <1>9, <2>1, <2>2
<1>14. CASE HeaderReturn
  <2>1. Consume /\ UNCHANGED <<matchVars, state, header, out, field, value, params>> /\ c = "cr"
    BY <1>14 DEF HeaderReturn, partVars
  <2>2. j # e /\ j # 2 * e /\ j # 3 * e
    BY <1>6, <2>1
  <2>3. j + 1 <= 3 * e /\ (j <= 2 * e => j + 1 <= 2 * e) /\ (e < j => e < j + 1) /\ (2 * e < j => 2 * e < j + 1)
    BY <1>8, <2>2
  <2>4. Heads(k, j + 1, eol)'
    <3>1. CASE e < j /\ j <= 2 * e /\ header = <<name>>
      BY <1>1, <1>5, <1>11, <2>1, <2>3, <3>1 DEF Heads, name
    <3>2. CASE 2 * e < j /\ header = <<>> /\ field = name
      BY <1>1, <1>5, <1>11, <2>1, <2>3, <3>2 DEF Heads, name
    <3> QED BY <1>7, <2>2, <3>1, <3>2
  <2> QED BY <1>10, <2>1, <2>3, <2>4
<1>15. CASE HeaderLine
  <2>1. /\ Consume /\ UNCHANGED <<matchVars, state, out, value, params>> /\ c = "lf" /\ header # <<>>
        /\ field' = (IF Head(header) \in Names THEN Head(header) ELSE field) /\ header' = <<>>
    BY <1>15 DEF HeaderLine
  <2>2. e < j /\ j <= 2 * e /\ header = <<name>>
    BY <1>7, <2>1
  <2>3. j = 2 * e
    BY <1>6, <2>1, <2>2
  <2>4. field' = name
    BY <1>6, <1>9, <2>1, <2>2
  <2>5. 2 * e < j + 1 /\ j + 1 <= 3 * e
    BY <2>3
  <2>6. Heads(k, j + 1, eol)'
    BY <1>1, <1>5, <1>11, <2>1, <2>4, <2>5 DEF Heads, name
  <2> QED BY <1>10, <2>1, <2>5, <2>6
<1>16. CASE HeaderBad
  <2>1. header # <<>> /\ Head(header) = BadHeader
    BY <1>16 DEF HeaderBad
  <2>2. header = <<name>>
    BY <1>7, <2>1
  <2> QED BY <1>6, <1>9, <2>1, <2>2
<1>17. CASE HeadersEnd
  <2> DEFINE text == Piece(request, k, eol)
  <2>1. /\ Consume /\ c = "lf" /\ header = <<>> /\ state' = "data" /\ out' = <<>>
        /\ pattern' = pattern /\ start' = start /\ pos' = pos
        /\ field' = field /\ value' = value /\ params' = params
    BY <1>17 DEF HeadersEnd, matchVars
  <2>2. pc' = pc /\ request' = request
    BY <2>1 DEF Consume, readVars
  <2>3. 2 * e < j /\ field = name
    BY <1>6, <1>7, <1>9, <2>1
  <2>4. j = 3 * e
    BY <1>6, <2>1, <2>3
  <2>5. Rest(k, eol) = text \o Following(request, eol)[k + 1]
    BY DEF Rest
  <2>6. text \in Texts /\ Len(text) \in Nat \ {0}
    <3>1. /\ text \in Texts /\ Len(request.parts[k].value) \in Nat
          /\ Len(text) = Len(request.parts[k].value) + Len(eol) + 2 + Len(request.boundary)
      BY PieceIs DEF IInv
    <3>2. Len(text) \in Nat
      BY <3>1, LenProperties DEF Texts
    <3>3. OneLine(request.boundary)
      BY RequestIs DEF IInv
    <3>4. PICK a \in Nat : a = Len(request.parts[k].value)
      BY <3>1
    <3>5. PICK b \in Nat : b = Len(request.boundary)
      BY <3>3, PatternIs
    <3>6. Len(text) = a + e + 2 + b
      BY <1>5, <3>1, <3>4, <3>5
    <3>7. a + e + 2 + b \in Nat \ {0}
      OBVIOUS
    <3> QED BY <3>1, <3>6, <3>7
  <2> HIDE DEF text
  <2>7. Ahead' = Suffix(text, 0) \o Following(request, eol)[k + 1]
    <3>1. Ahead' = Suffix(Opening(k, eol), Len(Opening(k, eol))) \o Rest(k, eol)
      BY <1>6, <2>1, <2>4
    <3>2. Ahead' = Rest(k, eol)
      BY <1>6, <3>1, SuffixEnds, ConcatEmptySeq DEF Texts
    <3> QED BY <2>5, <2>6, <3>2, SuffixEnds
  <2>8. out = <<>> /\ value = <<>> /\ pos = start /\ start <= 2 - e /\ start \in 0 .. 2
    BY <1>2, <1>5 DEF Between, IInv, Matching
  <2>9. start \in {0, 1} /\ pos' - start' = 0
    BY <2>1, <2>8
  <2>10. Holds([out |-> out', value |-> value'], text, 0 - 0)
    <3>1. SubSeq(text, 1, 0) = <<>>
      BY <2>6, SubSeqEmpty DEF Texts
    <3>2. 0 < BufferSize /\ 0 - 0 = 0
      BY FormDataAssumption
    <3> QED BY <2>1, <2>8, <3>1, <3>2 DEF Holds
  <2>11. Within(k, 0, eol)'
    <3>1. ~(0 > Len(request.parts[k].value))
      BY PieceIs DEF IInv
    <3>2. Piece(request, k, eol) = text
      BY DEF text
    <3> QED BY <2>2, <2>7, <2>9, <2>10, <3>1, <3>2 DEF Within
  <2>12. InValue(k, eol)'
    <3>1. 0 \in 0 .. Len(text) - 1
      BY <2>6
    <3>2. k <= Len(request'.parts)
      BY <1>3, <2>2
    <3> QED BY <1>5, <2>1, <2>2, <2>3, <2>8, <2>9, <2>11, <3>1, <3>2 DEF InValue, text, name
  <2>13. Entered(k)'
    BY <1>2, <2>1, <2>2 DEF Entered
  <2>14. Part(k, eol)' /\ k \in 1 .. Len(request'.parts) + 1
    BY <1>3, <2>2, <2>12, <2>13 DEF Part
  <2> QED BY <1>1, <1>3, <2>1, <2>2, <2>14 DEF Progress
<1> QED BY <1>12, <1>13, <1>14, <1>15, <1>16, <1>17

(* Where the parser is in a value and its delimiter.                       *)
(* The same with a name for each length, and the symbol that is next.      *)
At(k, j, eol, e, b, end, held) ==
  LET text == Piece(request, k, eol)
  IN  /\ e = Len(eol) /\ b = Len(request.boundary)
      /\ end = Len(request.parts[k].value) /\ pos = start + held
      /\ text \in Texts /\ Len(text) = end + e + 2 + b /\ j \in Nat /\ j < end + e + 2 + b
      /\ Len(pattern) = 4 + b /\ held <= j
      /\ c = text[j + 1]
      /\ Consume => Ahead' = Suffix(text, j + 1) \o Following(request, eol)[k + 1]
      /\ \A x \in 1 .. held : text[j - held + x] = pattern[start + x]
      /\ Holds([out |-> out, value |-> value], text, j - held)
      /\ j > end => held = j - end /\ start = 2 - e /\ Matches
      /\ j = end => (Matches <=> held = 0 /\ start = 2 - e) /\ c = (IF e = 2 THEN "cr" ELSE "lf")
      /\ pattern[2] = "lf"

LEMMA DataAt ==
  ASSUME IInv, NEW eol \in Eols, WellFormed(request, eol), input # <<>>, pc = "parsing",
         pattern = Pattern(request.boundary), NEW k \in 1 .. Len(request.parts),
         NEW j \in 0 .. Len(Piece(request, k, eol)) - 1, Within(k, j, eol),
         start \in {0, 1}
  PROVE  \E e \in {1, 2}, b \in Nat, end \in Nat, held \in Nat : At(k, j, eol, e, b, end, held)
<1> DEFINE text == Piece(request, k, eol)
<1> DEFINE F == Following(request, eol)[k + 1]
<1>a. PICK e \in {1, 2} : e = Len(eol)
  BY LineEnds
<1>b. PICK b \in Nat : b = Len(request.boundary)
  BY RequestIs, PatternIs DEF IInv
<1>c. PICK end \in Nat : end = Len(request.parts[k].value)
  BY PieceIs DEF IInv
<1>d. PICK held \in Nat : held = pos - start /\ pos = start + held
  BY DEF IInv, Matching
<1>1. /\ text \in Texts /\ Len(text) = end + e + 2 + b
      /\ \A x \in 1 .. end : text[x] = request.parts[k].value[x]
      /\ \A y \in 1 .. e + 2 + b : text[end + y] = pattern[(2 - e) + y]
  <2>1. /\ text \in Texts /\ Len(text) = end + Len(eol) + 2 + Len(request.boundary)
        /\ \A x \in 1 .. end : text[x] = request.parts[k].value[x]
        /\ \A y \in 1 .. Len(eol) + 2 + Len(request.boundary) :
             text[end + y] = Pattern(request.boundary)[(2 - Len(eol)) + y]
    BY <1>c, PieceIs DEF IInv
  <2> QED BY <1>a, <1>b, <2>1
<1> HIDE DEF text
<1>2. Len(text) \in Nat /\ j \in Nat /\ j < Len(text) /\ e \in Nat
  <2>1. PICK l \in Nat : l = end + e + 2 + b
    OBVIOUS
  <2>2. Len(text) = l
    BY <1>1, <2>1
  <2>3. j \in 0 .. l - 1
    BY <2>2 DEF text
  <2> QED BY <2>2, <2>3
<1>3. /\ Len(pattern) = 4 + b /\ pattern[1] = "cr" /\ pattern[2] = "lf"
      /\ \A x \in 3 .. 4 + b : pattern[x] \notin {"cr", "lf"}
  BY <1>b, RequestIs, PatternIs DEF IInv
<1>4. /\ Ahead = Suffix(text, j) \o F
      /\ held <= j /\ \A x \in 1 .. held : text[j - held + x] = pattern[start + x]
      /\ Holds([out |-> out, value |-> value], text, j - held)
      /\ j > end => held = j - end /\ start = 2 - e
  BY <1>a, <1>c, <1>d DEF Within, text
<1>5. pos = start + held /\ pos < Len(pattern) /\ pos \in Nat
  BY <1>d DEF IInv, Matching
<1>6. F \in Texts
  <2>1. k + 1 \in 1 .. Len(request.parts) + 1
    BY RequestIs DEF IInv
  <2> QED BY <2>1, FollowingIs DEF IInv
<1> HIDE DEF F
<1>7. c = text[j + 1]
  BY <1>1, <1>2, <1>4, <1>6, NextIs DEF IInv
<1>8. Consume => Ahead' = Suffix(text, j + 1) \o F
  BY <1>1, <1>2, <1>4, <1>6, Consumed DEF IInv
<1>9. ASSUME j >= end PROVE c = pattern[(2 - e) + (j + 1 - end)]
  <2>1. PICK y \in 1 .. e + 2 + b : end + y = j + 1
    <3>1. j < end + e + 2 + b
      BY <1>1, <1>2
    <3>2. PICK y \in Nat : end + y = j + 1
      <4>1. j + 1 - end \in Nat /\ end + (j + 1 - end) = j + 1
        BY <1>2, <1>9
      <4> QED BY <4>1
    <3>3. y \in 1 .. e + 2 + b
      BY <1>2, <1>9, <3>1, <3>2
    <3> QED BY <3>2, <3>3
  <2>2. y = j + 1 - end
    BY <1>2, <2>1
  <2> QED BY <1>1, <1>7, <2>1, <2>2
<1>10. ASSUME j > end PROVE held = j - end /\ start = 2 - e /\ Matches
  <2>1. held = j - end /\ start = 2 - e
    BY <1>4, <1>10
  <2>2. (2 - e) + (j + 1 - end) = pos + 1
    BY <1>2, <1>5, <2>1
  <2>3. j >= end
    BY <1>2, <1>10
  <2> QED BY <1>9, <2>1, <2>2, <2>3 DEF Matches
<1>11. ASSUME j = end
       PROVE  (Matches <=> held = 0 /\ start = 2 - e) /\ c = (IF e = 2 THEN "cr" ELSE "lf")
  <2>1. c = pattern[(2 - e) + 1]
    <3>1. j + 1 - end = 1 /\ j >= end
      BY <1>11
    <3> QED BY <1>9, <3>1
  <2>2. c = IF e = 2 THEN "cr" ELSE "lf"
    <3>1. CASE e = 1
      BY <1>3, <2>1, <3>1
    <3>2. CASE e = 2
      BY <1>3, <2>1, <3>2
    <3> QED BY <3>1, <3>2
  <2>3. pos + 1 \in 1 .. 4 + b
    BY <1>3, <1>5
  <2>4. ASSUME Matches PROVE held = 0 /\ start = 2 - e
    <3>1. c = pattern[pos + 1] /\ (pos + 1 = 1 \/ pos + 1 = 2)
      BY <1>3, <2>2, <2>3, <2>4 DEF Matches
    <3>2. pos = 2 - e
      <4>1. CASE pos + 1 = 1
        <5>1. c = "cr" /\ pos = 0
          BY <1>3, <1>5, <3>1, <4>1
        <5>2. e = 2
          BY <2>2, <5>1
        <5> QED BY <5>1, <5>2
      <4>2. CASE pos + 1 = 2
        <5>1. c = "lf" /\ pos = 1
          BY <1>3, <1>5, <3>1, <4>2
        <5>2. e = 1
          BY <2>2, <5>1
        <5> QED BY <5>1, <5>2
      <4> QED BY <3>1, <4>1, <4>2
    <3>3. CASE held = 0
      BY <1>5, <3>2, <3>3
    <3>4. CASE held # 0
      <4>1. start = 0 /\ held = 1 /\ e = 1
        BY <1>5, <3>2, <3>4
      <4>2. text[j] = "cr" /\ j >= 1
        <5>1. 1 \in 1 .. held /\ j - held + 1 = j /\ start + 1 = 1 /\ j >= 1
          BY <1>2, <1>4, <4>1
        <5> QED BY <1>3, <1>4, <5>1
      <4>3. request.parts[k].value[end] = "cr" /\ end >= 1
        <5>1. end \in 1 .. end /\ end >= 1 /\ text[end] = "cr"
          BY <1>11, <4>2
        <5> QED BY <1>1, <5>1
      <4>4. eol = <<"lf">>
        BY <1>a, <4>1, LineEnds
      <4>5. Carries(request.parts[k].value, request.boundary, eol)
        BY RequestIs DEF IInv
      <4>6. request.parts[k].value # <<>>
        <5>1. Len(<<>>) = 0
          OBVIOUS
        <5> QED BY <1>c, <4>3, <5>1
      <4> QED BY <1>c, <4>3, <4>4, <4>5, <4>6 DEF Carries
    <3> QED BY <3>3, <3>4
  <2>5. ASSUME held = 0, start = 2 - e PROVE Matches
    <3>1. pos + 1 = (2 - e) + 1
      BY <1>5, <2>5
    <3> QED BY <2>1, <3>1 DEF Matches
  <2> QED BY <2>2, <2>4, <2>5
<1>12. At(k, j, eol, e, b, end, held)
  <2>1. j < end + e + 2 + b
    BY <1>1, <1>2
  <2> QED BY <1>a, <1>b, <1>c, <1>1, <1>2, <1>3, <1>4, <1>5, <1>7, <1>8, <1>10, <1>11, <2>1
          DEF At, F, text
<1> QED BY <1>12

LEMMA InData ==
  ASSUME IInv, NEW eol \in Eols, WellFormed(request, eol), Progress(eol),
         pc = "parsing", state = "data"
  PROVE  /\ pattern = Pattern(request.boundary)
         /\ \E k \in 1 .. Len(request.parts) : Entered(k) /\ InValue(k, eol)
<1>1. Len(request.parts) \in Nat
  BY RequestIs DEF IInv
<1>2. PICK k \in 1 .. Len(request.parts) + 1 : Part(k, eol)
  BY DEF Progress, Seeking
<1>3. Entered(k) /\ InValue(k, eol)
  BY <1>2 DEF Part, Between, Heads, Closing
<1>4. k \in 1 .. Len(request.parts)
  BY <1>1, <1>3 DEF InValue
<1> QED BY <1>3, <1>4 DEF Progress

(* A step that leaves the parser in the value of the same part.            *)
LEMMA StillInValue ==
  ASSUME IInv, NEW eol \in Eols, WellFormed(request, eol), pc = "parsing",
         pattern = Pattern(request.boundary), NEW k \in 1 .. Len(request.parts),
         Entered(k), InValue(k, eol),
         UNCHANGED <<pc, request, pattern, state, field, params>>,
         NEW j \in 0 .. Len(Piece(request, k, eol)) - 1, NEW held \in Nat, held <= j,
         pos' = start' + held, start' \in {0, 1}, held = 0 => start' <= 2 - Len(eol),
         Ahead' = Suffix(Piece(request, k, eol), j) \o Following(request, eol)[k + 1],
         \A x \in 1 .. held : Piece(request, k, eol)[j - held + x] = pattern[start' + x],
         Holds([out |-> out', value |-> value'], Piece(request, k, eol), j - held),
         j > Len(request.parts[k].value) =>
           held = j - Len(request.parts[k].value) /\ start' = 2 - Len(eol)
  PROVE  Progress(eol)'
<1> DEFINE text == Piece(request, k, eol)
<1>1. Len(request.parts) \in Nat
  BY RequestIs DEF IInv
<1>2. pos' - start' = held /\ (pos' = start' => held = 0)
  <2>1. \A s \in {0, 1}, h \in Nat : (s + h) - s = h /\ (s + h = s => h = 0)
    OBVIOUS
  <2> QED BY <2>1
<1>3. Within(k, j, eol)'
  BY <1>2 DEF Within
<1>4. InValue(k, eol)'
  BY <1>1, <1>2, <1>3 DEF InValue
<1>5. Entered(k)'
  BY DEF Entered
<1>6. Part(k, eol)' /\ k \in 1 .. Len(request.parts) + 1
  BY <1>1, <1>4, <1>5 DEF Part
<1> QED BY <1>6 DEF Progress

LEMMA DataMatchProgress ==
  ASSUME IInv, NEW eol \in Eols, WellFormed(request, eol), Progress(eol), DataMatch
  PROVE  Progress(eol)'
<1>1. /\ pc = "parsing" /\ state = "data" /\ input # <<>> /\ Consume /\ Matches /\ ~Complete
      /\ pos' = pos + 1 /\ start' = start
      /\ UNCHANGED <<pc, request, pattern, state, field, params>> /\ out' = out /\ value' = value
  BY DEF DataMatch, In, Consume, readVars, partVars
<1>2. PICK k \in 1 .. Len(request.parts) : Entered(k) /\ InValue(k, eol)
  BY <1>1, InData
<1>3. pattern = Pattern(request.boundary)
  BY <1>1, InData
<1>4. PICK j \in 0 .. Len(Piece(request, k, eol)) - 1 : Within(k, j, eol)
  BY <1>2 DEF InValue
<1>5. start \in {0, 1}
  BY <1>2 DEF InValue
<1>6. PICK e \in {1, 2}, b \in Nat, end \in Nat, held \in Nat : At(k, j, eol, e, b, end, held)
  BY <1>1, <1>3, <1>4, <1>5, DataAt
<1> DEFINE text == Piece(request, k, eol)
<1>7. /\ j \in Nat /\ j < end + e + 2 + b /\ Len(text) = end + e + 2 + b /\ pos = start + held /\ held <= j
      /\ e = Len(eol) /\ end = Len(request.parts[k].value)
      /\ j > end => held = j - end /\ start = 2 - e
      /\ j = end => held = 0 /\ start = 2 - e
      /\ pos + 1 # 4 + b
  BY <1>1, <1>6 DEF At, Complete
<1>8. /\ Ahead' = Suffix(text, j + 1) \o Following(request, eol)[k + 1]
      /\ Holds([out |-> out', value |-> value'], text, j - held)
      /\ \A x \in 1 .. held : text[j - held + x] = pattern[start + x]
      /\ text[j + 1] = pattern[pos + 1]
  BY <1>1, <1>6 DEF At, Matches
<1> HIDE DEF text
<1>9. j + 1 < end + e + 2 + b
  BY <1>5, <1>7
<1>10. j + 1 \in 0 .. Len(text) - 1 /\ held + 1 \in Nat /\ held + 1 <= j + 1
  <2>1. PICK l \in Nat : l = end + e + 2 + b
    OBVIOUS
  <2> QED BY <1>7, <1>9, <2>1
<1>11. pos' = start' + (held + 1) /\ held + 1 # 0 /\ (j + 1) - (held + 1) = j - held
  BY <1>1, <1>5, <1>7
<1>12. ASSUME NEW x \in 1 .. held + 1 PROVE text[(j + 1) - (held + 1) + x] = pattern[start' + x]
  <2>1. CASE x = held + 1
    <3>1. j - held + x = j + 1 /\ start + x = pos + 1
      BY <1>5, <1>7, <2>1
    <3> QED BY <1>1, <1>8, <1>11, <3>1
  <2>2. CASE x # held + 1
    <3>1. x \in 1 .. held
      BY <2>2
    <3> QED BY <1>1, <1>8, <1>11, <3>1
  <2> QED BY <2>1, <2>2
<1>13. j + 1 > end => held + 1 = (j + 1) - end /\ start' = 2 - e
  <2>1. start' = start
    BY <1>1
  <2>2. j + 1 > end => j > end \/ j = end
    BY <1>7
  <2>3. j > end => held + 1 = (j + 1) - end
    <3>1. (j - end) + 1 = (j + 1) - end
      BY <1>7
    <3> QED BY <1>7, <3>1
  <2>4. j = end => held + 1 = (j + 1) - end
    BY <1>7
  <2> QED BY <1>7, <2>1, <2>2, <2>3, <2>4
<1>14. Holds([out |-> out', value |-> value'], text, (j + 1) - (held + 1))
  BY <1>8, <1>11
<1>15. j + 1 > Len(request.parts[k].value) =>
         held + 1 = (j + 1) - Len(request.parts[k].value) /\ start' = 2 - Len(eol)
  BY <1>7, <1>13
<1> QED BY <1>1, <1>2, <1>3, <1>5, <1>8, <1>10, <1>11, <1>12, <1>14, <1>15, StillInValue DEF text

(* A symbol that is not the next of the boundary is not past the value.    *)
LEMMA DataPutProgress ==
  ASSUME IInv, NEW eol \in Eols, WellFormed(request, eol), Progress(eol),
         DataSymbol \/ DataLineFeed \/ DataMismatch
  PROVE  Progress(eol)'
<1>1. /\ pc = "parsing" /\ state = "data" /\ input # <<>> /\ ~Matches
      /\ UNCHANGED <<pc, request, pattern, state, field, params>>
  BY DEF DataSymbol, DataLineFeed, DataMismatch, In, Consume, readVars, partVars, matchVars
<1>2. PICK k \in 1 .. Len(request.parts) : Entered(k) /\ InValue(k, eol)
  BY <1>1, InData
<1>3. pattern = Pattern(request.boundary)
  BY <1>1, InData
<1>4. PICK j \in 0 .. Len(Piece(request, k, eol)) - 1 : Within(k, j, eol)
  BY <1>2 DEF InValue
<1>5. start \in {0, 1} /\ (pos = start => start <= 2 - Len(eol))
  BY <1>2 DEF InValue
<1>6. PICK e \in {1, 2}, b \in Nat, end \in Nat, held \in Nat : At(k, j, eol, e, b, end, held)
  BY <1>1, <1>3, <1>4, <1>5, DataAt
<1> DEFINE text == Piece(request, k, eol)
           F == Following(request, eol)[k + 1]
<1>7. /\ j \in Nat /\ Len(text) = end + e + 2 + b /\ pos = start + held /\ held <= j
      /\ e = Len(eol) /\ end = Len(request.parts[k].value)
      /\ ~(j > end) /\ Len(pattern) = 4 + b /\ text \in Texts
      /\ j = end => ~(held = 0 /\ start = 2 - e) /\ c = (IF e = 2 THEN "cr" ELSE "lf")
  BY <1>1, <1>6 DEF At
<1>8. /\ Consume => Ahead' = Suffix(text, j + 1) \o F
      /\ Holds([out |-> out, value |-> value], text, j - held)
      /\ \A x \in 1 .. held : text[j - held + x] = pattern[start + x]
      /\ c = text[j + 1] /\ pattern[2] = "lf"
  BY <1>6 DEF At
<1>9. Ahead = Suffix(text, j) \o F
  BY <1>4 DEF Within
<1> HIDE DEF text, F
<1>10. j \in 0 .. Len(text) - 1 /\ j + 1 \in 0 .. Len(text) - 1 /\ j + 1 <= Len(text) /\ Len(text) \in Nat
  <2>1. PICK l \in Nat : l = end + e + 2 + b
    OBVIOUS
  <2> QED BY <1>7, <2>1
<1>11. [out |-> out, value |-> value] \in Buffers
  BY DEF IInv, Collected
<1>12. CASE DataSymbol
  <2>1. Consume /\ pos = start /\ c # "lf" /\ Output(<<c>>) /\ start' = start /\ pos' = pos
    BY <1>12 DEF DataSymbol, matchVars
  <2>2. held = 0
    BY <1>5, <1>7, <2>1
  <2>3. j # end
    <3>1. ASSUME j = end PROVE FALSE
      <4>1. e = 2
        BY <1>7, <2>1, <3>1
      <4>2. start = 0
        BY <1>5, <1>7, <2>1, <4>1
      <4> QED BY <1>7, <2>2, <3>1, <4>1, <4>2
    <3> QED BY <3>1
  <2>4. ~(j + 1 > end)
    BY <1>7, <2>3
  <2>5. Holds([out |-> out', value |-> value'], text, j + 1)
    <3> DEFINE s == <<c>>
    <3>1. c \in Symbols /\ s \in Texts /\ Len(s) = 1 /\ s[1] = c
      <4>1. j + 1 \in 1 .. Len(text)
        BY <1>7, <1>10
      <4>2. text[j + 1] \in Symbols
        BY <1>7, <4>1, ElementOfSeq DEF Texts
      <4> QED BY <1>8, <4>2 DEF Texts
    <3>2. Output(s)
      BY <2>1
    <3> HIDE DEF s
    <3>3. \A x \in 1 .. Len(s) : s[x] = text[j + x]
      BY <1>8, <3>1
    <3>4. j + Len(s) <= Len(text) /\ j - held = j
      BY <1>7, <1>10, <2>2, <3>1
    <3>5. Holds([out |-> out, value |-> value], text, j)
      BY <1>8, <3>4
    <3>6. Holds([out |-> out', value |-> value'], text, j + Len(s))
      BY <1>7, <1>11, <3>1, <3>2, <3>3, <3>4, <3>5, OutputHolds
    <3> QED BY <3>1, <3>6
  <2>6. /\ 0 <= j + 1 /\ pos' = start' + 0 /\ start' \in {0, 1} /\ (0 = 0 => start' <= 2 - Len(eol))
        /\ (j + 1) - 0 = j + 1
    BY <1>5, <1>7, <2>1
  <2>7. \A x \in 1 .. 0 : text[(j + 1) - 0 + x] = pattern[start' + x]
    OBVIOUS
  <2>8. ~(j + 1 > Len(request.parts[k].value)) /\ Ahead' = Suffix(text, j + 1) \o F
    BY <1>7, <1>8, <2>1, <2>4
  <2> QED BY <1>1, <1>2, <1>3, <1>10, <2>5, <2>6, <2>7, <2>8, StillInValue DEF text, F
<1>13. CASE DataLineFeed
  <2>1. /\ Consume /\ pos = start /\ c = "lf" /\ start' = 1 /\ pos' = 2
        /\ out' = out /\ value' = value
    BY <1>13 DEF DataLineFeed, partVars
  <2>2. held = 0
    BY <1>5, <1>7, <2>1
  <2>3. j = end => e = 1
    BY <1>7, <2>1
  <2>4. j + 1 > end => 1 = (j + 1) - end /\ start' = 2 - e
    <3>1. j + 1 > end => j = end
      BY <1>7
    <3>2. j = end => 1 = (j + 1) - end
      BY <1>7
    <3> QED BY <2>1, <2>3, <3>1, <3>2
  <2>5. j + 1 > Len(request.parts[k].value) =>
          1 = (j + 1) - Len(request.parts[k].value) /\ start' = 2 - Len(eol)
    BY <1>7, <2>4
  <2>6. \A x \in 1 .. 1 : text[(j + 1) - 1 + x] = pattern[start' + x]
    <3>1. (j + 1) - 1 + 1 = j + 1 /\ start' + 1 = 2
      BY <1>7, <2>1
    <3>2. text[j + 1] = pattern[2]
      BY <1>8, <2>1
    <3> QED BY <3>1, <3>2
  <2>7. Holds([out |-> out', value |-> value'], text, (j + 1) - 1)
    <3>1. (j + 1) - 1 = j - held
      BY <1>7, <2>2
    <3> QED BY <1>8, <2>1, <3>1
  <2>8. 1 <= j + 1 /\ pos' = start' + 1 /\ start' \in {0, 1} /\ (1 = 0 => start' <= 2 - Len(eol))
    BY <1>7, <2>1
  <2>9. Ahead' = Suffix(text, j + 1) \o F
    BY <1>8, <2>1
  <2> QED BY <1>1, <1>2, <1>3, <1>10, <2>5, <2>6, <2>7, <2>8, <2>9, StillInValue DEF text, F
<1>14. CASE DataMismatch
  <2> DEFINE s == SubSeq(pattern, start + 1, pos)
  <2>1. /\ start' = 0 /\ pos' = 0 /\ Ahead' = Ahead /\ Output(s)
    BY <1>14 DEF DataMismatch, Ahead, readVars
  <2>2. s \in Texts /\ Len(s) = held /\ \A x \in 1 .. held : s[x] = pattern[start + x]
    <3>1. pos < 4 + b /\ pattern \in Texts
      BY <1>1, <1>7 DEF IInv, Matching
    <3>2. \A i \in 1 .. 4 + b : pattern[i] \in Symbols
      BY <1>7, <3>1, ElementOfSeq DEF Texts
    <3>3. \A i \in start + 1 .. pos : pattern[i] \in Symbols
      BY <1>5, <1>7, <3>1, <3>2
    <3>4. start + 1 \in Int /\ pos \in Int /\ pos - (start + 1) + 1 = held
      BY <1>5, <1>7
    <3>5. /\ s \in Seq(Symbols) /\ Len(s) = (IF start + 1 <= pos THEN pos - (start + 1) + 1 ELSE 0)
          /\ \A x \in 1 .. pos - (start + 1) + 1 : s[x] = pattern[(start + 1) + x - 1]
      BY <3>3, <3>4, SubSeqProperties
    <3> HIDE DEF s
    <3>6. start + 1 <= pos \/ held = 0
      BY <1>5, <1>7
    <3>7. \A x \in 1 .. held : (start + 1) + x - 1 = start + x
      BY <1>5
    <3> QED BY <3>4, <3>5, <3>6, <3>7 DEF Texts
  <2> HIDE DEF s
  <2>3. Holds([out |-> out', value |-> value'], text, j)
    <3>1. PICK m \in Nat : m + held = j /\ m = j - held
      <4>1. j - held \in Nat /\ (j - held) + held = j
        BY <1>7
      <4> QED BY <4>1
    <3>2. m + Len(s) = j /\ m + Len(s) <= Len(text)
      BY <1>7, <1>10, <2>2, <3>1
    <3>3. \A x \in 1 .. Len(s) : s[x] = text[m + x]
      BY <1>8, <2>2, <3>1
    <3>4. Holds([out |-> out, value |-> value], text, m)
      BY <1>8, <3>1
    <3>5. Holds([out |-> out', value |-> value'], text, m + Len(s))
      BY <1>7, <1>11, <2>1, <2>2, <3>2, <3>3, <3>4, OutputHolds
    <3> QED BY <3>2, <3>5
  <2>4. /\ 0 <= j /\ pos' = start' + 0 /\ start' \in {0, 1} /\ (0 = 0 => start' <= 2 - Len(eol))
        /\ j - 0 = j
    <3>1. 0 <= j /\ j - 0 = j
      BY <1>7
    <3>2. 0 <= 2 - e
      OBVIOUS
    <3> QED BY <1>7, <2>1, <3>1, <3>2
  <2>5. \A x \in 1 .. 0 : text[j - 0 + x] = pattern[start' + x]
    OBVIOUS
  <2>6. ~(j > Len(request.parts[k].value)) /\ Ahead' = Suffix(text, j) \o F
    BY <1>7, <1>9, <2>1
  <2> QED BY <1>1, <1>2, <1>3, <1>10, <2>3, <2>4, <2>5, <2>6, StillInValue DEF text, F
<1> QED BY <1>12, <1>13, <1>14

(* The part is entered under its name unless there is one of that name.    *)
LEMMA EnteredNext ==
  ASSUME Len(request.parts) \in Nat, NEW k \in 1 .. Len(request.parts), Entered(k),
         request' = request,
         params' = (IF request.parts[k].name \in DOMAIN params THEN params
                    ELSE [n \in DOMAIN params \cup {request.parts[k].name} |->
                            IF n = request.parts[k].name THEN Taken(request.parts[k].value)
                            ELSE params[n]])
  PROVE  Entered(k + 1)'
<1> DEFINE name(i) == request.parts[i].name
           last == Taken(request.parts[k].value)
           First(i) == \A j \in 1 .. i - 1 : name(j) # name(i)
<1>1. DOMAIN params = { name(i) : i \in 1 .. k - 1 }
  BY DEF Entered
<1>2. \A i \in 1 .. k - 1 : First(i) => params[name(i)] = Taken(request.parts[i].value)
  BY DEF Entered
<1>3. (k + 1) - 1 = k /\ 1 .. k = (1 .. k - 1) \cup {k} /\ k \notin 1 .. k - 1
  OBVIOUS
<1>4. params' = IF name(k) \in DOMAIN params THEN params
                ELSE [n \in DOMAIN params \cup {name(k)} |-> IF n = name(k) THEN last ELSE params[n]]
  OBVIOUS
<1> HIDE DEF last
<1>5. DOMAIN params' = DOMAIN params \cup {name(k)}
  BY <1>4
<1>6. \A n \in DOMAIN params : params'[n] = params[n]
  BY <1>4
<1>7. name(k) \notin DOMAIN params => params'[name(k)] = last
  BY <1>4
<1> HIDE DEF name
<1>8. DOMAIN params' = { name(i) : i \in 1 .. k }
  BY <1>1, <1>3, <1>5
<1>9. ASSUME NEW i \in 1 .. k, First(i) PROVE params'[name(i)] = Taken(request.parts[i].value)
  <2>1. CASE i \in 1 .. k - 1
    BY <1>1, <1>2, <1>6, <1>9, <2>1
  <2>2. CASE i = k
    <3>1. name(k) \notin DOMAIN params
      BY <1>1, <1>9, <2>2
    <3> QED BY <1>7, <2>2, <3>1 DEF last
  <2> QED BY <1>3, <2>1, <2>2
<1>10. DOMAIN params' = { request'.parts[i].name : i \in 1 .. (k + 1) - 1 }
  BY <1>3, <1>8 DEF name
<1>11. ASSUME NEW i \in 1 .. (k + 1) - 1, \A j \in 1 .. i - 1 : request'.parts[j].name # request'.parts[i].name
       PROVE  params'[request'.parts[i].name] = Taken(request'.parts[i].value)
  <2>1. i \in 1 .. k /\ First(i)
    BY <1>3, <1>11 DEF name
  <2>2. params'[name(i)] = Taken(request.parts[i].value)
    BY <1>9, <2>1
  <2> QED BY <2>2 DEF name
<1> QED BY <1>10, <1>11 DEF Entered

(* A value is what its piece begins with.                                  *)
LEMMA TakenOfPiece ==
  ASSUME NEW v \in Texts, NEW d \in Texts, NEW m \in Nat, m <= Len(v)
  PROVE  SubSeq(v \o d, 1, m) = SubSeq(v, 1, m)
<1> DEFINE t == v \o d
<1>1. /\ t \in Texts /\ Len(t) = Len(v) + Len(d) /\ Len(v) \in Nat /\ Len(d) \in Nat
      /\ \A i \in 1 .. Len(v) : t[i] = v[i]
  BY Joined
<1> HIDE DEF t
<1>2. m <= Len(t) /\ \A i \in 1 .. m : i \in 1 .. Len(v)
  BY <1>1
<1>3. /\ SubSeq(t, 1, m) \in Texts /\ Len(SubSeq(t, 1, m)) = m
      /\ \A i \in 1 .. m : SubSeq(t, 1, m)[i] = t[i]
  BY <1>1, <1>2, Prefix
<1>4. /\ SubSeq(v, 1, m) \in Texts /\ Len(SubSeq(v, 1, m)) = m
      /\ \A i \in 1 .. m : SubSeq(v, 1, m)[i] = v[i]
  BY Prefix
<1>5. \A i \in 1 .. m : SubSeq(t, 1, m)[i] = SubSeq(v, 1, m)[i]
  BY <1>1, <1>2, <1>3, <1>4
<1>6. SubSeq(t, 1, m) = SubSeq(v, 1, m)
  BY <1>3, <1>4, <1>5, SeqEqual DEF Texts
<1> QED BY <1>6 DEF t

(* What is flushed at the end of a value.                                  *)
LEMMA FlushTakes ==
  ASSUME NEW v \in Texts, NEW d \in Texts, Holds([out |-> out, value |-> value], v \o d, Len(v))
  PROVE  Flush([out |-> out, value |-> value]).value = Taken(v)
<1> DEFINE t == v \o d
<1>1. PICK end \in Nat : end = Len(v)
  BY LenProperties DEF Texts
<1>2. BufferSize \in Nat \ {0}
  BY FormDataAssumption
<1>3. Flush([out |-> out, value |-> value]).value = IF value = <<>> THEN out ELSE value
  BY DEF Flush
<1>4. CASE end < BufferSize
  <2>1. out = SubSeq(t, 1, end) /\ value = <<>>
    BY <1>1, <1>4 DEF Holds
  <2>2. Least(BufferSize, end) = end
    BY <1>2, <1>4 DEF Least
  <2>3. SubSeq(t, 1, end) = SubSeq(v, 1, end)
    BY <1>1, TakenOfPiece
  <2> QED BY <1>1, <1>3, <2>1, <2>2, <2>3 DEF Taken
<1>5. CASE ~(end < BufferSize)
  <2>1. value = SubSeq(t, 1, BufferSize)
    BY <1>1, <1>5 DEF Holds
  <2>2. Least(BufferSize, end) = BufferSize /\ BufferSize <= end
    BY <1>2, <1>5 DEF Least
  <2>3. SubSeq(t, 1, BufferSize) = SubSeq(v, 1, BufferSize)
    BY <1>1, <1>2, <2>2, TakenOfPiece
  <2>4. Len(SubSeq(v, 1, BufferSize)) = BufferSize
    BY <1>1, <1>2, <2>2, Prefix
  <2>5. SubSeq(v, 1, BufferSize) # <<>>
    <3>1. Len(<<>>) = 0
      OBVIOUS
    <3> QED BY <1>2, <2>4, <3>1
  <2> QED BY <1>1, <1>3, <2>1, <2>2, <2>3, <2>5 DEF Taken
<1> QED BY <1>4, <1>5

LEMMA DataEndProgress ==
  ASSUME IInv, NEW eol \in Eols, WellFormed(request, eol), Progress(eol), DataEnd
  PROVE  Progress(eol)'
<1>1. /\ pc = "parsing" /\ state = "data" /\ input # <<>> /\ Consume /\ Matches /\ Complete
      /\ UNCHANGED <<pc, request, pattern, start>> /\ state' = "after" /\ pos' = start
      /\ out' = <<>> /\ value' = <<>>
  BY DEF DataEnd, In, Consume, readVars
<1>2. PICK k \in 1 .. Len(request.parts) : Entered(k) /\ InValue(k, eol)
  BY <1>1, InData
<1>3. pattern = Pattern(request.boundary)
  BY <1>1, InData
<1>4. PICK j \in 0 .. Len(Piece(request, k, eol)) - 1 : Within(k, j, eol)
  BY <1>2 DEF InValue
<1>5. start \in {0, 1} /\ field = request.parts[k].name
  BY <1>2 DEF InValue
<1>6. PICK e \in {1, 2}, b \in Nat, end \in Nat, held \in Nat : At(k, j, eol, e, b, end, held)
  BY <1>1, <1>3, <1>4, <1>5, DataAt
<1> DEFINE text == Piece(request, k, eol)
           F == Following(request, eol)[k + 1]
           v == request.parts[k].value
           d == Delimiter(request.boundary, eol)
<1>7. /\ j \in Nat /\ j < end + e + 2 + b /\ Len(text) = end + e + 2 + b /\ pos = start + held /\ held <= j
      /\ e = Len(eol) /\ end = Len(v) /\ b = Len(request.boundary)
      /\ j > end => held = j - end /\ start = 2 - e
      /\ pos + 1 = 4 + b /\ Len(pattern) = 4 + b /\ text \in Texts
  BY <1>1, <1>6 DEF At, Complete
<1>8. /\ Ahead' = Suffix(text, j + 1) \o F
      /\ Holds([out |-> out, value |-> value], text, j - held)
      /\ \A x \in 1 .. held : text[j - held + x] = pattern[start + x]
      /\ text[j + 1] = pattern[pos + 1]
  BY <1>1, <1>6 DEF At, Matches
<1> HIDE DEF text, F
<1>9. \A x \in 1 .. held + 1 : text[j - held + x] = pattern[start + x]
  <2>1. TAKE x \in 1 .. held + 1
  <2>2. CASE x = held + 1
    <3>1. j - held + x = j + 1
      BY <1>7, <2>2
    <3>2. start + x = pos + 1
      <4>1. pos = start + held
        BY <1>7
      <4> QED BY <1>5, <2>2, <4>1
    <3> QED BY <1>8, <3>1, <3>2
  <2>3. CASE x # held + 1
    <3>1. x \in 1 .. held
      BY <2>3
    <3> QED BY <1>8, <3>1
  <2> QED BY <2>2, <2>3
<1>10. ~(j + 1 < Len(text))
  <2> SUFFICES ASSUME j + 1 < Len(text) PROVE FALSE
    OBVIOUS
  <2>1. start + held + 1 = Len(Pattern(request.boundary))
    BY <1>3, <1>5, <1>7
  <2>2. \A x \in 1 .. held + 1 :
          Piece(request, k, eol)[j - held + x] = Pattern(request.boundary)[start + x]
    BY <1>3, <1>9 DEF text
  <2>3. held <= j /\ j + 1 < Len(Piece(request, k, eol))
    BY <1>7 DEF text
  <2> QED BY <1>5, <1>7, <2>1, <2>2, <2>3, NotBefore DEF IInv
<1>11. j + 1 = Len(text) /\ j > end /\ j - held = end /\ start = 2 - e
  <2>1. j + 1 = end + e + 2 + b
    <3>1. ~(j + 1 < end + e + 2 + b)
      BY <1>7, <1>10
    <3>2. j \in Nat /\ j < end + e + 2 + b
      BY <1>7
    <3> QED BY <3>1, <3>2
  <2>2. j > end
    <3>1. j \in Nat
      BY <1>7
    <3> QED BY <2>1, <3>1
  <2>3. held = j - end
    BY <1>7, <2>2
  <2>4. j - held = end
    BY <1>7, <2>2, <2>3
  <2> QED BY <1>7, <2>1, <2>2, <2>4
<1>12. F \in Texts /\ k + 1 \in 1 .. Len(request.parts) + 1 /\ Len(request.parts) \in Nat
  <2>1. Len(request.parts) \in Nat
    BY RequestIs DEF IInv
  <2>2. k + 1 \in 1 .. Len(request.parts) + 1
    BY <2>1
  <2> QED BY <2>1, <2>2, FollowingIs DEF IInv, F
<1>13. Ahead' = F
  BY <1>7, <1>8, <1>11, <1>12, SuffixEnds, ConcatEmptySeq DEF Texts
<1>14. v \in Texts /\ d \in Texts /\ text = v \o d
  BY RequestIs, DelimiterIs DEF IInv, text, Piece
<1> HIDE DEF v, d
<1>15. Flush([out |-> out, value |-> value]).value = Taken(v)
  BY <1>7, <1>8, <1>11, <1>14, FlushTakes
<1>16. Entered(k + 1)'
  <2>1. params' = IF field \in DOMAIN params THEN params
                  ELSE [n \in DOMAIN params \cup {field} |-> IF n = field THEN Taken(v) ELSE params[n]]
    BY <1>15 DEF DataEnd
  <2> QED BY <1>1, <1>2, <1>5, <1>12, <2>1, EnteredNext DEF v
<1>17. start' <= 2 - Len(eol) /\ pos' = start'
  <2>1. PICK a \in {0, 1} : a = start /\ a = 2 - e
    BY <1>5, <1>11
  <2>2. a <= 2 - e
    BY <2>1
  <2> QED BY <1>1, <1>7, <2>1, <2>2
<1> QED BY <1>1, <1>3, <1>12, <1>13, <1>16, <1>17, Reached DEF IInv, F

LEMMA SkipProgress ==
  ASSUME IInv, NEW eol \in Eols, WellFormed(request, eol), Progress(eol), Skip
  PROVE  Progress(eol)'
<1>1. /\ pc = "parsing" /\ state = "finish" /\ state' = state /\ params' = params
      /\ pc' = pc /\ request' = request /\ pattern' = pattern
  BY DEF Skip, In, Consume, readVars, matchVars, partVars
<1>2. PICK k \in 1 .. Len(request.parts) + 1 : Part(k, eol)
  BY <1>1 DEF Progress, Seeking
<1>3. Entered(k) /\ k = Len(request.parts) + 1
  BY <1>1, <1>2 DEF Part, Between, Heads, InValue
<1>4. Entered(k)'
  BY <1>1, <1>3 DEF Entered
<1>5. Part(k, eol)'
  BY <1>1, <1>3, <1>4 DEF Part, Closing
<1> QED BY <1>1, <1>2, <1>3, <1>5 DEF Progress

(* Of a well-formed body the parser has entered what it has seen.          *)
Follows == \A eol \in Eols : WellFormed(request, eol) => Progress(eol)

LEMMA InitFollows == Init => Follows
<1> SUFFICES ASSUME Init, NEW eol \in Eols, WellFormed(request, eol) PROVE Progress(eol)
  BY DEF Follows
<1>1. IInv
  BY InitIInv
<1>2. Ahead = request.body
  <2>1. input = <<>> /\ unread = request.body /\ unread \in Texts
    BY <1>1 DEF Init, IInv, Lengths
  <2> QED BY <2>1, ConcatEmptySeq DEF Ahead, Texts
<1>3. Entered(1)
  <2>1. 1 .. 1 - 1 = {} /\ DOMAIN params = {}
    BY DEF Init
  <2> QED BY <2>1 DEF Entered
<1> QED BY <1>2, <1>3 DEF Init, Progress

LEMMA NextFollows == IInv /\ Follows /\ [Next]_vars => Follows'
<1> SUFFICES ASSUME IInv, Follows, [Next]_vars, NEW eol \in Eols, WellFormed(request, eol)'
             PROVE  Progress(eol)'
  BY DEF Follows
<1>1. request' = request
  BY DEF Next, ParseStep, Start, StartWithout, Begin, Refuse, Read, Return, Seek, AfterBoundary,
         HeaderSymbol, HeaderTooLong, HeaderReturn, HeaderLine, HeaderBad, HeadersEnd,
         DataMatch, DataEnd, DataSymbol, DataLineFeed, DataMismatch, Skip, Finished,
         Consume, Throw, vars, readVars
<1>2. WellFormed(request, eol) /\ Progress(eol)
  BY <1>1 DEF Follows
<1>3. CASE UNCHANGED vars
  <2>1. UNCHANGED <<pc, request, matchVars, state, header, partVars>> /\ Ahead' = Ahead
    BY <1>3 DEF vars, readVars, Ahead
  <2> QED BY <1>2, <2>1, SameProgress
<1>4. CASE ParseStep
  BY <1>2, <1>4, SeekProgress, AfterProgress, HeaderProgress, DataMatchProgress, DataPutProgress,
     DataEndProgress, SkipProgress DEF ParseStep
<1> QED BY <1>2, <1>3, <1>4, StartProgress, ReadProgress DEF Next, Finished

LEMMA ProgressIsMade == Spec => []Follows
BY InitFollows, NextFollows, Invariance, PTL DEF Spec

-----------------------------------------------------------------------------
(* However a well-formed body is cut into buffers, whichever of the two    *)
(* line ends it has, and whatever its values hold that only begins like    *)
(* the boundary, the parser enters the parts it is made of: every name,    *)
(* and for each the value of the first part of that name, as far as it     *)
(* fits the buffer (fcgi_handler.cpp:255-365, get_formdata_param).         *)
THEOREM PartsAreDelivered == Spec => []DeliversParts
<1>1. Follows /\ IInv => DeliversParts
  <2> SUFFICES ASSUME Follows, IInv, pc = "returned", NEW eol \in Eols, WellFormed(request, eol)
               PROVE  /\ DOMAIN params = { request.parts[i].name : i \in DOMAIN request.parts }
                      /\ \A n \in DOMAIN params : params[n] = FirstOf(request.parts, n)
    BY DEF DeliversParts
  <2> DEFINE parts == request.parts
             l == Len(parts)
  <2>1. l \in Nat /\ DOMAIN parts = 1 .. l
    BY RequestIs DEF IInv
  <2>2. Entered(l + 1) /\ (l + 1) - 1 = l
    BY <2>1 DEF Follows, Progress
  <2>3. DOMAIN params = { parts[i].name : i \in 1 .. l }
    BY <2>2 DEF Entered
  <2>4. \A i \in 1 .. l : (\A j \in 1 .. i - 1 : parts[j].name # parts[i].name) =>
          params[parts[i].name] = Taken(parts[i].value)
    BY <2>2 DEF Entered
  <2> HIDE DEF l, parts
  <2>5. ASSUME NEW n \in DOMAIN params PROVE params[n] = FirstOf(parts, n)
    <3> DEFINE T == { i \in 1 .. l : parts[i].name = n }
               Is(i) == parts[i].name = n /\ \A j \in 1 .. i - 1 : parts[j].name # n
               i0 == CHOOSE i \in DOMAIN parts : Is(i)
    <3>1. T # {} /\ T \in SUBSET Nat
      BY <2>1, <2>3
    <3>2. PICK x \in T : \A y \in T : x <= y
      <4> HIDE DEF T
      <4> QED BY <3>1, LeastElement
    <3>3. x \in DOMAIN parts /\ Is(x)
      <4>1. x \in 1 .. l /\ parts[x].name = n
        BY <3>2
      <4>2. ASSUME NEW j \in 1 .. x - 1, parts[j].name = n PROVE FALSE
        <5>1. j \in 1 .. l /\ ~(x <= j)
          BY <2>1, <4>1
        <5> QED BY <3>2, <4>2, <5>1
      <4> QED BY <2>1, <4>1, <4>2
    <3>4. i0 \in DOMAIN parts /\ Is(i0)
      <4> HIDE DEF Is
      <4> QED BY <3>3
    <3>5. FirstOf(parts, n) = Taken(parts[i0].value)
      BY DEF FirstOf, Taken
    <3> HIDE DEF i0
    <3> QED BY <2>1, <2>4, <3>4, <3>5
  <2> QED BY <2>1, <2>3, <2>5 DEF parts
<1> QED BY <1>1, ProgressIsMade, Invariance, PTL

-----------------------------------------------------------------------------
(* The end of the body.  Each step takes a byte from the stream to the     *)
(* buffer, takes one from the buffer, or gives up a partial match, which   *)
(* only a byte that was taken can begin again (fcgi_handler.cpp:309-365,   *)
(* 402-417); and there is never less than nothing to do.                   *)
WorkLeft ==
  (CASE pc = "start" -> 2 [] pc = "parsing" -> 1 [] OTHER -> 0)
    + 3 * Len(unread) + 2 * Len(input) + (IF pos = start THEN 0 ELSE 1)

GetsOn == [][WorkLeft' \in 0 .. WorkLeft - 1]_vars

(* What Consume takes is one symbol.                                       *)
LEMMA ConsumeTakes ==
  ASSUME IInv, input # <<>>, Consume
  PROVE  /\ Len(input') = Len(input) - 1 /\ Len(input) \in Nat \ {0}
         /\ unread' = unread /\ pc' = pc
<1>1. Len(Tail(input)) = Len(input) - 1 /\ Len(input) \in Nat \ {0}
  BY HeadTailProperties, LenProperties, EmptySeq DEF IInv, Lengths, Texts
<1> QED BY <1>1 DEF Consume, readVars

(* Reading goes on with at least one symbol at a time.                     *)
Asks == pc = "parsing" => chunk # 0

LEMMA AsksStays == IInv /\ Asks /\ [Next]_vars => Asks'
<1> SUFFICES ASSUME IInv, Asks, [Next]_vars PROVE Asks'
  OBVIOUS
<1>1. CASE Start \/ StartWithout
  <2>1. request.length \in Nat /\ request.length > 0 /\ StdinMax \in Nat \ {0}
    BY <1>1, FormDataAssumption DEF IInv, Start, StartWithout
  <2>2. chunk' = Least(request.length, StdinMax)
    BY <1>1 DEF Start, StartWithout, Begin
  <2> QED BY <2>1, <2>2 DEF Least, Asks
<1>2. CASE Read
  <2>1. Len(unread) \in Nat \ {0} /\ chunk \in Nat \ {0}
    BY <1>2, LenProperties, EmptySeq, FormDataAssumption DEF IInv, Lengths, Texts, Asks, Read
  <2> QED BY <1>2, <2>1 DEF Read, Least, Asks
<1>3. CASE Refuse \/ Return
  BY <1>3 DEF Refuse, Return, Asks
<1>4. CASE ParseStep
  BY <1>4 DEF ParseStep, Seek, AfterBoundary, HeaderSymbol, HeaderTooLong, HeaderReturn,
     HeaderLine, HeaderBad, HeadersEnd, DataMatch, DataEnd, DataSymbol, DataLineFeed,
     DataMismatch, Skip, Consume, Throw, readVars, Asks
<1>5. CASE UNCHANGED vars
  BY <1>5 DEF vars, readVars, Asks
<1> QED BY <1>1, <1>2, <1>3, <1>4, <1>5 DEF Next, Finished

LEMMA ParseGetsOn == ASSUME IInv, ParseStep PROVE WorkLeft' \in 0 .. WorkLeft - 1
<1>1. /\ pc = "parsing" /\ input # <<>> /\ Len(unread) \in Nat /\ Len(input) \in Nat \ {0}
  BY LenProperties, EmptySeq
     DEF IInv, Lengths, Texts, In, ParseStep, Seek, AfterBoundary, HeaderSymbol, HeaderTooLong,
     HeaderReturn, HeaderLine, HeaderBad, HeadersEnd, DataMatch, DataEnd, DataSymbol,
     DataLineFeed, DataMismatch, Skip
<1>2. CASE DataMismatch
  <2>1. pos # start /\ pos' = start' /\ UNCHANGED <<pc, unread, input>>
    BY <1>2 DEF DataMismatch, readVars
  <2> QED BY <1>1, <2>1 DEF WorkLeft
<1>3. CASE Throw
  <2>1. UNCHANGED <<pc, unread, pos, start>> /\ Len(input') = 0
    BY <1>3 DEF Throw, readVars, matchVars
  <2> QED BY <1>1, <2>1 DEF WorkLeft
<1>4. CASE Consume
  <2>1. Len(input') = Len(input) - 1 /\ unread' = unread /\ pc' = pc
    BY <1>1, <1>4, ConsumeTakes
  <2> QED BY <1>1, <2>1 DEF WorkLeft
<1>5. DataMismatch \/ Throw \/ Consume
  BY DEF ParseStep, Seek, AfterBoundary, HeaderSymbol, HeaderTooLong, HeaderReturn, HeaderLine,
     HeaderBad, HeadersEnd, DataMatch, DataEnd, DataSymbol, DataLineFeed, Skip
<1> QED BY <1>2, <1>3, <1>4, <1>5

LEMMA ReadGetsOn == ASSUME IInv, Asks, Read PROVE WorkLeft' \in 0 .. WorkLeft - 1
<1>1. Len(unread) \in Nat \ {0} /\ chunk \in Nat \ {0}
  BY LenProperties, EmptySeq, FormDataAssumption DEF IInv, Lengths, Texts, Asks, Read
<1>2. PICK k \in Nat : k = chunk'
  BY <1>1 DEF Read, Least
<1>3. k \in 1 .. Len(unread)
  BY <1>1, <1>2 DEF Read, Least
<1>4. Len(SubSeq(unread, 1, k)) = k /\ Len(SubSeq(unread, k + 1, Len(unread))) = Len(unread) - k
  <2>1. \A i \in 1 .. Len(unread) : unread[i] \in Symbols
    BY ElementOfSeq DEF IInv, Lengths, Texts
  <2> QED BY <1>1, <1>3, <2>1, SubSeqProperties
<1>5. /\ Len(input) = 0 /\ Len(input') = k /\ Len(unread') = Len(unread) - k
      /\ pc = "parsing" /\ UNCHANGED <<pc, start, pos>>
  BY <1>2, <1>4 DEF Read, matchVars
<1> QED BY <1>1, <1>3, <1>5 DEF WorkLeft

(* The parser comes to the end of any body: each step leaves less to do,   *)
(* of what is never less than nothing.  That the next read asks for a byte *)
(* at least, because the one before got one, is part of it                 *)
(* (fcgi_handler.cpp:309-365, 402-417).                                    *)
THEOREM AlwaysGetsOn == Spec => GetsOn
<1>1. Init => Asks
  BY DEF Init, Asks
<1>2. ASSUME IInv, Asks, [Next]_vars PROVE [WorkLeft' \in 0 .. WorkLeft - 1]_vars
  <2>1. Len(unread) \in Nat /\ Len(input) \in Nat
    BY <1>2, LenProperties DEF IInv, Lengths, Texts
  <2>2. CASE Start \/ StartWithout
    <3>1. pc = "start" /\ pc' = "parsing" /\ UNCHANGED <<unread, input>> /\ start' = pos'
      BY <2>2 DEF Start, StartWithout, Begin
    <3> QED BY <2>1, <3>1 DEF WorkLeft
  <2>3. CASE Refuse \/ Return
    <3>1. /\ \/ pc = "start" /\ pc' = "refused"
             \/ pc = "parsing" /\ pc' = "returned"
          /\ UNCHANGED <<unread, input, start, pos>>
      BY <1>2, <2>3 DEF Refuse, Return, readVars, matchVars, IInv
    <3> QED BY <2>1, <3>1 DEF WorkLeft
  <2> QED BY <1>2, <2>2, <2>3, ParseGetsOn, ReadGetsOn DEF Next, Finished
<1>3. Spec => []Asks
  BY <1>1, AsksStays, Invariance, PTL DEF Spec
<1> QED BY <1>2, <1>3, Invariance, PTL DEF Spec, GetsOn

=============================================================================
