------------------------------ MODULE FormData ------------------------------
(***************************************************************************)
(* fcgi_request::parse_form_data and the class formdata_parser of          *)
(* src/src/server/fcgi_handler.cpp: a multipart/form-data body is read in  *)
(* buffers and each byte is taken through a machine of five states, which  *)
(* collects a value while it looks for the boundary that ends it.          *)
(*                                                                         *)
(* A byte is a symbol: "cr", "lf", "-", "b" (the boundary parameter is     *)
(* made of the last two), "x" for any other; and a part's header line      *)
(* Content-Disposition: form-data; name="n" is the one symbol n.           *)
(***************************************************************************)
EXTENDS Naturals, Sequences, SequencesExt

CONSTANTS
  Symbols,     \* what a body is made of
  Names,       \* field names
  NoName,      \* the empty field name
  BadHeader,   \* a header line upload_parse_part_header throws on
  Garbage,     \* what is taken for the boundary when the Content-Type has none
  Requests,    \* the requests: [ctype, boundary, length, body, parts]
  MaxHeader,   \* max_header_len (512)
  BufferSize,  \* buffer_size (128k)
  StdinMax     \* STDIN_MAX

ASSUME FormDataAssumption ==
  /\ {"cr", "lf", "-"} \cup Names \subseteq Symbols
  /\ Names \cap {"cr", "lf", NoName, BadHeader} = {}
  /\ Garbage \in Seq(Symbols) \ {<<>>}
  /\ \A r \in Requests :
       /\ r.boundary \in Seq(Symbols) \ {<<>>}
       /\ r.body \in Seq(Symbols)
       /\ r.length \in Nat
       /\ r.parts \in Seq([name : Names, value : Seq(Symbols)])
  /\ MaxHeader \in Nat \ {0, 1}
  /\ BufferSize \in Nat \ {0}
  /\ StdinMax \in Nat \ {0}

VARIABLES
  pc,       \* where parse_form_data is
  request,  \* the request it reads
  unread,   \* what fcgi_in still has
  chunk,    \* clen: how much the next read asks for
  input,    \* what of the buffer upload_process_buf has not looked at
  pattern,  \* the string boundary
  state,    \* the parser's state
  start,    \* boundary_start - boundary.begin()
  pos,      \* boundary_pos - boundary.begin()
  header,   \* the header accumulator
  out,      \* the output buffer
  field,    \* field_name
  value,    \* field_value
  params    \* formdata_params

readVars  == <<request, unread, chunk>>
matchVars == <<pattern, start, pos>>
partVars  == <<out, field, value, params>>
vars == <<pc, readVars, input, matchVars, state, header, partVars>>

Least(m, n) == IF m < n THEN m ELSE n

Init ==
  /\ pc = "start"
  /\ request \in Requests
  /\ unread = request.body
  /\ chunk = 0
  /\ input = <<>>
  /\ pattern = <<>> /\ start = 0 /\ pos = 0
  /\ state = "seek"
  /\ header = <<>> /\ out = <<>>
  /\ field = NoName /\ value = <<>>
  /\ params = <<>>

-----------------------------------------------------------------------------
(* parse_form_data and upload_parse_content_type.                          *)

(* Two CR LF -- before the boundary; the first boundary of the body has no *)
(* line end before it, so the search starts two symbols into the pattern.  *)
Begin(b) ==
  /\ pattern' = <<"cr", "lf", "-", "-">> \o b
  /\ start' = 2 /\ pos' = 2
  /\ chunk' = Least(request.length, StdinMax)
  /\ pc' = "parsing"
  /\ UNCHANGED <<request, unread, input, state, header, partVars>>

Start ==
  /\ pc = "start"
  /\ request.ctype = "boundary" /\ request.length > 0
  /\ Begin(request.boundary)

(* find() returns npos, and c_str() + npos is not NULL: nine symbols on,   *)
(* whatever is there is taken for the boundary.                            *)
StartWithout ==
  /\ pc = "start"
  /\ request.ctype = "no boundary" /\ request.length > 0
  /\ Begin(Garbage)

(* Content-Type or Content-Length missing, zero, not multipart/form-data,  *)
(* without a semicolon, or the boundary empty.                             *)
Refuse ==
  /\ pc = "start"
  /\ request.ctype = "other" \/ request.length = 0
  /\ pc' = "refused"
  /\ UNCHANGED <<readVars, input, matchVars, state, header, partVars>>

(* fcgi_in.read(buf, clen); clen = fcgi_in.gcount().                       *)
Read ==
  /\ pc = "parsing"
  /\ input = <<>> /\ unread # <<>>
  /\ chunk' = Least(chunk, Len(unread))
  /\ input' = SubSeq(unread, 1, chunk')
  /\ unread' = SubSeq(unread, chunk' + 1, Len(unread))
  /\ UNCHANGED <<pc, request, matchVars, state, header, partVars>>

(* The end of the body: the parser goes out of scope as it is.             *)
Return ==
  /\ pc = "parsing"
  /\ input = <<>> /\ unread = <<>>
  /\ pc' = "returned"
  /\ UNCHANGED <<readVars, input, matchVars, state, header, partVars>>

-----------------------------------------------------------------------------
(* upload_process_buf, one symbol at a time.                               *)

In(s) == pc = "parsing" /\ state = s /\ input # <<>>
c == Head(input)
Consume == input' = Tail(input) /\ UNCHANGED <<pc, readVars>>

(* An exception: the parser is left in its last state, the rest of the     *)
(* buffer is not looked at, and catch(...) in parse_form_data drops it.    *)
Throw ==
  /\ state' = "finish"
  /\ input' = <<>>
  /\ UNCHANGED <<pc, readVars, matchVars, header, partVars>>

Matches == c = pattern[pos + 1]
Complete == pos + 1 = Len(pattern)

Seek ==
  /\ In("seek")
  /\ Consume
  /\ IF Matches /\ Complete
     THEN state' = "after" /\ start' = 0 /\ pos' = 0
     ELSE pos' = (IF Matches THEN pos + 1 ELSE start) /\ UNCHANGED <<start, state>>
  /\ UNCHANGED <<pattern, header, partVars>>

AfterBoundary ==
  /\ In("after")
  /\ Consume
  /\ CASE c = "lf" -> state' = "headers" /\ header' = <<>>
       [] c = "-"  -> state' = "finish" /\ UNCHANGED header
       [] OTHER    -> UNCHANGED <<state, header>>
  /\ UNCHANGED <<matchVars, partVars>>

HeaderSymbol ==
  /\ In("headers") /\ c \notin {"cr", "lf"}
  /\ Len(header) < MaxHeader - 1
  /\ Consume
  /\ header' = Append(header, c)
  /\ UNCHANGED <<matchVars, state, partVars>>

HeaderTooLong ==
  /\ In("headers") /\ c \notin {"cr", "lf"}
  /\ Len(header) >= MaxHeader - 1
  /\ Throw

HeaderReturn ==
  /\ In("headers") /\ c = "cr"
  /\ Consume
  /\ UNCHANGED <<matchVars, state, header, partVars>>

(* upload_parse_part_header: only the field name is ever used.             *)
HeaderLine ==
  /\ In("headers") /\ c = "lf" /\ header # <<>>
  /\ Head(header) # BadHeader
  /\ Consume
  /\ field' = IF Head(header) \in Names THEN Head(header) ELSE field
  /\ header' = <<>>
  /\ UNCHANGED <<matchVars, state, out, value, params>>

HeaderBad ==
  /\ In("headers") /\ c = "lf" /\ header # <<>>
  /\ Head(header) = BadHeader
  /\ Throw

HeadersEnd ==
  /\ In("headers") /\ c = "lf" /\ header = <<>>
  /\ Consume
  /\ state' = "data"
  /\ out' = <<>>
  /\ UNCHANGED <<matchVars, header, field, value, params>>

-----------------------------------------------------------------------------
(* The data of a part.  buf is [out, value].                               *)

(* upload_flush_output_buffer: only the first buffer becomes the value.    *)
Flush(buf) ==
  [out |-> <<>>, value |-> IF buf.value = <<>> THEN buf.out ELSE buf.value]

(* Mutant: the buffer is flushed when it is about to overflow.             *)
PutCharLate(buf, s) ==
  LET full == [buf EXCEPT !.out = Append(@, s)]
  IN  IF Len(full.out) > BufferSize THEN Flush(full) ELSE full

(* upload_putc.                                                            *)
PutChar(buf, s) ==
  LET full == [buf EXCEPT !.out = Append(@, s)]
  IN  IF Len(full.out) = BufferSize THEN Flush(full) ELSE full

Output(symbols) ==
  LET buf[i \in 0 .. Len(symbols)] ==
        IF i = 0 THEN [out |-> out, value |-> value] ELSE PutChar(buf[i - 1], symbols[i])
  IN  out' = buf[Len(symbols)].out /\ value' = buf[Len(symbols)].value

DataMatch ==
  /\ In("data") /\ Matches /\ ~Complete
  /\ Consume
  /\ pos' = pos + 1
  /\ UNCHANGED <<pattern, start, state, header, partVars>>

(* The boundary is complete: the part is finished, and entered under its   *)
(* name unless there is one of that name.                                  *)
DataEnd ==
  /\ In("data") /\ Matches /\ Complete
  /\ Consume
  /\ state' = "after"
  /\ pos' = start
  /\ LET last == Flush([out |-> out, value |-> value]).value
     IN  params' = IF field \in DOMAIN params THEN params
                   ELSE [n \in DOMAIN params \cup {field} |->
                           IF n = field THEN last ELSE params[n]]
  /\ out' = <<>> /\ field' = NoName /\ value' = <<>>
  /\ UNCHANGED <<pattern, start, header>>

DataSymbol ==
  /\ In("data") /\ ~Matches /\ pos = start /\ c # "lf"
  /\ Consume
  /\ Output(<<c>>)
  /\ UNCHANGED <<matchVars, state, header, field, params>>

(* A line that ends in LF alone (the IE 5.0 workaround).                   *)
DataLineFeed ==
  /\ In("data") /\ ~Matches /\ pos = start /\ c = "lf"
  /\ Consume
  /\ start' = 1 /\ pos' = 2
  /\ UNCHANGED <<pattern, state, header, partVars>>

(* Mutant: the last symbol is not looked at again.                         *)
DataMismatchConsumes ==
  /\ In("data") /\ ~Matches /\ pos # start
  /\ Consume
  /\ Output(Append(SubSeq(pattern, start + 1, pos), c))
  /\ start' = 0 /\ pos' = 0
  /\ UNCHANGED <<pattern, state, header, field, params>>

(* Mutant: after a match that fails the search is taken up where it was.   *)
DataMismatchKeepsStart ==
  /\ In("data") /\ ~Matches /\ pos # start
  /\ UNCHANGED <<pc, readVars, input>>
  /\ Output(SubSeq(pattern, start + 1, pos))
  /\ UNCHANGED <<start, pos>>
  /\ UNCHANGED <<pattern, state, header, field, params>>

(* What looked like the boundary was data; the symbol is looked at again.  *)
DataMismatch ==
  /\ In("data") /\ ~Matches /\ pos # start
  /\ UNCHANGED <<pc, readVars, input>>
  /\ Output(SubSeq(pattern, start + 1, pos))
  /\ start' = 0 /\ pos' = 0
  /\ UNCHANGED <<pattern, state, header, field, params>>

Skip ==
  /\ In("finish")
  /\ Consume
  /\ UNCHANGED <<matchVars, state, header, partVars>>

-----------------------------------------------------------------------------
ParseStep ==
  \/ Seek \/ AfterBoundary
  \/ HeaderSymbol \/ HeaderTooLong \/ HeaderReturn \/ HeaderLine \/ HeaderBad \/ HeadersEnd
  \/ DataMatch \/ DataEnd \/ DataSymbol \/ DataLineFeed \/ DataMismatch
  \/ Skip

Finished == pc \in {"refused", "returned"} /\ UNCHANGED vars

Next == Start \/ StartWithout \/ Refuse \/ Read \/ Return \/ ParseStep \/ Finished

Spec == Init /\ [][Next]_vars

FairSpec == Spec /\ WF_vars(Next)

-----------------------------------------------------------------------------
(* The two buffers the parser allocates are never written past their end,  *)
(* and the position in the boundary is never past the last byte it may     *)
(* compare: each of the three is tested only after, or before, a write;    *)
(* and what the first read asks for is capped by STDIN_MAX.                *)
WithinBuffers ==
  /\ pc \in {"start", "parsing", "returned", "refused"}
  /\ state \in {"seek", "after", "headers", "data", "finish"}
  /\ chunk \in 0 .. StdinMax
  /\ Len(header) < MaxHeader
  /\ Len(out) < BufferSize
  /\ Len(value) <= BufferSize
  /\ start \in 0 .. 2 /\ pos \in Nat
  /\ pc = "parsing" => start <= pos /\ pos < Len(pattern)
  /\ DOMAIN params \subseteq Names \cup {NoName}

(* What a body says: after each delimiter come a header, an empty line and *)
(* a value up to the next one, after the last two dashes; each line ends as*)
(* the others do.                                                          *)
Eols   == {<<"cr", "lf">>, <<"lf">>}
Dashes == <<"-", "-">>

Heading(part, eol) == eol \o <<part.name>> \o eol \o eol
Delimiter(b, eol)  == eol \o Dashes \o b

Following(r, eol) ==
  LET text[k \in 1 .. Len(r.parts) + 1] ==
        IF k = Len(r.parts) + 1 THEN Dashes \o eol
        ELSE Heading(r.parts[k], eol)
               \o ((r.parts[k].value \o Delimiter(r.boundary, eol)) \o text[k + 1])
  IN  text

Body(r, eol) == Dashes \o r.boundary \o Following(r, eol)[1]

(* The value is not cut short by what is, or looks to this parser like, a  *)
(* delimiter: LF -- boundary; and before a lone LF it does not end in CR,  *)
(* which would make the line end CR LF.                                    *)
Carries(v, b, eol) ==
  /\ LET text  == v \o Delimiter(b, eol)
         early == Delimiter(b, <<"lf">>)
     IN  \A i \in 1 .. Len(text) - Len(early) : SubSeq(text, i, i + Len(early) - 1) # early
  /\ eol = <<"lf">> => (v = <<>> \/ v[Len(v)] # "cr")

WellFormed(r, eol) ==
  /\ r.ctype = "boundary"
  /\ \A i \in DOMAIN r.boundary : r.boundary[i] \notin {"cr", "lf"}
  /\ r.body = Body(r, eol)
  /\ \A k \in DOMAIN r.parts : Carries(r.parts[k].value, r.boundary, eol)

(* The value of a name is that of the first part of that name, as long as  *)
(* it fits the buffer, and as much of it as fits if not.                   *)
FirstOf(parts, n) ==
  LET i == CHOOSE i \in DOMAIN parts :
             /\ parts[i].name = n
             /\ \A j \in 1 .. i - 1 : parts[j].name # n
  IN  SubSeq(parts[i].value, 1, Least(BufferSize, Len(parts[i].value)))

(* However a well-formed body is cut into buffers, what its parts say is   *)
(* what get_formdata_param will find.                                      *)
DeliversParts ==
  (pc = "returned" /\ \E eol \in Eols : WellFormed(request, eol)) =>
     /\ DOMAIN params = { request.parts[i].name : i \in DOMAIN request.parts }
     /\ \A n \in DOMAIN params : params[n] = FirstOf(request.parts, n)

(* The parser comes to the end of every body, whatever is in it: a match   *)
(* that fails looks at the same byte again, and does not do so for ever.   *)
Terminates == pc = "start" ~> pc \in {"returned", "refused"}

(* What the source says.                                                   *)

(* fcgi_handler.cpp:212-214 refuses a Content-Type in which no boundary is *)
(* found.                                                                  *)
MissingBoundaryRefused == request.ctype = "no boundary" => pc \in {"start", "refused"}

=============================================================================
