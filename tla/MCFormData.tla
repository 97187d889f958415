----------------------------- MODULE MCFormData -----------------------------
(* Instances of FormData for TLC: the bodies that are parsed.               *)
EXTENDS FormData

CONSTANTS LongValue, ShortValue, AnyLength, Length

Letters == {"cr", "lf", "-", "b", "x"}
AllSymbols == Letters \cup Names \cup {BadHeader}

ParameterB  == <<"b">>
ParameterDB == <<"-", "b">>
TextOfType  == <<"x", "b">>

Texts(n) == BoundedSeq(Letters, n)

(* A form is a line end, one long value and, in a second part, a short one, *)
(* under the same name or another.                                          *)
Second == {<<>>} \cup { <<[name |-> m, value |-> w]>> : m \in Names, w \in Texts(ShortValue) }

Forms ==
  { f \in Eols \X Texts(LongValue) \X Second :
      /\ Carries(f[2], ParameterDB, f[1])
      /\ \A i \in DOMAIN f[3] : Carries(f[3][i].value, ParameterDB, f[1]) }

Request(eol, parts) ==
  LET r == [ctype |-> "boundary", boundary |-> ParameterDB, length |-> Length,
            body |-> <<>>, parts |-> parts]
  IN  [r EXCEPT !.body = Body(r, eol)]

Regular == { Request(f[1], <<[name |-> "n1", value |-> f[2]]>> \o f[3]) : f \in Forms }

(* A first part and after it anything at all; and what is refused.          *)
Other(types, lengths, bodies) ==
  [ctype : types, boundary : {ParameterB}, length : lengths, body : bodies, parts : {<<>>}]

Anything ==
  Other({"boundary", "no boundary"}, {Length},
        { <<"-", "-", "b", "lf">> \o text :
            text \in BoundedSeq(Letters \cup {"n1", BadHeader}, AnyLength) })

Refused == Other({"boundary", "other"}, {0, Length}, {<<>>})

AllRequests == Regular \cup Anything \cup Refused

=============================================================================
