----------------------------- MODULE JsonReader -----------------------------
(***************************************************************************)
(* A reader of JSON for what JsonTree writes.  It takes one character at a *)
(* time, and what it is in the middle of is what it has read of the value  *)
(* it is in and, outside of that, what that value is in the middle of.     *)
(***************************************************************************)
EXTENDS JsonTree

Reader(in, read, outer) == [in |-> in, read |-> read, outer |-> outer]

Start   == Reader("document", <<>>, <<>>)
NotJson == Reader("not", <<>>, <<>>)

(* A value has been read.                                                  *)
Took(r, v) ==
  CASE r.in = "document" -> Reader("over", v, <<>>)
    [] r.in \in {"first item", "item"} -> Reader("after item", Append(r.read, v), r.outer)
    [] r.in \in {"first key", "key"} -> Reader("after key", v[2], r)
    [] r.in = "member" ->
         Reader("after member", r.outer.read \cup {<<r.read, v>>}, r.outer.outer)
    [] OTHER -> NotJson

Unescaped(e) == IF e = "n" THEN "newline" ELSE e

InText(r, e) ==
  CASE e = "quote"                  -> Took(r.outer, <<"text", r.read>>)
    [] e = "backslash"              -> Reader("escape", r.read, r.outer)
    [] e \in {"control", "newline"} -> NotJson
    [] OTHER                        -> Reader("text", Append(r.read, e), r.outer)

InEscape(r, e) ==
  IF e \in {"quote", "backslash", "slash", "n"}
  THEN Reader("text", Append(r.read, Unescaped(e)), r.outer) ELSE NotJson

Outside(r, e) ==
  LET value == r.in \in {"document", "first item", "item", "member"}
  IN  CASE e = "quote" /\ (value \/ r.in \in {"first key", "key"}) -> Reader("text", <<>>, r)
        [] e = "[" /\ value -> Reader("first item", <<>>, r)
        [] e = "{" /\ value -> Reader("first key", {}, r)
        [] e = "]" /\ r.in \in {"first item", "after item"} -> Took(r.outer, <<"array", r.read>>)
        [] e = "}" /\ r.in \in {"first key", "after member"} -> Took(r.outer, <<"object", r.read>>)
        [] e = ":" /\ r.in = "after key" -> Reader("member", r.read, r.outer)
        [] e = "," /\ r.in = "after item" -> Reader("item", r.read, r.outer)
        [] e = "," /\ r.in = "after member" -> Reader("key", r.read, r.outer)
        [] OTHER -> NotJson

Reads(r, e) ==
  CASE r.in = "text"   -> InText(r, e)
    [] r.in = "escape" -> InEscape(r, e)
    [] OTHER           -> Outside(r, e)

(* Where a reader is that was at r and has read the text.                  *)
ReadFrom(r, text) ==
  LET after[i \in 0 .. Len(text)] == IF i = 0 THEN r ELSE Reads(after[i - 1], text[i])
  IN  after[Len(text)]

-----------------------------------------------------------------------------
Meaning(c) ==
  LET of[v \in Containers \cup Strings] ==
        CASE v \in Strings       -> <<"text", TextOf[v]>>
          [] v \in Containers /\ kind[v] = "array" ->
               <<"array", [i \in DOMAIN items[v] |-> of[items[v][i]]]>>
          [] OTHER               -> <<"object", { <<k, of[items[v][k]]>> : k \in DOMAIN items[v] }>>
  IN  of[c]

(* The texts in c: its strings, and the keys of its objects.               *)
TextsIn(c) ==
  { TextOf[s] : s \in Inside(c) \cap Strings }
    \cup UNION { DOMAIN items[d] : d \in { e \in Inside(c) \cap Containers : kind[e] = "object" } }

Plain(c) == \A text \in TextsIn(c) : "control" \notin ToSet(text)

(* What operator<< writes of a container (json.cpp:84-111, 142-205) a      *)
(* reader of JSON reads back as the same names and values in the same      *)
(* nesting, whatever is in its strings and keys but a control character    *)
(* that has no escape of its own: that one is written as it is, which is   *)
(* not JSON.                                                               *)
JsonRead ==
  \A c \in jsonLive \cap Containers :
    ReadFrom(Start, Written(c)) = IF Plain(c) THEN Took(Start, Meaning(c)) ELSE NotJson

=============================================================================
