------------------------------ MODULE JsonTree ------------------------------
(***************************************************************************)
(* JSON documents: JSONValue, JSONObject and JSONArray of                  *)
(* src/src/server/json.h and json.cpp, who owns what they are made of and  *)
(* what operator<< writes.  A string is an allocation of its own, made     *)
(* before it is inserted; a container is made by add_object or add_array,  *)
(* or by the caller, and is deleted by the one it is in.                   *)
(*                                                                         *)
(* Text is a sequence of characters.                                       *)
(***************************************************************************)
EXTENDS Naturals, Sequences, FiniteSets, SequencesExt

CONSTANTS
  Containers,  \* the containers that may be made
  Top,         \* the one the caller starts with
  Strings,     \* the strings that may be allocated
  TextOf,      \* what each says
  Keys,        \* the keys, each a text
  MaxItems     \* bound: elements of an array

(* "newline" is any of the five with an escape of their own, "control" any *)
(* other below a space, and "x" any that means nothing here.               *)
Characters ==
  {"quote", "backslash", "slash", "newline", "control", "n", "x", "[", "]", "{", "}", ",", ":"}

ASSUME JsonAssumption ==
  /\ Top \in Containers /\ Containers \cap Strings = {}
  /\ TextOf \in [Strings -> Seq(Characters)] /\ Keys \subseteq Seq(Characters)
  /\ MaxItems \in Nat

VARIABLES
  jsonLive,   \* allocated and not deleted
  kind,       \* of each container: "object" or "array"
  items,      \* m_items: of an object by key, of an array in order
  refused,    \* handed to insert() under a key that was there
  deletedTwice

jsonVars == <<jsonLive, kind, items, refused, deletedTwice>>

JsonInit ==
  /\ jsonLive = {Top}
  /\ kind \in { [c \in Containers |-> k] : k \in {"object", "array"} }
  /\ items = [c \in Containers |-> <<>>]
  /\ refused = {} /\ deletedTwice = FALSE

In(c) == { items[c][i] : i \in DOMAIN items[c] }
Owned(v) == \E c \in jsonLive \cap Containers : v \in In(c)

(* m_items.insert and m_items.push_back.                                   *)
Put(c, k, v) ==
  IF kind[c] = "array" THEN Append(items[c], v)
  ELSE [j \in DOMAIN items[c] \cup {k} |-> IF j \in DOMAIN items[c] THEN items[c][j] ELSE v]

Room(c, k) == IF kind[c] = "array" THEN Len(items[c]) < MaxItems /\ k = <<>> ELSE k \in Keys

Refused(c, k) == kind[c] = "object" /\ k \in DOMAIN items[c]

Insert(c, k, v) ==
  /\ c \in jsonLive /\ Room(c, k)
  /\ refused' = IF Refused(c, k) THEN refused \cup {v} ELSE refused

(* add(key, string): JSONValue allocates, and has no destructor.           *)
AddString(c, k, s) ==
  /\ Insert(c, k, s)
  /\ s \notin jsonLive
  /\ jsonLive' = jsonLive \cup {s}
  /\ items' = [items EXCEPT ![c] = Put(c, k, s)]
  /\ UNCHANGED <<kind, deletedTwice>>

(* add_object and add_array.                                               *)
AddNew(c, k, child, what) ==
  /\ Insert(c, k, child)
  /\ child \notin jsonLive
  /\ jsonLive' = jsonLive \cup {child}
  /\ kind' = [kind EXCEPT ![child] = what]
  /\ items' = [items EXCEPT ![c] = Put(c, k, child), ![child] = <<>>]
  /\ UNCHANGED deletedTwice

(* The caller makes a container, and may add it to another later on, or    *)
(* delete it; which of the two insert() has left it to do, it is not told. *)
Make(child, what) ==
  /\ child \notin jsonLive
  /\ jsonLive' = jsonLive \cup {child}
  /\ kind' = [kind EXCEPT ![child] = what]
  /\ items' = [items EXCEPT ![child] = <<>>]
  /\ UNCHANGED <<refused, deletedTwice>>

(* c and all that is in it: the least set that has c and what the          *)
(* containers it has refer to.                                             *)
Inside(c) ==
  LET Closed(S) == c \in S /\ \A d \in S \cap Containers : In(d) \subseteq S
  IN  { v \in Containers \cup Strings :
          \A S \in SUBSET (Containers \cup Strings) : Closed(S) => v \in S }

AddMade(c, k, child) ==
  /\ child \in jsonLive \cap Containers /\ child \notin refused
  /\ child # Top /\ ~Owned(child) /\ c \notin Inside(child)
  /\ Insert(c, k, child)
  /\ items' = [items EXCEPT ![c] = Put(c, k, child)]
  /\ UNCHANGED <<jsonLive, kind, deletedTwice>>

(* Mutant: the elements of an array are left to themselves.                *)
DeleteKeepsElements(c) ==
  LET gone == {c} \cup UNION { Inside(d) : d \in { e \in In(c) \cap Containers : kind[c] = "object" } }
  IN  /\ c \in jsonLive /\ ~Owned(c) /\ c \notin refused
      /\ jsonLive' = jsonLive \ gone
      /\ deletedTwice' = (deletedTwice \/ ~(gone \subseteq jsonLive))
      /\ items' = [d \in Containers |-> IF d \in gone THEN <<>> ELSE items[d]]
      /\ UNCHANGED <<kind, refused>>

(* The destructors: what is in a container goes with it.                   *)
Delete(c) ==
  LET gone == Inside(c)
  IN  /\ c \in jsonLive /\ ~Owned(c) /\ c \notin refused
      /\ jsonLive' = jsonLive \ gone
      /\ deletedTwice' = (deletedTwice \/ ~(gone \subseteq jsonLive))
      /\ items' = [d \in Containers |-> IF d \in gone THEN <<>> ELSE items[d]]
      /\ UNCHANGED <<kind, refused>>

JsonNext ==
  \/ \E c \in Containers, k \in Keys \cup {<<>>}, s \in Strings : AddString(c, k, s)
  \/ \E c, d \in Containers, k \in Keys \cup {<<>>}, what \in {"object", "array"} : AddNew(c, k, d, what)
  \/ \E c \in Containers, what \in {"object", "array"} : Make(c, what)
  \/ \E c, d \in Containers, k \in Keys \cup {<<>>} : AddMade(c, k, d)
  \/ \E c \in Containers : Delete(c)

JsonSpec == JsonInit /\ [][JsonNext]_jsonVars

-----------------------------------------------------------------------------
(* operator<<.                                                             *)

(* Mutant: only quotes are escaped.                                        *)
serialize_character_quotes(e) == IF e = "quote" THEN <<"backslash", e>> ELSE <<e>>

serialize_character(e) ==
  CASE e \in {"quote", "backslash", "slash"} -> <<"backslash", e>>
    [] e = "newline"                         -> <<"backslash", "n">>
    [] OTHER                                 -> <<e>>

serialize_string(text) ==
  LET from[i \in 1 .. Len(text) + 1] ==
        IF i > Len(text) THEN <<"quote">> ELSE serialize_character(text[i]) \o from[i + 1]
  IN  <<"quote">> \o from[1]

Separated(texts) ==
  LET from[i \in 1 .. Len(texts) + 1] ==
        IF i > Len(texts) THEN <<>>
        ELSE (IF i = 1 THEN <<>> ELSE <<",">>) \o texts[i] \o from[i + 1]
  IN  from[1]

(* An order of the keys, like that of the map.                             *)
InOrder(obj) == SetToSeq(DOMAIN obj)

Written(c) ==
  LET text[v \in Containers \cup Strings] ==
        CASE v \in Strings -> serialize_string(TextOf[v])
          [] v \in Containers /\ kind[v] = "array" ->
               <<"[">> \o Separated([i \in DOMAIN items[v] |-> text[items[v][i]]]) \o <<"]">>
          [] OTHER ->
               LET keys == InOrder(items[v])
               IN  <<"{">> \o Separated([i \in DOMAIN keys |->
                      serialize_string(keys[i]) \o <<":">> \o text[items[v][keys[i]]]]) \o <<"}">>
  IN  text[c]

-----------------------------------------------------------------------------
(* Whatever is added where, and in whatever order containers are deleted,  *)
(* nothing is deleted twice or left behind: what a container refers to is  *)
(* there, belongs to it alone and to one place of it, and a string that is *)
(* in none is one that was added under a key that was taken: insert() did  *)
(* not take it and nobody has it any more.                                 *)
Places(v) ==
  UNION { { <<c, i>> : i \in { j \in DOMAIN items[c] : items[c][j] = v } } : c \in jsonLive \cap Containers }

JsonFreedOnce ==
  /\ ~deletedTwice
  /\ \A c \in jsonLive \cap Containers : In(c) \subseteq jsonLive
  /\ \A v \in jsonLive : Cardinality(Places(v)) <= 1
  /\ \A s \in jsonLive \cap Strings : Owned(s) \/ s \in refused

=============================================================================
