-------------------------- MODULE DocumentProofs ---------------------------
(***************************************************************************)
(* Proofs about XmlTree, JsonTree and JsonReader, for any number of nodes, *)
(* containers, strings and keys: that whatever handlers build, and however *)
(* they end, everything is freed and nothing twice; and that what is       *)
(* written of a JSON document is read back as what the document holds.     *)
(***************************************************************************)
EXTENDS XmlTree, JsonReader, SequenceTheorems, FiniteSetTheorems, Induction, TLAPS

-----------------------------------------------------------------------------
(* XML.  The invariant: a live node is held by a guard exactly if it has no*)
(* parent, every parent is there, and there are no cycles: a set of nodes  *)
(* that has all the parents of its members has none.                       *)

Guarded ==
  /\ guards \in Seq(Nodes \cup {NoNode})
  /\ \A i, j \in DOMAIN guards : guards[i] = guards[j] => i = j \/ guards[i] = NoNode

Tree ==
  /\ xmlLive \subseteq Nodes
  /\ parent \in [Nodes -> Nodes \cup {Doc, NoNode}]
  /\ \A n \in Nodes : parent[n] # NoNode => n \in xmlLive /\ parent[n] \in xmlLive \cup {Doc}

HeldOrChild ==
  /\ Held \subseteq xmlLive
  /\ \A n \in xmlLive : n \in Held <=> parent[n] = NoNode

Rooted == \A S \in SUBSET xmlLive : S # {} => \E n \in S : parent[n] \notin S

XmlInv ==
  /\ Guarded /\ Tree /\ HeldOrChild /\ Rooted
  /\ freedTwice = FALSE
  /\ building = "over" => xmlLive = {}

LEMMA XmlInitInv == XmlInit => XmlInv
<1> SUFFICES ASSUME XmlInit PROVE XmlInv
  OBVIOUS
<1>1. guards = <<>> /\ guards \in Seq(Nodes \cup {NoNode}) /\ DOMAIN guards = {} /\ Held = {}
  BY DEF XmlInit, Held, ToSet
<1> QED BY <1>1 DEF XmlInit, XmlInv, Guarded, Tree, HeldOrChild, Rooted

(* What happens to the guards.                                             *)
LEMMA GuardAdded ==
  ASSUME Guarded, NEW n \in Nodes, n \notin Held, guards' = Append(guards, n)
  PROVE  Guarded' /\ Held' = Held \cup {n}
<1>1. /\ guards' \in Seq(Nodes \cup {NoNode}) /\ Len(guards') = Len(guards) + 1
      /\ \A i \in 1 .. Len(guards) : guards'[i] = guards[i]
      /\ guards'[Len(guards) + 1] = n
  BY AppendProperties DEF Guarded
<1>2. /\ DOMAIN guards = 1 .. Len(guards) /\ DOMAIN guards' = 1 .. Len(guards) + 1
      /\ Len(guards) \in Nat
  BY <1>1, LenProperties DEF Guarded
<1>3. n # NoNode /\ \A i \in DOMAIN guards : guards[i] # n
  BY XmlAssumption DEF Held, ToSet
<1>4. \A i \in DOMAIN guards' : i \in DOMAIN guards \/ i = Len(guards) + 1
  BY <1>2
<1> QED BY <1>1, <1>2, <1>3, <1>4 DEF Guarded, Held, ToSet

LEMMA GuardReleases ==
  ASSUME Guarded, NEW i \in DOMAIN guards, guards[i] # NoNode,
         guards' = [guards EXCEPT ![i] = NoNode]
  PROVE  Guarded' /\ Held' = Held \ {guards[i]}
<1>1. guards' \in Seq(Nodes \cup {NoNode}) /\ DOMAIN guards' = DOMAIN guards
  BY ExceptSeq, LenProperties DEF Guarded
<1>2. \A j \in DOMAIN guards : guards'[j] = IF j = i THEN NoNode ELSE guards[j]
  BY DEF Guarded
<1> QED BY <1>1, <1>2 DEF Guarded, Held, ToSet

LEMMA GuardPopped ==
  ASSUME Guarded, guards # <<>>, guards' = Front(guards)
  PROVE  /\ Guarded' /\ Held' = Held \ {Last(guards)}
         /\ Last(guards) \in Nodes \cup {NoNode}
         /\ Last(guards) # NoNode => Last(guards) \in Held
<1> DEFINE n == Len(guards)
<1>1. n \in Nat /\ n > 0 /\ DOMAIN guards = 1 .. n /\ Last(guards) = guards[n]
      /\ \A i \in 1 .. n : guards[i] \in Nodes \cup {NoNode}
  BY LenProperties, EmptySeq, ElementOfSeq DEF Guarded, Last
<1>2. guards' = SubSeq(guards, 1, n - 1)
  BY DEF Front
<1>3. /\ guards' \in Seq(Nodes \cup {NoNode}) /\ Len(guards') = n - 1
      /\ \A i \in 1 .. n - 1 : guards'[i] = guards[i]
  <2> HIDE DEF n
  <2>1. n - 1 \in Int /\ \A i \in 1 .. n - 1 : guards[i] \in Nodes \cup {NoNode}
    BY <1>1
  <2> QED BY <1>1, <1>2, <2>1, SubSeqProperties
<1>4. DOMAIN guards' = 1 .. n - 1
  BY <1>3, LenProperties
<1> HIDE DEF n
<1>5. \A i \in 1 .. n : i \in 1 .. n - 1 \/ i = n
  BY <1>1
<1>6. n \in DOMAIN guards /\ n \notin 1 .. n - 1 /\ \A i \in 1 .. n - 1 : i \in DOMAIN guards
  BY <1>1
<1> QED BY <1>1, <1>3, <1>4, <1>5, <1>6 DEF Guarded, Held, ToSet

(* What hangs below a node or the document: it has the node, it has the    *)
(* children of what it has, and every set like that has all of it.         *)
Hanging(r, S) == r \in S /\ \A m \in Nodes : parent[m] \in S => m \in S

LEMMA BelowHangs ==
  ASSUME NEW r
  PROVE  Below(r) \subseteq Nodes \cup {r} /\ Hanging(r, Below(r))
<1>1. Below(r) = { m \in Nodes \cup {r} : \A S \in SUBSET (Nodes \cup {r}) : Hanging(r, S) => m \in S }
  BY DEF Below, Hanging
<1>2. r \in Below(r)
  BY <1>1 DEF Hanging
<1>3. ASSUME NEW m \in Nodes, parent[m] \in Below(r) PROVE m \in Below(r)
  BY <1>1, <1>3 DEF Hanging
<1> QED BY <1>1, <1>2, <1>3 DEF Hanging

LEMMA BelowLeast ==
  ASSUME NEW r, NEW S \in SUBSET (Nodes \cup {r}), Hanging(r, S)
  PROVE  Below(r) \subseteq S
BY DEF Below, Hanging

(* A guard or the document that ends takes what is below it and nothing    *)
(* that another guard has.                                                 *)
LEMMA FreeKeeps ==
  ASSUME Tree, HeldOrChild, Rooted, freedTwice = FALSE,
         NEW r \in Held \cup {Doc},
         Free(Below(r) \ {Doc}), Held' = Held \ {r}
  PROVE  (Tree /\ HeldOrChild /\ Rooted /\ freedTwice = FALSE)'
<1> DEFINE gone == Below(r) \ {Doc}
<1>1. /\ Doc \notin Nodes /\ NoNode \notin Nodes /\ NoNode # Doc
      /\ xmlLive \subseteq Nodes /\ Held \subseteq xmlLive
  BY XmlAssumption DEF Tree, HeldOrChild
<1>2. Hanging(r, Below(r)) /\ Below(r) \subseteq Nodes \cup {r}
  BY BelowHangs
<1>3. gone \subseteq xmlLive
  <2>1. Hanging(r, xmlLive \cup {r})
    BY <1>1 DEF Hanging, Tree
  <2>2. xmlLive \cup {r} \in SUBSET (Nodes \cup {r})
    BY <1>1
  <2>3. Below(r) \subseteq xmlLive \cup {r}
    BY <2>1, <2>2, BelowLeast
  <2> QED BY <1>1, <2>3
<1>4. ASSUME NEW h \in Held, h # r PROVE h \notin gone
  <2> DEFINE S == (Nodes \cup {r}) \ {h}
  <2>1. parent[h] = NoNode
    BY <1>1 DEF HeldOrChild
  <2>2. Hanging(r, S)
    BY <1>1, <1>4, <2>1 DEF Hanging
  <2>3. S \in SUBSET (Nodes \cup {r})
    OBVIOUS
  <2> HIDE DEF S
  <2>4. Below(r) \subseteq S
    BY <2>2, <2>3, BelowLeast
  <2> QED BY <2>4 DEF S
<1>5. \A m \in Nodes : parent[m] \in gone => m \in gone
  BY <1>1, <1>2 DEF Hanging
<1>6. r \in gone \/ r = Doc
  BY <1>2 DEF Hanging
<1>7. /\ xmlLive' = xmlLive \ gone
      /\ parent' = [n \in Nodes |-> IF n \in gone THEN NoNode ELSE parent[n]]
      /\ freedTwice' = FALSE
  BY <1>3 DEF Free
<1> HIDE DEF gone
<1>8. \A n \in xmlLive' : parent'[n] = parent[n]
  BY <1>1, <1>7
<1>9. Tree'
  BY <1>1, <1>5, <1>7 DEF Tree
<1>10. HeldOrChild'
  <2>1. Held' \subseteq xmlLive'
    BY <1>1, <1>4, <1>7
  <2>2. ASSUME NEW n \in xmlLive' PROVE n \in Held' <=> parent'[n] = NoNode
    BY <1>1, <1>6, <1>7, <1>8 DEF HeldOrChild
  <2> QED BY <2>1, <2>2 DEF HeldOrChild
<1>11. Rooted'
  BY <1>7, <1>8 DEF Rooted
<1> QED BY <1>7, <1>9, <1>10, <1>11

(* One lemma for each of the actions.                                      *)
LEMMA MakeNodeInv == ASSUME XmlInv, NEW n \in Fresh, MakeNode(n) PROVE XmlInv'
<1>1. /\ n \in Nodes /\ n \notin xmlLive /\ n \notin Held /\ NoNode \notin Nodes
      /\ parent[n] = NoNode
  BY XmlAssumption DEF XmlInv, HeldOrChild, Tree, Fresh
<1>2. Guarded' /\ Held' = Held \cup {n}
  BY <1>1, GuardAdded DEF XmlInv, MakeNode
<1>3. /\ xmlLive' = xmlLive \cup {n} /\ parent' = parent
      /\ building' = "document" /\ freedTwice' = FALSE
  BY <1>1 DEF MakeNode, XmlInv, Tree
<1>4. Tree' /\ HeldOrChild'
  BY <1>1, <1>2, <1>3 DEF XmlInv, Tree, HeldOrChild
<1>5. ASSUME NEW S \in SUBSET xmlLive', S # {} PROVE \E m \in S : parent'[m] \notin S
  <2>1. CASE n \in S
    BY <1>1, <1>3, <2>1 DEF XmlInv, Tree
  <2>2. CASE n \notin S
    BY <1>3, <1>5, <2>2 DEF XmlInv, Rooted
  <2> QED BY <2>1, <2>2
<1> QED BY <1>2, <1>3, <1>4, <1>5 DEF XmlInv, Rooted

LEMMA AddNodeInv ==
  ASSUME XmlInv, NEW i \in DOMAIN guards, NEW p \in Nodes \cup {Doc}, AddNode(i, p)
  PROVE  XmlInv'
<1> DEFINE c == guards[i]
<1>1. Guarded' /\ Held' = Held \ {c}
  BY GuardReleases DEF XmlInv, AddNode
<1>2. c \in Held /\ c \in xmlLive /\ NoNode \notin Nodes \cup {Doc} /\ Doc \notin Nodes
  BY XmlAssumption DEF XmlInv, HeldOrChild, Held, ToSet, AddNode
<1>3. p = Doc \/ (p \in Held /\ p # c)
  <2>1. SUFFICES ASSUME NEW j \in 1 .. i - 1, guards[j] = p, p # Doc PROVE p \in Held /\ p # c
    BY DEF AddNode
  <2>2. DOMAIN guards = 1 .. Len(guards) /\ Len(guards) \in Nat
    BY LenProperties DEF XmlInv, Guarded
  <2>3. j \in DOMAIN guards /\ j # i
    BY <2>2
  <2> QED BY <2>1, <2>3, <1>2 DEF XmlInv, Guarded, Held, ToSet
<1>4. /\ xmlLive' = xmlLive /\ parent' = [parent EXCEPT ![c] = p]
      /\ building' = "document" /\ freedTwice' = FALSE
  BY DEF AddNode, XmlInv
<1> HIDE DEF c
<1>5. parent'[c] = p /\ \A m \in Nodes : m # c => parent'[m] = parent[m]
  BY <1>2, <1>4 DEF XmlInv, Tree
<1>6. Tree'
  BY <1>2, <1>3, <1>4, <1>5 DEF XmlInv, Tree, HeldOrChild
<1>7. HeldOrChild'
  BY <1>1, <1>2, <1>3, <1>4, <1>5 DEF XmlInv, Tree, HeldOrChild
<1>8. ASSUME NEW S \in SUBSET xmlLive', S # {} PROVE \E m \in S : parent'[m] \notin S
  <2>1. S \in SUBSET xmlLive /\ xmlLive \subseteq Nodes
    BY <1>4 DEF XmlInv, Tree
  <2>2. CASE c \notin S
    <3>1. PICK m \in S : parent[m] \notin S
      BY <2>1, <1>8 DEF XmlInv, Rooted
    <3> QED BY <3>1, <2>1, <2>2, <1>5
  <2>3. CASE c \in S /\ p \notin S
    BY <1>5, <2>3
  <2>4. CASE p \in S
    <3>1. p \in Held /\ p # c /\ p \in xmlLive
      BY <1>2, <1>3, <2>1, <2>4
    <3>2. parent'[p] = NoNode
      BY <3>1, <2>1, <1>5 DEF XmlInv, HeldOrChild
    <3> QED BY <3>2, <2>1, <2>4, <1>2
  <2> QED BY <2>2, <2>3, <2>4
<1> QED BY <1>1, <1>4, <1>6, <1>7, <1>8 DEF XmlInv, Rooted

(* A node that is made and is at once the child of what is there.          *)
LEMMA ChildMade ==
  ASSUME XmlInv, NEW n \in Fresh, NEW p \in Held \cup {Doc},
         xmlLive' = xmlLive \cup {n}, parent' = [parent EXCEPT ![n] = p],
         building = "document", UNCHANGED <<guards, building, freedTwice>>
  PROVE  XmlInv'
<1>1. n \in Nodes /\ n \notin xmlLive /\ NoNode \notin Nodes \cup {Doc} /\ Doc \notin Nodes
  BY XmlAssumption DEF Fresh
<1>2. Held' = Held /\ Guarded' /\ Held \subseteq xmlLive /\ xmlLive \subseteq Nodes
  BY DEF XmlInv, Guarded, Held, ToSet, HeldOrChild, Tree
<1>3. p # n /\ parent'[n] = p /\ \A m \in Nodes : m # n => parent'[m] = parent[m]
  BY <1>1, <1>2 DEF XmlInv, Tree
<1>4. Tree' /\ HeldOrChild'
  BY <1>1, <1>2, <1>3 DEF XmlInv, Tree, HeldOrChild
<1>5. ASSUME NEW S \in SUBSET xmlLive', S # {} PROVE \E m \in S : parent'[m] \notin S
  <2>1. CASE n \notin S
    <3>1. PICK m \in S : parent[m] \notin S
      BY <2>1, <1>5 DEF XmlInv, Rooted
    <3> QED BY <3>1, <2>1, <1>2, <1>3
  <2>2. CASE n \in S /\ p \notin S
    BY <1>3, <2>2
  <2>3. CASE p \in S
    <3>1. p \in Held /\ p \in Nodes
      BY <1>1, <1>2, <2>3
    <3>2. parent'[p] = NoNode
      BY <3>1, <1>2, <1>3 DEF XmlInv, HeldOrChild
    <3> QED BY <3>2, <2>3, <1>1, <1>2
  <2> QED BY <2>1, <2>2, <2>3
<1> QED BY <1>2, <1>4, <1>5 DEF XmlInv, Rooted

LEMMA AddPiInv == ASSUME XmlInv, NEW n \in Fresh, AddPi(n) PROVE XmlInv'
BY ChildMade DEF AddPi

LEMMA AddTextInv ==
  ASSUME XmlInv, NEW n \in Fresh, NEW p \in Nodes, AddText(p, n)
  PROVE  XmlInv'
<1>1. CASE p \in endsInText
  BY <1>1 DEF AddText, treeVars, XmlInv, Guarded, Tree, HeldOrChild, Rooted, Held, ToSet
<1>2. CASE p \notin endsInText
  BY <1>2, ChildMade DEF AddText
<1> QED BY <1>1, <1>2

LEMMA EndBuildingInv == ASSUME XmlInv, EndBuilding PROVE XmlInv'
BY DEF EndBuilding, treeVars, XmlInv, Guarded, Tree, HeldOrChild, Rooted, Held, ToSet

LEMMA GuardEndsInv == ASSUME XmlInv, GuardEnds PROVE XmlInv'
<1> DEFINE r == Last(guards)
<1>1. /\ Guarded' /\ Held' = Held \ {r}
      /\ r \in Nodes \cup {NoNode} /\ (r # NoNode => r \in Held)
      /\ NoNode \notin Nodes /\ Doc \notin Nodes
  BY GuardPopped, XmlAssumption DEF XmlInv, GuardEnds
<1>2. building' # "over"
  BY DEF GuardEnds
<1>3. CASE r = NoNode
  <2>1. UNCHANGED <<treeVars, freedTwice>> /\ Held' = Held
    BY <1>1, <1>3 DEF GuardEnds, Held
  <2> QED BY <2>1, <1>1, <1>2 DEF XmlInv, treeVars, Tree, HeldOrChild, Rooted
<1>4. CASE r # NoNode
  <2>1. r \in Held /\ Below(r) \ {Doc} = Below(r)
    BY <1>1, <1>4, BelowHangs
  <2>2. Free(Below(r) \ {Doc})
    BY <1>4, <2>1 DEF GuardEnds
  <2>3. (Tree /\ HeldOrChild /\ Rooted /\ freedTwice = FALSE)'
    BY <1>1, <2>1, <2>2, FreeKeeps DEF XmlInv
  <2> QED BY <2>3, <1>1, <1>2 DEF XmlInv
<1> QED BY <1>3, <1>4

LEMMA DocEndsInv == ASSUME XmlInv, DocEnds PROVE XmlInv'
<1>1. guards = <<>> /\ guards' = guards /\ Held = {} /\ Held' = {} /\ Guarded'
  BY DEF DocEnds, Held, ToSet, XmlInv, Guarded
<1>2. (Tree /\ HeldOrChild /\ Rooted /\ freedTwice = FALSE)'
  BY <1>1, FreeKeeps DEF XmlInv, DocEnds
<1>3. xmlLive \subseteq Below(Doc)
  <2> DEFINE S == xmlLive \ Below(Doc)
  <2>1. SUFFICES ASSUME S # {} PROVE FALSE
    OBVIOUS
  <2>2. PICK n \in S : parent[n] \notin S
    BY <2>1 DEF XmlInv, Rooted
  <2>3. n \in Nodes /\ parent[n] \in xmlLive \cup {Doc}
    BY <1>1, <2>2 DEF XmlInv, HeldOrChild, Tree
  <2> QED BY <2>2, <2>3, BelowHangs DEF Hanging
<1>4. xmlLive' = {}
  BY <1>3, XmlAssumption DEF DocEnds, Free, XmlInv, Tree
<1> QED BY <1>1, <1>2, <1>4 DEF XmlInv

LEMMA XmlStepInv == XmlInv /\ [XmlNext]_xmlVars => XmlInv'
<1> SUFFICES ASSUME XmlInv, [XmlNext]_xmlVars PROVE XmlInv'
  OBVIOUS
<1>1. CASE XmlNext
  BY <1>1, MakeNodeInv, AddNodeInv, AddPiInv, AddTextInv, GuardEndsInv, DocEndsInv, EndBuildingInv
  DEF XmlNext
<1>2. CASE UNCHANGED xmlVars
  BY <1>2 DEF xmlVars, treeVars, XmlInv, Guarded, Tree, HeldOrChild, Rooted, Held, ToSet
<1> QED BY <1>1, <1>2

(* However a handler ends, every node of its documents is freed, and once: *)
(* XMLNode's release, add, add_text and the destructors of xml.h.          *)
THEOREM XmlNodesFreedOnce == XmlSpec => []XmlFreedOnce
<1>1. XmlInv => XmlFreedOnce
  BY XmlAssumption DEF XmlInv, XmlFreedOnce, Tree, HeldOrChild
<1> QED BY <1>1, XmlInitInv, XmlStepInv, PTL DEF XmlSpec

-----------------------------------------------------------------------------
(* JSON.  The invariant: what a live container refers to is live, and every*)
(* element is in one place.  A container that is deleted takes all that is *)
(* in it; that nothing else refers to any of it is what the places are for.*)

Values == Containers \cup Strings

Made ==
  /\ jsonLive \subseteq Values
  /\ kind \in [Containers -> {"object", "array"}]
  /\ items = [c \in Containers |-> items[c]]
  /\ \A c \in Containers : kind[c] = "array" => items[c] \in Seq(Values)

LiveInside == \A c \in jsonLive \cap Containers : In(c) \subseteq jsonLive

OnePlace ==
  \A c, d \in jsonLive \cap Containers : \A i \in DOMAIN items[c], j \in DOMAIN items[d] :
    items[c][i] = items[d][j] => c = d /\ i = j

StringsOwned == \A s \in jsonLive \cap Strings : Owned(s) \/ s \in refused

JsonInv ==
  /\ Made /\ LiveInside /\ OnePlace /\ StringsOwned
  /\ deletedTwice = FALSE

LEMMA JsonInitInv == JsonInit => JsonInv
<1> SUFFICES ASSUME JsonInit PROVE JsonInv
  OBVIOUS
<1>1. \A c \in Containers : items[c] = <<>> /\ DOMAIN items[c] = {} /\ items[c] \in Seq(Values)
  BY DEF JsonInit
<1>2. Made
  <2>1. kind \in [Containers -> {"object", "array"}]
    BY DEF JsonInit
  <2> QED BY <1>1, <2>1, JsonAssumption DEF JsonInit, Made, Values
<1> QED
  BY <1>1, <1>2, JsonAssumption
  DEF JsonInit, JsonInv, LiveInside, OnePlace, StringsOwned, In

(* What insert and push_back do to the elements of c: they keep their      *)
(* places and v gets a new one, unless insert refuses it.                  *)
Grown(old, new, v, refuses) ==
  /\ \A j \in DOMAIN old : j \in DOMAIN new /\ new[j] = old[j]
  /\ refuses => DOMAIN new = DOMAIN old
  /\ ~refuses => \E n : n \notin DOMAIN old /\ DOMAIN new = DOMAIN old \cup {n} /\ new[n] = v

LEMMA PutAdds ==
  ASSUME Made, NEW c \in Containers, NEW k, NEW v \in Values, Room(c, k)
  PROVE  /\ Grown(items[c], Put(c, k, v), v, Refused(c, k))
         /\ kind[c] = "array" => Put(c, k, v) \in Seq(Values)
<1>1. CASE kind[c] = "array"
  <2> DEFINE s == items[c]  t == Append(s, v)
  <2>1. s \in Seq(Values) /\ Put(c, k, v) = t /\ ~Refused(c, k)
    BY <1>1 DEF Made, Put, Refused
  <2>2. /\ t \in Seq(Values) /\ Len(t) = Len(s) + 1 /\ Len(s) \in Nat
        /\ \A i \in 1 .. Len(s) : t[i] = s[i]
        /\ t[Len(s) + 1] = v /\ DOMAIN s = 1 .. Len(s) /\ DOMAIN t = 1 .. Len(t)
    BY <2>1, AppendProperties, LenProperties
  <2> HIDE DEF s, t
  <2>3. Len(s) + 1 \notin DOMAIN s /\ DOMAIN t = DOMAIN s \cup {Len(s) + 1}
    BY <2>2
  <2>4. \A i \in DOMAIN s : i \in DOMAIN t /\ t[i] = s[i]
    BY <2>2, <2>3
  <2> QED BY <2>1, <2>2, <2>3, <2>4 DEF s, Grown
<1>2. CASE kind[c] # "array"
  <2>1. kind[c] = "object"
    BY <1>2 DEF Made
  <2>2. Put(c, k, v) =
          [j \in DOMAIN items[c] \cup {k} |-> IF j \in DOMAIN items[c] THEN items[c][j] ELSE v]
    BY <1>2 DEF Put
  <2> QED BY <1>2, <2>1, <2>2 DEF Refused, Grown
<1> QED BY <1>1, <1>2

(* A value that is in no container is put into one.                        *)
LEMMA Placed ==
  ASSUME JsonInv, NEW c \in Containers, NEW k, NEW v \in Values,
         Insert(c, k, v), ~Owned(v),
         v \in jsonLive \cap Containers \/ (v \in Strings \cup Containers /\ v \notin jsonLive),
         jsonLive' = jsonLive \cup {v},
         items' = [d \in Containers |-> items'[d]],
         items'[c] = Put(c, k, v),
         \A d \in jsonLive \cap Containers : d # c => items'[d] = items[d],
         v \in Containers \ jsonLive => DOMAIN items'[v] = {},
         v \in Strings => v \notin Containers
  PROVE  (LiveInside /\ OnePlace /\ StringsOwned)'
<1>1. c \in jsonLive /\ Room(c, k)
  BY DEF Insert
<1> DEFINE p == Put(c, k, v)
<1>2. Grown(items[c], p, v, Refused(c, k))
  BY <1>1, PutAdds DEF JsonInv
<1>3. items'[c] = p
  OBVIOUS
<1> HIDE DEF p
(* Where an element is now, it was, or it is the new one.                  *)
<1>4. ASSUME NEW d \in jsonLive' \cap Containers, NEW i \in DOMAIN items'[d]
      PROVE  /\ d \in jsonLive
             /\ \/ i \in DOMAIN items[d] /\ items'[d][i] = items[d][i]
                \/ d = c /\ i \notin DOMAIN items[d] /\ items'[d][i] = v /\ DOMAIN p = DOMAIN items[c] \cup {i}
  <2>1. d \in jsonLive
    OBVIOUS
  <2>2. CASE d # c
    BY <2>1, <2>2
  <2>3. CASE d = c
    BY <2>1, <2>3, <1>2, <1>3 DEF Grown
  <2> QED BY <2>1, <2>2, <2>3
<1>5. \A d \in jsonLive \cap Containers : \A i \in DOMAIN items[d] :
        i \in DOMAIN items'[d] /\ items'[d][i] = items[d][i]
  BY <1>2, <1>3 DEF Grown
<1>6. \A d \in jsonLive \cap Containers : \A i \in DOMAIN items[d] : items[d][i] # v
  BY DEF Owned, In
<1>7. LiveInside'
  <2> SUFFICES ASSUME NEW d \in jsonLive' \cap Containers, NEW i \in DOMAIN items'[d]
               PROVE  items'[d][i] \in jsonLive'
    BY DEF LiveInside, In
  <2>1. CASE i \in DOMAIN items[d] /\ items'[d][i] = items[d][i] /\ d \in jsonLive
    BY <2>1 DEF JsonInv, LiveInside, In
  <2> QED BY <2>1, <1>4
<1>8. OnePlace'
  <2> SUFFICES ASSUME NEW d \in jsonLive' \cap Containers, NEW e \in jsonLive' \cap Containers,
                      NEW i \in DOMAIN items'[d], NEW j \in DOMAIN items'[e],
                      items'[d][i] = items'[e][j]
               PROVE  d = e /\ i = j
    BY DEF OnePlace
  <2>1. d \in jsonLive \cap Containers /\ e \in jsonLive \cap Containers
    BY <1>4
  <2>2. /\ i \in DOMAIN items[d] => items[d][i] # v
        /\ j \in DOMAIN items[e] => items[e][j] # v
    BY <2>1, <1>6
  <2>3. \/ i \in DOMAIN items[d] /\ items'[d][i] = items[d][i] /\ items'[d][i] # v
        \/ d = c /\ i \notin DOMAIN items[d] /\ items'[d][i] = v /\ DOMAIN p = DOMAIN items[c] \cup {i}
    BY <2>2, <1>4
  <2>4. \/ j \in DOMAIN items[e] /\ items'[e][j] = items[e][j] /\ items'[e][j] # v
        \/ e = c /\ j \notin DOMAIN items[e] /\ items'[e][j] = v /\ DOMAIN p = DOMAIN items[c] \cup {j}
    BY <2>2, <1>4
  <2>5. CASE i \in DOMAIN items[d] /\ j \in DOMAIN items[e]
    BY <2>1, <2>3, <2>4, <2>5 DEF JsonInv, OnePlace
  <2>6. CASE i \notin DOMAIN items[d] /\ j \notin DOMAIN items[e]
    BY <2>3, <2>4, <2>6
  <2> QED BY <2>3, <2>4, <2>5, <2>6
<1>9. \A s : Owned(s) => Owned(s)'
  BY <1>5 DEF Owned, In
<1>10. Refused(c, k) \/ Owned(v)'
  <2>1. ASSUME ~Refused(c, k) PROVE \E n \in DOMAIN items'[c] : items'[c][n] = v
    BY <2>1, <1>2, <1>3 DEF Grown
  <2>2. c \in jsonLive' \cap Containers
    BY <1>1
  <2> QED BY <2>1, <2>2 DEF Owned, In
<1>11. StringsOwned'
  BY <1>9, <1>10 DEF JsonInv, StringsOwned, Insert
<1> QED BY <1>7, <1>8, <1>11

LEMMA AddStringInv ==
  ASSUME JsonInv, NEW c \in Containers, NEW k, NEW s \in Strings, AddString(c, k, s)
  PROVE  JsonInv'
<1>1. /\ Insert(c, k, s) /\ s \notin jsonLive /\ s \in Values /\ s \notin Containers
      /\ jsonLive' = jsonLive \cup {s} /\ kind' = kind /\ deletedTwice' = FALSE
      /\ items' = [items EXCEPT ![c] = Put(c, k, s)]
  BY JsonAssumption DEF AddString, Values, JsonInv
<1>2. /\ items' = [d \in Containers |-> items'[d]]
      /\ items'[c] = Put(c, k, s)
      /\ \A d \in Containers : d # c => items'[d] = items[d]
  BY <1>1 DEF JsonInv, Made
<1>3. ~Owned(s)
  BY <1>1 DEF JsonInv, LiveInside, Owned
<1>4. (LiveInside /\ OnePlace /\ StringsOwned)'
  BY <1>1, <1>2, <1>3, Placed
<1>5. kind[c] = "array" => Put(c, k, s) \in Seq(Values)
  BY <1>1, PutAdds DEF JsonInv, Insert
<1>6. Made'
  BY <1>1, <1>2, <1>5 DEF JsonInv, Made
<1> QED BY <1>1, <1>4, <1>6 DEF JsonInv

LEMMA AddNewInv ==
  ASSUME JsonInv, NEW c \in Containers, NEW d \in Containers, NEW k,
         NEW what \in {"object", "array"}, AddNew(c, k, d, what)
  PROVE  JsonInv'
<1>1. /\ Insert(c, k, d) /\ d \notin jsonLive /\ d \in Values /\ d \notin Strings /\ c # d
      /\ jsonLive' = jsonLive \cup {d} /\ kind' = [kind EXCEPT ![d] = what] /\ deletedTwice' = FALSE
      /\ items' = [items EXCEPT ![c] = Put(c, k, d), ![d] = <<>>]
  BY JsonAssumption DEF AddNew, Values, JsonInv, Insert
<1>2. /\ items' = [e \in Containers |-> items'[e]]
      /\ items'[c] = Put(c, k, d) /\ items'[d] = <<>>
      /\ \A e \in Containers : e # c /\ e # d => items'[e] = items[e]
  BY <1>1 DEF JsonInv, Made
<1>3. ~Owned(d)
  BY <1>1 DEF JsonInv, LiveInside, Owned
<1>4. \A e \in jsonLive \cap Containers : e # c => items'[e] = items[e]
  BY <1>1, <1>2
<1>5. DOMAIN items'[d] = {} /\ <<>> \in Seq(Values)
  BY <1>2
<1>6. (LiveInside /\ OnePlace /\ StringsOwned)'
  BY <1>1, <1>2, <1>3, <1>4, <1>5, Placed
<1>7. kind[c] = "array" => Put(c, k, d) \in Seq(Values)
  BY <1>1, PutAdds DEF JsonInv, Insert
<1>8. Made'
  BY <1>1, <1>2, <1>5, <1>7 DEF JsonInv, Made
<1> QED BY <1>1, <1>6, <1>8 DEF JsonInv

LEMMA AddMadeInv ==
  ASSUME JsonInv, NEW c \in Containers, NEW d \in Containers, NEW k, AddMade(c, k, d)
  PROVE  JsonInv'
<1>1. /\ Insert(c, k, d) /\ d \in jsonLive /\ d \in Values /\ d \notin Strings /\ ~Owned(d)
      /\ jsonLive' = jsonLive \cup {d} /\ jsonLive' = jsonLive /\ kind' = kind
      /\ deletedTwice' = FALSE
      /\ items' = [items EXCEPT ![c] = Put(c, k, d)]
  BY JsonAssumption DEF AddMade, Values, JsonInv
<1>2. /\ items' = [e \in Containers |-> items'[e]]
      /\ items'[c] = Put(c, k, d)
      /\ \A e \in Containers : e # c => items'[e] = items[e]
  BY <1>1 DEF JsonInv, Made
<1>3. (LiveInside /\ OnePlace /\ StringsOwned)'
  BY <1>1, <1>2, Placed
<1>4. kind[c] = "array" => Put(c, k, d) \in Seq(Values)
  BY <1>1, PutAdds DEF JsonInv, Insert
<1>5. Made'
  BY <1>1, <1>2, <1>4 DEF JsonInv, Made
<1> QED BY <1>1, <1>3, <1>5 DEF JsonInv

LEMMA MakeInv ==
  ASSUME JsonInv, NEW d \in Containers, NEW what \in {"object", "array"}, Make(d, what)
  PROVE  JsonInv'
<1>1. /\ d \notin jsonLive /\ d \notin Strings /\ d \in Values
      /\ jsonLive' = jsonLive \cup {d} /\ kind' = [kind EXCEPT ![d] = what]
      /\ items' = [items EXCEPT ![d] = <<>>] /\ refused' = refused /\ deletedTwice' = FALSE
  BY JsonAssumption DEF Make, JsonInv, Values
<1>2. /\ items' = [e \in Containers |-> items'[e]] /\ items'[d] = <<>>
      /\ \A e \in Containers : e # d => items'[e] = items[e]
      /\ DOMAIN items'[d] = {} /\ <<>> \in Seq(Values)
  BY <1>1 DEF JsonInv, Made
<1>3. Made'
  BY <1>1, <1>2 DEF JsonInv, Made
<1>4. \A e \in jsonLive \cap Containers : items'[e] = items[e] /\ e # d
  BY <1>1, <1>2
<1>5. LiveInside'
  BY <1>1, <1>2, <1>4 DEF JsonInv, LiveInside, In
<1>6. OnePlace'
  BY <1>1, <1>2, <1>4 DEF JsonInv, OnePlace
<1>7. StringsOwned'
  BY <1>1, <1>4 DEF JsonInv, StringsOwned, Owned, In
<1> QED BY <1>1, <1>3, <1>5, <1>6, <1>7 DEF JsonInv

(* What is in a container: it has all that what it has refers to, and all  *)
(* of it but the container itself is in something it has.                  *)
LEMMA InsideClosed ==
  ASSUME JsonInv, NEW c \in jsonLive \cap Containers
  PROVE  /\ c \in Inside(c) /\ Inside(c) \subseteq jsonLive
         /\ \A d \in Inside(c) \cap Containers : In(d) \subseteq Inside(c)
         /\ \A v \in Inside(c) : v # c => \E d \in Inside(c) \cap Containers : v \in In(d)
<1> DEFINE Closed(S) == c \in S /\ \A d \in S \cap Containers : In(d) \subseteq S
<1>1. Inside(c) = { v \in Values : \A S \in SUBSET Values : Closed(S) => v \in S }
  BY DEF Inside, Values
<1>2. jsonLive \in SUBSET Values /\ Closed(jsonLive)
  BY DEF JsonInv, Made, LiveInside
<1>3. Inside(c) \subseteq jsonLive
  BY <1>1, <1>2
<1>4. c \in Inside(c)
  BY <1>1 DEF Values
<1>5. ASSUME NEW d \in Inside(c) \cap Containers, NEW v \in In(d) PROVE v \in Inside(c)
  <2>1. v \in Values
    BY <1>2, <1>3
  <2>2. ASSUME NEW S \in SUBSET Values, Closed(S) PROVE v \in S
    BY <1>1, <2>2
  <2> QED BY <1>1, <2>1, <2>2
<1>6. ASSUME NEW v \in Inside(c), v # c, \A d \in Inside(c) \cap Containers : v \notin In(d)
      PROVE  FALSE
  <2> DEFINE S == Inside(c) \ {v}
  <2>1. S \in SUBSET Values
    BY <1>1
  <2>2. Closed(S)
    BY <1>4, <1>5, <1>6
  <2> QED BY <1>1, <2>1, <2>2
<1> QED BY <1>3, <1>4, <1>5, <1>6

LEMMA DeleteInv == ASSUME JsonInv, NEW c \in Containers, Delete(c) PROVE JsonInv'
<1> DEFINE gone == Inside(c)
<1>1. /\ c \in jsonLive /\ ~Owned(c) /\ kind' = kind /\ refused' = refused
      /\ jsonLive' = jsonLive \ gone
      /\ deletedTwice' = (deletedTwice \/ ~(gone \subseteq jsonLive))
      /\ items' = [d \in Containers |-> IF d \in gone THEN <<>> ELSE items[d]]
  BY DEF Delete
<1>2. /\ c \in gone /\ gone \subseteq jsonLive
      /\ \A d \in gone \cap Containers : In(d) \subseteq gone
      /\ \A v \in gone : v # c => \E d \in gone \cap Containers : v \in In(d)
  BY <1>1, InsideClosed
<1> HIDE DEF gone
<1>3. \A d \in jsonLive' \cap Containers : d \in jsonLive /\ d \notin gone /\ items'[d] = items[d]
  BY <1>1
<1>4. Made'
  <2>1. /\ jsonLive' \subseteq Values /\ kind' \in [Containers -> {"object", "array"}]
        /\ items' = [d \in Containers |-> items'[d]] /\ <<>> \in Seq(Values)
    BY <1>1 DEF JsonInv, Made
  <2>2. ASSUME NEW d \in Containers, kind'[d] = "array" PROVE items'[d] \in Seq(Values)
    BY <1>1, <2>1, <2>2 DEF JsonInv, Made
  <2> QED BY <2>1, <2>2 DEF Made
(* What is left refers to nothing that goes: that is in one place, and that*)
(* place goes with it.                                                     *)
<1>5. ASSUME NEW d \in jsonLive' \cap Containers, NEW i \in DOMAIN items[d], items[d][i] \in gone
      PROVE  FALSE
  <2> DEFINE v == items[d][i]
  <2>1. v # c
    BY <1>1, <1>3 DEF Owned, In
  <2>2. PICK e \in gone \cap Containers : v \in In(e)
    BY <1>2, <1>5, <2>1
  <2>3. PICK j \in DOMAIN items[e] : items[e][j] = items[d][i]
    BY <2>2 DEF In
  <2>4. d = e
    BY <2>3, <1>2, <1>3 DEF JsonInv, OnePlace
  <2> QED BY <2>4, <1>3
<1>6. LiveInside'
  BY <1>1, <1>3, <1>5 DEF JsonInv, LiveInside, In
<1>7. OnePlace'
  BY <1>3 DEF JsonInv, OnePlace
<1>8. StringsOwned'
  <2> SUFFICES ASSUME NEW s \in jsonLive' \cap Strings, s \notin refused PROVE Owned(s)'
    BY <1>1 DEF StringsOwned
  <2>1. PICK d \in jsonLive \cap Containers : s \in In(d)
    BY <1>1 DEF JsonInv, StringsOwned, Owned
  <2>2. d \notin gone
    BY <1>1, <1>2, <2>1
  <2> QED BY <2>1, <2>2, <1>1, <1>3 DEF Owned, In
<1> QED BY <1>1, <1>2, <1>4, <1>6, <1>7, <1>8 DEF JsonInv

LEMMA JsonStepInv == JsonInv /\ [JsonNext]_jsonVars => JsonInv'
<1> SUFFICES ASSUME JsonInv, [JsonNext]_jsonVars PROVE JsonInv'
  OBVIOUS
<1>1. CASE JsonNext
  BY <1>1, AddStringInv, AddNewInv, AddMadeInv, MakeInv, DeleteInv DEF JsonNext
<1>2. CASE UNCHANGED jsonVars
  BY <1>2 DEF jsonVars, JsonInv, Made, LiveInside, OnePlace, StringsOwned, Owned, In
<1> QED BY <1>1, <1>2

(* However JSON documents are put together and taken apart, nothing of them*)
(* is deleted twice, and a string is lost only when insert refuses it: the *)
(* destructors and the add functions of json.h and json.cpp.               *)
THEOREM JsonValuesFreedOnce == JsonSpec => []JsonFreedOnce
<1>1. ASSUME JsonInv, NEW v \in jsonLive PROVE Cardinality(Places(v)) <= 1
  <2>1. \A x, y \in Places(v) : x = y
    BY <1>1 DEF JsonInv, OnePlace, Places
  <2>2. CASE Places(v) = {}
    BY <2>2, FS_EmptySet
  <2>3. CASE Places(v) # {}
    <3>1. PICK x \in Places(v) : TRUE
      BY <2>3
    <3>2. Places(v) = {x}
      BY <2>1, <3>1
    <3> QED BY <3>2, FS_Singleton
  <2> QED BY <2>2, <2>3
<1>2. JsonInv => JsonFreedOnce
  BY <1>1 DEF JsonInv, LiveInside, StringsOwned, JsonFreedOnce
<1> QED BY <1>2, JsonInitInv, JsonStepInv, PTL DEF JsonSpec

-----------------------------------------------------------------------------
(* JSON text.  The reader takes a character at a time, so that what is put *)
(* together of pieces is read one piece after another.                     *)

(* Where a reader is after a text: it takes one character after another.   *)
Course(r, text, n, after) ==
  after = [i \in 0 .. n |-> IF i = 0 THEN r ELSE Reads(after[i - 1], text[i])]

LEMMA CourseExists ==
  ASSUME NEW r, NEW text, NEW n \in Nat
  PROVE  \E after : Course(r, text, n, after)
<1> DEFINE S == { m \in 0 .. n : \E after : Course(r, text, m, after) }
<1>1. 0 \in S
  <2> DEFINE g == [i \in 0 .. 0 |-> r]
  <2>1. g = [i \in 0 .. 0 |-> IF i = 0 THEN r ELSE Reads(g[i - 1], text[i])]
    OBVIOUS
  <2> HIDE DEF g
  <2> QED BY <2>1 DEF Course
<1>2. ASSUME NEW m \in 1 .. n, m - 1 \in S PROVE m \in S
  <2>1. PICK f : Course(r, text, m - 1, f)
    BY <1>2
  <2> DEFINE g == [i \in 0 .. m |-> IF i = 0 THEN r ELSE Reads(f[i - 1], text[i])]
  <2>2. \A i \in 0 .. m - 1 : g[i] = f[i]
    <3>1. f = [i \in 0 .. m - 1 |-> IF i = 0 THEN r ELSE Reads(f[i - 1], text[i])]
      BY <2>1 DEF Course
    <3>2. \A i \in 0 .. m - 1 : i \in 0 .. m
      OBVIOUS
    <3> QED BY <3>1, <3>2
  <2>3. \A i \in 1 .. m : i - 1 \in 0 .. m - 1
    OBVIOUS
  <2>4. \A i \in 0 .. m : i = 0 \/ i \in 1 .. m
    OBVIOUS
  <2>5. g = [i \in 0 .. m |-> IF i = 0 THEN r ELSE Reads(g[i - 1], text[i])]
    BY <2>2, <2>3, <2>4
  <2> HIDE DEF g
  <2> QED BY <2>5 DEF Course
<1>3. n \in S
  <2> HIDE DEF S
  <2>1. 0 .. n \subseteq S
    BY <1>1, <1>2, BoundedInduction
  <2> QED BY <2>1
<1> QED BY <1>3

Follows(r, text, after) ==
  /\ ReadFrom(r, text) = after[Len(text)] /\ after[0] = r
  /\ \A i \in 1 .. Len(text) : after[i] = Reads(after[i - 1], text[i])

LEMMA ReadFromCourse ==
  ASSUME NEW r, NEW S, NEW text \in Seq(S)
  PROVE  \E after : Follows(r, text, after)
<1> DEFINE n == Len(text)
           after == CHOOSE f : Course(r, text, n, f)
<1>1. n \in Nat
  BY LenProperties
<1>2. ReadFrom(r, text) = after[n]
  BY DEF ReadFrom, Course
<1> HIDE DEF n
<1>3. Course(r, text, n, after)
  BY <1>1, CourseExists
<1> HIDE DEF after
<1>4. after[0] = r /\ \A i \in 1 .. n : after[i] = Reads(after[i - 1], text[i])
  BY <1>1, <1>3 DEF Course
<1> QED BY <1>2, <1>4 DEF n, Follows

(* Reading nothing, one character, and one text after the other.           *)
LEMMA ReadNothing == ASSUME NEW r PROVE ReadFrom(r, <<>>) = r
<1>1. <<>> \in Seq({}) /\ Len(<<>>) = 0
  OBVIOUS
<1> QED BY <1>1, ReadFromCourse DEF Follows

LEMMA ReadOne == ASSUME NEW r, NEW e PROVE ReadFrom(r, <<e>>) = Reads(r, e)
<1> DEFINE t == <<e>>
<1>1. t \in Seq({e}) /\ Len(t) = 1 /\ t[1] = e
  OBVIOUS
<1> HIDE DEF t
<1>2. PICK after : Follows(r, t, after)
  BY <1>1, ReadFromCourse
<1>3. ReadFrom(r, t) = after[1] /\ after[1] = Reads(after[1 - 1], t[1]) /\ 1 - 1 = 0
  BY <1>1, <1>2 DEF Follows
<1> QED BY <1>1, <1>2, <1>3 DEF t, Follows

LEMMA ReadBoth ==
  ASSUME NEW r, NEW S, NEW s \in Seq(S), NEW t \in Seq(S)
  PROVE  ReadFrom(r, s \o t) = ReadFrom(ReadFrom(r, s), t)
<1> DEFINE st == s \o t  m == Len(s)  n == Len(t)  q == ReadFrom(r, s)
<1>1. /\ st \in Seq(S) /\ Len(st) = m + n /\ m \in Nat /\ n \in Nat
      /\ \A i \in 1 .. m : st[i] = s[i]
      /\ \A i \in 1 .. n : st[m + i] = t[i]
  <2>1. /\ st \in Seq(S) /\ Len(st) = m + n
        /\ \A i \in 1 .. Len(s) + Len(t) : st[i] = IF i <= Len(s) THEN s[i] ELSE t[i - Len(s)]
    BY ConcatProperties
  <2>2. m \in Nat /\ n \in Nat
    BY LenProperties
  <2> HIDE DEF st, m, n
  <2>3. \A i \in 1 .. m + n : st[i] = IF i <= m THEN s[i] ELSE t[i - m]
    BY <2>1 DEF m, n
  <2>4. ASSUME NEW i \in 1 .. n PROVE st[m + i] = t[i]
    <3>1. m + i \in 1 .. m + n /\ ~(m + i <= m) /\ (m + i) - m = i
      BY <2>2
    <3> QED BY <3>1, <2>3
  <2> QED BY <2>1, <2>2, <2>3, <2>4
<1> HIDE DEF st, m, n, q
<1>2. PICK f : Follows(r, s, f)
  BY ReadFromCourse
<1>3. PICK g : Follows(q, t, g)
  BY ReadFromCourse
<1>4. PICK h : Follows(r, st, h)
  <2>1. st \in Seq(S)
    BY <1>1
  <2> QED BY <2>1, ReadFromCourse
<1>5. /\ q = f[m] /\ f[0] = r /\ \A i \in 1 .. m : f[i] = Reads(f[i - 1], s[i])
      /\ ReadFrom(q, t) = g[n] /\ g[0] = q /\ \A i \in 1 .. n : g[i] = Reads(g[i - 1], t[i])
  BY <1>2, <1>3 DEF q, m, n, Follows
<1>6. /\ ReadFrom(r, st) = h[Len(st)] /\ h[0] = r
      /\ \A i \in 1 .. Len(st) : h[i] = Reads(h[i - 1], st[i])
  BY <1>4 DEF Follows
<1>7. h[m] = f[m]
  <2> DEFINE T == { i \in 0 .. m : h[i] = f[i] }
  <2>1. 0 \in T
    BY <1>1, <1>5, <1>6
  <2>2. ASSUME NEW i \in 1 .. m, i - 1 \in T PROVE i \in T
    <3>1. i \in 1 .. Len(st)
      BY <1>1
    <3> QED BY <1>1, <1>5, <1>6, <2>2, <3>1
  <2> HIDE DEF T
  <2>3. 0 .. m \subseteq T
    BY <1>1, <2>1, <2>2, BoundedInduction
  <2>4. m \in T
    BY <1>1, <2>3
  <2> QED BY <2>4 DEF T
<1>8. h[m + n] = g[n]
  <2> DEFINE T == { i \in 0 .. n : h[m + i] = g[i] }
  <2>1. 0 \in T
    <3>1. m + 0 = m /\ 0 \in 0 .. n
      BY <1>1
    <3> QED BY <3>1, <1>5, <1>7
  <2>2. ASSUME NEW i \in 1 .. n, i - 1 \in T PROVE i \in T
    <3>1. m + i \in 1 .. Len(st) /\ (m + i) - 1 = m + (i - 1) /\ i \in 0 .. n
      BY <1>1
    <3>2. h[m + i] = Reads(h[m + (i - 1)], st[m + i])
      BY <1>6, <3>1
    <3>3. st[m + i] = t[i] /\ h[m + (i - 1)] = g[i - 1]
      BY <1>1, <2>2
    <3> QED BY <1>5, <3>1, <3>2, <3>3
  <2> HIDE DEF T
  <2>3. 0 .. n \subseteq T
    BY <1>1, <2>1, <2>2, BoundedInduction
  <2>4. n \in T
    BY <1>1, <2>3
  <2> QED BY <2>4 DEF T
<1>9. ReadFrom(r, st) = ReadFrom(q, t)
  BY <1>1, <1>5, <1>6, <1>8
<1> QED BY <1>9 DEF st, q

(* What is not JSON does not become it.                                    *)
LEMMA NotJsonStays ==
  ASSUME NEW S, NEW text \in Seq(S)
  PROVE  ReadFrom(NotJson, text) = NotJson
<1> DEFINE n == Len(text)
<1>1. n \in Nat
  BY LenProperties
<1>2. PICK f : Follows(NotJson, text, f)
  BY ReadFromCourse
<1>3. /\ ReadFrom(NotJson, text) = f[n] /\ f[0] = NotJson
      /\ \A i \in 1 .. n : f[i] = Reads(f[i - 1], text[i])
  BY <1>2 DEF Follows
<1> HIDE DEF n
<1>4. \A e : Reads(NotJson, e) = NotJson
  BY DEF Reads, Outside, NotJson, Reader
<1> DEFINE T == { i \in 0 .. n : f[i] = NotJson }
<1>5. 0 \in T
  BY <1>1, <1>3
<1>6. ASSUME NEW i \in 1 .. n, i - 1 \in T PROVE i \in T
  BY <1>1, <1>3, <1>4, <1>6
<1> HIDE DEF T
<1>7. 0 .. n \subseteq T
  BY <1>1, <1>5, <1>6, BoundedInduction
<1>8. n \in T
  BY <1>1, <1>7
<1> QED BY <1>3, <1>8 DEF T, n

Texts == Seq(Characters)

LEMMA TextsJoin ==
  ASSUME NEW s \in Texts, NEW t \in Texts
  PROVE  /\ s \o t \in Texts
         /\ \A r : ReadFrom(r, s \o t) = ReadFrom(ReadFrom(r, s), t)
<1>1. s \in Seq(Characters) /\ t \in Seq(Characters)
  BY DEF Texts
<1> QED BY <1>1, ConcatProperties, ReadBoth DEF Texts

LEMMA NotJsonStaysSo == ASSUME NEW t \in Texts PROVE ReadFrom(NotJson, t) = NotJson
<1>1. t \in Seq(Characters)
  BY DEF Texts
<1> QED BY <1>1, NotJsonStays

(* The texts of one character and of two.                                  *)
LEMMA ShortTexts ==
  ASSUME NEW d \in Characters, NEW e \in Characters
  PROVE  <<d>> \in Texts /\ <<d, e>> \in Texts
BY DEF Texts

LEMMA TextIs ==
  ASSUME NEW t \in Texts
  PROVE  /\ Len(t) \in Nat /\ DOMAIN t = 1 .. Len(t)
         /\ \A i \in 1 .. Len(t) : t[i] \in Characters
BY LenProperties, ElementOfSeq DEF Texts

(* What is put together of pieces from the last to the first.              *)
Pieces(n, part, last, from) ==
  from = [i \in 1 .. n + 1 |-> IF i > n THEN last ELSE part[i] \o from[i + 1]]

LEMMA PiecesExist ==
  ASSUME NEW n \in Nat, NEW part \in [1 .. n -> Texts], NEW last \in Texts
  PROVE  \E from : Pieces(n, part, last, from)
<1> DEFINE step == [i \in 1 .. n |-> [x \in Texts |-> part[n + 1 - i] \o x]]
<1>1. step \in [1 .. n -> [Texts -> Texts]]
  <2>1. ASSUME NEW i \in 1 .. n, NEW x \in Texts PROVE part[n + 1 - i] \o x \in Texts
    <3>1. n + 1 - i \in 1 .. n
      OBVIOUS
    <3>2. part[n + 1 - i] \in Texts
      BY <3>1
    <3> QED BY <3>2, TextsJoin
  <2> QED BY <2>1
<1>2. \A i \in 1 .. n : \A x \in Texts : step[i][x] = part[n + 1 - i] \o x
  OBVIOUS
<1>3. last \in Texts
  OBVIOUS
<1> HIDE DEF step
<1>4. PICK g \in [0 .. n -> Texts] : g[0] = last /\ \A i \in 1 .. n : g[i] = step[i][g[i - 1]]
  <2>1. \A m \in Nat : \A h \in [1 .. m -> [Texts -> Texts]] :
          \E f \in [0 .. m -> Texts] : f[0] = last /\ \A i \in 1 .. m : f[i] = h[i][f[i - 1]]
    BY <1>3, LoopExists, SMTT(60)
  <2> QED BY <1>1, <2>1
<1> DEFINE from == [i \in 1 .. n + 1 |-> g[n + 1 - i]]
<1>5. from \in [1 .. n + 1 -> Texts] /\ from[n + 1] = last
  <2>1. \A i \in 1 .. n + 1 : n + 1 - i \in 0 .. n
    OBVIOUS
  <2>2. n + 1 \in 1 .. n + 1 /\ n + 1 - (n + 1) = 0
    OBVIOUS
  <2> QED BY <1>4, <2>1, <2>2
<1>6. ASSUME NEW i \in 1 .. n PROVE from[i] = part[i] \o from[i + 1]
  <2> DEFINE k == n + 1 - i
  <2>1. /\ k \in 1 .. n /\ k - 1 \in 0 .. n /\ n + 1 - k = i
        /\ i \in 1 .. n + 1 /\ i + 1 \in 1 .. n + 1 /\ n + 1 - (i + 1) = k - 1
    OBVIOUS
  <2>2. from[i] = g[k] /\ from[i + 1] = g[k - 1]
    BY <2>1
  <2> HIDE DEF k, from
  <2>3. g[k - 1] \in Texts
    BY <1>4, <2>1
  <2>4. g[k] = part[i] \o g[k - 1]
    BY <1>2, <1>4, <2>1, <2>3
  <2> QED BY <2>2, <2>4
<1>7. from = [i \in 1 .. n + 1 |-> IF i > n THEN last ELSE part[i] \o from[i + 1]]
  <2>1. DOMAIN from = 1 .. n + 1 /\ from = [i \in 1 .. n + 1 |-> from[i]]
    OBVIOUS
  <2> HIDE DEF from
  <2>2. ASSUME NEW i \in 1 .. n + 1 PROVE from[i] = IF i > n THEN last ELSE part[i] \o from[i + 1]
    <3>1. CASE i > n
      <4>1. i = n + 1
        BY <3>1
      <4> QED BY <3>1, <4>1, <1>5
    <3>2. CASE ~(i > n)
      <4>1. i \in 1 .. n
        BY <3>2
      <4> QED BY <4>1, <3>2, <1>6
    <3> QED BY <3>1, <3>2
  <2> QED BY <2>1, <2>2
<1> HIDE DEF from
<1> QED BY <1>7 DEF Pieces

Joined(n, part, last, from) ==
  /\ from \in [1 .. n + 1 -> Texts] /\ from[n + 1] = last
  /\ \A i \in 1 .. n : from[i] = part[i] \o from[i + 1]

LEMMA PiecesJoin ==
  ASSUME NEW n \in Nat, NEW part \in [1 .. n -> Texts], NEW last \in Texts,
         NEW from, Pieces(n, part, last, from)
  PROVE  Joined(n, part, last, from)
<1>1. from[n + 1] = last
  <2>1. n + 1 \in 1 .. n + 1 /\ n + 1 > n
    OBVIOUS
  <2> QED BY <2>1 DEF Pieces
<1>2. ASSUME NEW i \in 1 .. n PROVE from[i] = part[i] \o from[i + 1]
  <2>1. i \in 1 .. n + 1 /\ ~(i > n)
    OBVIOUS
  <2> QED BY <2>1 DEF Pieces
<1> DEFINE T == { k \in 0 .. n : from[n + 1 - k] \in Texts }
<1>3. 0 \in T
  <2>1. n + 1 - 0 = n + 1 /\ 0 \in 0 .. n
    OBVIOUS
  <2> QED BY <2>1, <1>1
<1>4. ASSUME NEW k \in 1 .. n, k - 1 \in T PROVE k \in T
  <2> DEFINE i == n + 1 - k
  <2>1. i \in 1 .. n /\ n + 1 - (k - 1) = i + 1 /\ k \in 0 .. n
    OBVIOUS
  <2>2. from[i + 1] \in Texts
    BY <1>4, <2>1
  <2> HIDE DEF i
  <2>3. part[i] \in Texts
    BY <2>1
  <2>4. from[i] \in Texts
    BY <1>2, <2>1, <2>2, <2>3, TextsJoin
  <2> QED BY <2>1, <2>4 DEF i
<1>5. 0 .. n \subseteq T
  <2> HIDE DEF T
  <2> QED BY <1>3, <1>4, BoundedInduction
<1>6. ASSUME NEW i \in 1 .. n + 1 PROVE from[i] \in Texts
  <2>1. n + 1 - i \in 0 .. n /\ n + 1 - (n + 1 - i) = i
    OBVIOUS
  <2> QED BY <2>1, <1>5
<1>7. from = [i \in 1 .. n + 1 |-> from[i]]
  BY DEF Pieces
<1> QED BY <1>1, <1>2, <1>6, <1>7 DEF Joined

(* If a reader comes from st[i - 1] to st[i] over each piece that is good, *)
(* and nowhere over the others, it comes to the last over all of them.     *)
Leads(n, part, st, good) ==
  \A i \in 1 .. n : ReadFrom(st[i - 1], part[i]) = IF i \in good THEN st[i] ELSE NotJson

LEMMA PiecesRead ==
  ASSUME NEW n \in Nat, NEW part \in [1 .. n -> Texts], NEW last \in Texts,
         NEW from, Pieces(n, part, last, from), NEW st, NEW good,
         Leads(n, part, st, good)
  PROVE  ReadFrom(st[0], from[1]) = IF 1 .. n \subseteq good THEN ReadFrom(st[n], last) ELSE NotJson
<1>1. Joined(n, part, last, from)
  BY PiecesJoin
<1>2. /\ from \in [1 .. n + 1 -> Texts] /\ from[n + 1] = last
      /\ \A i \in 1 .. n : from[i] = part[i] \o from[i + 1]
  BY <1>1 DEF Joined
<1> DEFINE Result(i) == IF i .. n \subseteq good THEN ReadFrom(st[n], last) ELSE NotJson
           T == { k \in 0 .. n : ReadFrom(st[n - k], from[n - k + 1]) = Result(n - k + 1) }
<1>3. 0 \in T
  <2>1. n - 0 = n /\ (n + 1) .. n = {} /\ 0 \in 0 .. n
    OBVIOUS
  <2> QED BY <2>1, <1>2
<1>4. ASSUME NEW k \in 1 .. n, k - 1 \in T PROVE k \in T
  <2> DEFINE i == n - k + 1
  <2>1. /\ i \in 1 .. n /\ i - 1 = n - k /\ n - (k - 1) = i /\ i + 1 \in 1 .. n + 1
        /\ k \in 0 .. n
    OBVIOUS
  <2>2. ReadFrom(st[i], from[i + 1]) = Result(i + 1)
    BY <1>4, <2>1
  <2> HIDE DEF i
  <2>3. from[i] = part[i] \o from[i + 1] /\ from[i + 1] \in Texts
    BY <2>1, <1>2
  <2>4. part[i] \in Texts
    BY <2>1
  <2>5. ReadFrom(st[i - 1], from[i]) = ReadFrom(ReadFrom(st[i - 1], part[i]), from[i + 1])
    BY <2>3, <2>4, TextsJoin
  <2>6. ReadFrom(st[i - 1], part[i]) = IF i \in good THEN st[i] ELSE NotJson
    BY <2>1 DEF Leads
  <2>7. ReadFrom(NotJson, from[i + 1]) = NotJson
    BY <2>3, NotJsonStaysSo
  <2>8. ReadFrom(st[i - 1], from[i]) = IF i \in good THEN Result(i + 1) ELSE NotJson
    BY <2>2, <2>5, <2>6, <2>7
  <2>9. i .. n \subseteq good <=> i \in good /\ (i + 1) .. n \subseteq good
    <3>1. i .. n = {i} \cup (i + 1) .. n
      BY <2>1
    <3> QED BY <3>1
  <2>10. ReadFrom(st[i - 1], from[i]) = Result(i)
    BY <2>8, <2>9
  <2> QED BY <2>1, <2>10 DEF i
<1>5. n \in T
  <2> HIDE DEF T
  <2>1. 0 .. n \subseteq T
    BY <1>3, <1>4, BoundedInduction
  <2> QED BY <2>1
<1>6. n - n = 0 /\ 0 + 1 = 1
  OBVIOUS
<1> QED BY <1>5, <1>6

-----------------------------------------------------------------------------
(* A string: it is read if all of its characters are.                      *)
LEMMA ReadTwo == ASSUME NEW r, NEW d, NEW e PROVE ReadFrom(r, <<d, e>>) = Reads(Reads(r, d), e)
<1> DEFINE t == <<d, e>>
<1>1. t \in Seq({d, e}) /\ Len(t) = 2 /\ t[1] = d /\ t[2] = e
  OBVIOUS
<1> HIDE DEF t
<1>2. PICK after : Follows(r, t, after)
  BY <1>1, ReadFromCourse
<1>3. /\ after[1] = Reads(after[1 - 1], t[1]) /\ after[2] = Reads(after[2 - 1], t[2])
      /\ 1 - 1 = 0 /\ 2 - 1 = 1 /\ ReadFrom(r, t) = after[2] /\ after[0] = r
  BY <1>1, <1>2 DEF Follows
<1> QED BY <1>1, <1>3 DEF t

LEMMA CharacterRead ==
  ASSUME NEW outer, NEW read, NEW e \in Characters
  PROVE  /\ serialize_character(e) \in Texts
         /\ ReadFrom(Reader("text", read, outer), serialize_character(e)) =
              IF e = "control" THEN NotJson ELSE Reader("text", Append(read, e), outer)
<1> DEFINE r == Reader("text", read, outer)  q == Reader("escape", read, outer)
<1>1. \A x : Reads(r, x) = InText(r, x) /\ Reads(q, x) = InEscape(q, x)
  BY DEF Reads, Reader
<1>2. /\ r.read = read /\ r.outer = outer /\ q.read = read /\ q.outer = outer
      /\ r.in = "text" /\ q.in = "escape"
  BY DEF Reader
<1>3. Reads(r, "backslash") = q
  BY <1>1, <1>2 DEF InText
<1> HIDE DEF r, q
<1>4. CASE e \in {"quote", "backslash", "slash"}
  <2>1. serialize_character(e) = <<"backslash", e>>
    BY <1>4 DEF serialize_character
  <2>2. Reads(q, e) = Reader("text", Append(read, e), outer) /\ e # "control"
    BY <1>1, <1>2, <1>4 DEF InEscape, Unescaped
  <2>3. "backslash" \in Characters
    BY DEF Characters
  <2>4. <<"backslash", e>> \in Texts
    BY <2>3, ShortTexts
  <2>5. ReadFrom(r, <<"backslash", e>>) = Reads(q, e)
    BY <1>3, ReadTwo
  <2> QED BY <2>1, <2>2, <2>4, <2>5 DEF r
<1>5. CASE e = "newline"
  <2>1. serialize_character(e) = <<"backslash", "n">>
    BY <1>5 DEF serialize_character
  <2>2. Reads(q, "n") = Reader("text", Append(read, e), outer) /\ e # "control"
    BY <1>1, <1>2, <1>5 DEF InEscape, Unescaped
  <2>3. "backslash" \in Characters /\ "n" \in Characters
    BY DEF Characters
  <2>4. <<"backslash", "n">> \in Texts
    BY <2>3, ShortTexts
  <2>5. ReadFrom(r, <<"backslash", "n">>) = Reads(q, "n")
    BY <1>3, ReadTwo
  <2> QED BY <2>1, <2>2, <2>4, <2>5 DEF r
<1>6. CASE e \notin {"quote", "backslash", "slash", "newline"}
  <2>1. serialize_character(e) = <<e>>
    BY <1>6 DEF serialize_character
  <2>2. Reads(r, e) = IF e = "control" THEN NotJson ELSE Reader("text", Append(read, e), outer)
    BY <1>1, <1>2, <1>6 DEF InText
  <2> QED BY <2>1, <2>2, ReadOne, ShortTexts DEF r
<1> QED BY <1>4, <1>5, <1>6

LEMMA SubSeqGrows ==
  ASSUME NEW S, NEW s \in Seq(S), NEW i \in 1 .. Len(s)
  PROVE  SubSeq(s, 1, i) = Append(SubSeq(s, 1, i - 1), s[i])
<1>1. Len(s) \in Nat /\ 1 \in 1 .. Len(s) /\ i \in 1 .. Len(s) /\ s[i] \in S
  BY LenProperties, ElementOfSeq
<1>2. SubSeq(s, 1, i) = SubSeq(s, 1, i - 1) \o <<s[i]>>
  BY <1>1, SubSeqRecursiveSecond
<1>3. SubSeq(s, 1, i - 1) \in Seq(S)
  <2>1. \A j \in 1 .. i - 1 : s[j] \in S
    BY <1>1, ElementOfSeq
  <2>2. 1 \in Int /\ i - 1 \in Int
    BY <1>1
  <2> QED BY <2>1, <2>2, SubSeqProperties
<1> QED BY <1>1, <1>2, <1>3, AppendIsConcat

LEMMA StringPieces ==
  ASSUME NEW text \in Texts
  PROVE  LET part == [i \in 1 .. Len(text) |-> serialize_character(text[i])]
         IN  /\ part \in [1 .. Len(text) -> Texts]
             /\ \E from : /\ Pieces(Len(text), part, <<"quote">>, from)
                          /\ serialize_string(text) = <<"quote">> \o from[1]
<1> DEFINE n == Len(text)
           part == [i \in 1 .. n |-> serialize_character(text[i])]
           f == CHOOSE f : f = [i \in 1 .. n + 1 |->
                                  IF i > n THEN <<"quote">> ELSE serialize_character(text[i]) \o f[i + 1]]
<1>1. n \in Nat /\ \A i \in 1 .. n : text[i] \in Characters
  BY TextIs
<1>2. part \in [1 .. n -> Texts] /\ <<"quote">> \in Texts
  <2>1. "quote" \in Characters
    BY DEF Characters
  <2> QED BY <1>1, <2>1, CharacterRead, ShortTexts
<1>3. serialize_string(text) = <<"quote">> \o f[1]
  BY DEF serialize_string
<1> HIDE DEF n
<1>4. \A g : Pieces(n, part, <<"quote">>, g) <=>
             g = [i \in 1 .. n + 1 |-> IF i > n THEN <<"quote">> ELSE serialize_character(text[i]) \o g[i + 1]]
  <2>1. \A i \in 1 .. n + 1 : ~(i > n) => part[i] = serialize_character(text[i])
    BY <1>1
  <2> HIDE DEF part
  <2> QED BY <2>1 DEF Pieces
<1> HIDE DEF part
<1>5. \E g : Pieces(n, part, <<"quote">>, g)
  BY <1>1, <1>2, PiecesExist
<1>6. Pieces(n, part, <<"quote">>, f)
  BY <1>4, <1>5
<1> HIDE DEF f
<1> QED BY <1>2, <1>3, <1>6 DEF n, part

LEMMA StringRead ==
  ASSUME NEW text \in Texts
  PROVE  /\ serialize_string(text) \in Texts
         /\ \A r : Reads(r, "quote") = Reader("text", <<>>, r) =>
              ReadFrom(r, serialize_string(text)) =
                IF "control" \in ToSet(text) THEN NotJson ELSE Took(r, <<"text", text>>)
<1> DEFINE n == Len(text)
           part == [i \in 1 .. n |-> serialize_character(text[i])]
           quote == <<"quote">>
           good == { i \in 1 .. n : text[i] # "control" }
<1>1. n \in Nat /\ \A i \in 1 .. n : text[i] \in Characters
  BY TextIs
<1>2. quote \in Texts
  <2>1. "quote" \in Characters
    BY DEF Characters
  <2> QED BY <2>1, ShortTexts
<1>3. part \in [1 .. n -> Texts]
  BY StringPieces
<1>4. PICK from : Pieces(n, part, quote, from) /\ serialize_string(text) = quote \o from[1]
  BY StringPieces
<1>5. \A i \in 1 .. n : part[i] = serialize_character(text[i])
  OBVIOUS
<1>6. 1 .. n \subseteq good <=> "control" \notin ToSet(text)
  BY <1>1, TextIs DEF ToSet
<1>7. \A i \in 1 .. n : i \in good <=> text[i] # "control"
  OBVIOUS
<1> HIDE DEF n, part, good, quote
<1>8. from[1] \in Texts
  <2>1. 1 \in 1 .. n + 1
    BY <1>1
  <2>2. Joined(n, part, quote, from)
    BY <1>1, <1>2, <1>3, <1>4, PiecesJoin
  <2> QED BY <2>1, <2>2 DEF Joined
<1>9. serialize_string(text) \in Texts
  BY <1>2, <1>4, <1>8, TextsJoin
<1>10. ASSUME NEW r, Reads(r, "quote") = Reader("text", <<>>, r)
       PROVE  ReadFrom(r, serialize_string(text)) =
                IF "control" \in ToSet(text) THEN NotJson ELSE Took(r, <<"text", text>>)
  <2> DEFINE st == [i \in 0 .. n |-> Reader("text", SubSeq(text, 1, i), r)]
  <2>1. st[0] = Reader("text", <<>>, r) /\ st[n] = Reader("text", text, r)
    <3>1. SubSeq(text, 1, 0) = <<>> /\ SubSeq(text, 1, n) = text
      BY SubSeqFull, SubSeqEmpty DEF n, Texts
    <3>2. 0 \in 0 .. n /\ n \in 0 .. n
      BY <1>1
    <3> QED BY <3>1, <3>2
  <2>2. ASSUME NEW i \in 1 .. n
        PROVE  ReadFrom(st[i - 1], part[i]) = IF i \in good THEN st[i] ELSE NotJson
    <3>1. i \in 0 .. n /\ i - 1 \in 0 .. n
      BY <1>1
    <3>2. st[i - 1] = Reader("text", SubSeq(text, 1, i - 1), r) /\ st[i] = Reader("text", SubSeq(text, 1, i), r)
      BY <3>1
    <3> HIDE DEF st
    <3>3. SubSeq(text, 1, i) = Append(SubSeq(text, 1, i - 1), text[i])
      BY SubSeqGrows DEF n, Texts
    <3>4. ReadFrom(st[i - 1], serialize_character(text[i])) =
            IF text[i] = "control" THEN NotJson
            ELSE Reader("text", Append(SubSeq(text, 1, i - 1), text[i]), r)
      BY <1>1, <3>2, CharacterRead
    <3> QED BY <1>5, <1>7, <3>2, <3>3, <3>4
  <2>3. Reads(Reader("text", text, r), "quote") = Took(r, <<"text", text>>)
    BY DEF Reads, InText, Reader
  <2> HIDE DEF st
  <2>4. Leads(n, part, st, good)
    BY <2>2 DEF Leads
  <2>5. ReadFrom(st[0], from[1]) = IF 1 .. n \subseteq good THEN ReadFrom(st[n], quote) ELSE NotJson
    BY <1>1, <1>2, <1>3, <1>4, <2>4, PiecesRead
  <2>6. ReadFrom(st[n], quote) = Took(r, <<"text", text>>)
    BY <2>1, <2>3, ReadOne DEF quote
  <2>7. ReadFrom(r, quote \o from[1]) = ReadFrom(ReadFrom(r, quote), from[1])
    BY <1>2, <1>8, TextsJoin
  <2>8. ReadFrom(r, quote) = st[0]
    BY <1>10, <2>1, ReadOne DEF quote
  <2> QED BY <1>4, <1>6, <2>5, <2>6, <2>7, <2>8
<1> QED BY <1>9, <1>10

-----------------------------------------------------------------------------
(* Elements with commas between them: st[i] is where the reader is after i *)
(* of them, ready[i] where it is before it reads the i-th.                 *)
Comma(i) == IF i = 1 THEN <<>> ELSE <<",">>

LEMMA SeparatedPieces ==
  ASSUME NEW texts \in Seq(Texts)
  PROVE  LET part == [i \in 1 .. Len(texts) |-> Comma(i) \o texts[i]]
         IN  /\ part \in [1 .. Len(texts) -> Texts]
             /\ \E from : Pieces(Len(texts), part, <<>>, from) /\ Separated(texts) = from[1]
<1> DEFINE n == Len(texts)
           part == [i \in 1 .. n |-> Comma(i) \o texts[i]]
           f == CHOOSE f : f = [i \in 1 .. n + 1 |->
                  IF i > n THEN <<>> ELSE Comma(i) \o texts[i] \o f[i + 1]]
<1>1. n \in Nat /\ \A i \in 1 .. n : texts[i] \in Texts
  BY LenProperties, ElementOfSeq
<1>2. <<>> \in Texts /\ <<",">> \in Texts
  <2>1. "," \in Characters
    BY DEF Characters
  <2>2. <<>> \in Texts
    BY DEF Texts
  <2> QED BY <2>1, <2>2, ShortTexts
<1>3. part \in [1 .. n -> Texts]
  <2>1. \A i : Comma(i) \in Texts
    BY <1>2 DEF Comma
  <2> QED BY <1>1, <2>1, TextsJoin
<1>4. Separated(texts) = f[1]
  BY DEF Separated, Comma
<1> HIDE DEF n
<1>5. \A g : Pieces(n, part, <<>>, g) <=>
             g = [i \in 1 .. n + 1 |->
                    IF i > n THEN <<>> ELSE Comma(i) \o texts[i] \o g[i + 1]]
  <2>1. \A i \in 1 .. n + 1 : ~(i > n) => part[i] = Comma(i) \o texts[i]
    BY <1>1
  <2> HIDE DEF part
  <2> QED BY <2>1 DEF Pieces
<1> HIDE DEF part
<1>6. \E g : Pieces(n, part, <<>>, g)
  BY <1>1, <1>2, <1>3, PiecesExist
<1>7. Pieces(n, part, <<>>, f)
  BY <1>5, <1>6
<1> HIDE DEF f
<1> QED BY <1>3, <1>4, <1>7 DEF n, part

ReadsElements(texts, st, ready, good) ==
  /\ \A i \in 1 .. Len(texts) :
       ready[i] = IF i = 1 THEN st[0] ELSE Reads(st[i - 1], ",")
  /\ \A i \in 1 .. Len(texts) :
       ReadFrom(ready[i], texts[i]) = IF i \in good THEN st[i] ELSE NotJson

LEMMA SeparatedIsText == ASSUME NEW texts \in Seq(Texts) PROVE Separated(texts) \in Texts
<1> DEFINE n == Len(texts)
           part == [i \in 1 .. n |-> Comma(i) \o texts[i]]
<1>1. n \in Nat /\ <<>> \in Texts
  BY LenProperties DEF Texts
<1>2. part \in [1 .. n -> Texts]
  BY SeparatedPieces
<1>3. PICK from : Pieces(n, part, <<>>, from) /\ Separated(texts) = from[1]
  BY SeparatedPieces
<1> HIDE DEF n, part
<1>4. Joined(n, part, <<>>, from)
  BY <1>1, <1>2, <1>3, PiecesJoin
<1>5. 1 \in 1 .. n + 1
  BY <1>1
<1> QED BY <1>3, <1>4, <1>5 DEF Joined

LEMMA SeparatedRead ==
  ASSUME NEW texts \in Seq(Texts), NEW st, NEW ready, NEW good,
         ReadsElements(texts, st, ready, good)
  PROVE  ReadFrom(st[0], Separated(texts)) =
           IF 1 .. Len(texts) \subseteq good THEN st[Len(texts)] ELSE NotJson
<1> DEFINE n == Len(texts)
           part == [i \in 1 .. n |-> Comma(i) \o texts[i]]
<1>1. n \in Nat /\ \A i \in 1 .. n : texts[i] \in Texts
  BY LenProperties, ElementOfSeq
<1>2. <<>> \in Texts /\ <<",">> \in Texts
  <2>1. "," \in Characters
    BY DEF Characters
  <2>2. <<>> \in Texts
    BY DEF Texts
  <2> QED BY <2>1, <2>2, ShortTexts
<1>3. part \in [1 .. n -> Texts]
  BY SeparatedPieces
<1>4. PICK from : Pieces(n, part, <<>>, from) /\ Separated(texts) = from[1]
  BY SeparatedPieces
<1>5. \A i \in 1 .. n : part[i] = Comma(i) \o texts[i]
  OBVIOUS
<1>6. /\ \A i \in 1 .. n : ready[i] = IF i = 1 THEN st[0] ELSE Reads(st[i - 1], ",")
      /\ \A i \in 1 .. n : ReadFrom(ready[i], texts[i]) = IF i \in good THEN st[i] ELSE NotJson
  BY DEF ReadsElements
<1> HIDE DEF n, part
<1>7. ASSUME NEW i \in 1 .. n
      PROVE  ReadFrom(st[i - 1], part[i]) = IF i \in good THEN st[i] ELSE NotJson
  <2>1. texts[i] \in Texts
    BY <1>1
  <2>2. CASE i = 1
    <3>1. part[i] = <<>> \o texts[i] /\ i - 1 = 0
      <4>1. Comma(i) = <<>> /\ part[i] = Comma(i) \o texts[i]
        BY <1>5, <2>2 DEF Comma
      <4> QED BY <4>1, <2>2
    <3>2. ReadFrom(st[0], <<>> \o texts[i]) = ReadFrom(ReadFrom(st[0], <<>>), texts[i])
      BY <1>2, <2>1, TextsJoin
    <3>3. ReadFrom(st[0], <<>>) = ready[i]
      BY <1>6, <2>2, ReadNothing
    <3> QED BY <1>6, <3>1, <3>2, <3>3
  <2>3. CASE i # 1
    <3>1. part[i] = <<",">> \o texts[i]
      <4>1. Comma(i) = <<",">> /\ part[i] = Comma(i) \o texts[i]
        BY <1>5, <2>3 DEF Comma
      <4> QED BY <4>1
    <3>2. ReadFrom(st[i - 1], <<",">> \o texts[i]) = ReadFrom(ReadFrom(st[i - 1], <<",">>), texts[i])
      BY <1>2, <2>1, TextsJoin
    <3>3. ReadFrom(st[i - 1], <<",">>) = ready[i]
      BY <1>6, <2>3, ReadOne
    <3> QED BY <1>6, <3>1, <3>2, <3>3
  <2> QED BY <2>2, <2>3
<1>8. Leads(n, part, st, good)
  BY <1>7 DEF Leads
<1>9. ReadFrom(st[0], from[1]) = IF 1 .. n \subseteq good THEN ReadFrom(st[n], <<>>) ELSE NotJson
  BY <1>1, <1>2, <1>3, <1>4, <1>8, PiecesRead
<1>10. ReadFrom(st[n], <<>>) = st[n]
  BY ReadNothing
<1> QED BY <1>4, <1>9, <1>10 DEF n

-----------------------------------------------------------------------------
(* The document.  What a reader is in the middle of when a value may come. *)
Expects(r) == r.in \in {"document", "first item", "item", "member"}

(* A text that is read as what it is wherever it comes, if it is plain.    *)
Readable(text, plain, is) ==
  /\ text \in Texts
  /\ \A r : Expects(r) => ReadFrom(r, text) = IF plain THEN Took(r, is) ELSE NotJson

(* An order of the keys has every one of them.                             *)
LEMMA InOrderIs ==
  ASSUME NEW obj, IsFiniteSet(DOMAIN obj)
  PROVE  /\ InOrder(obj) \in Seq(DOMAIN obj)
         /\ \A k \in DOMAIN obj : \E i \in 1 .. Len(InOrder(obj)) : InOrder(obj)[i] = k
<1> DEFINE K == DOMAIN obj  n == Cardinality(K)  keys == InOrder(obj)
<1>1. n \in Nat /\ ExistsBijection(1 .. n, K)
  BY FS_CardinalityType
<1>2. keys = CHOOSE f \in [1 .. n -> K] : IsInjective(f)
  BY DEF InOrder, SetToSeq
<1>3. \E f \in [1 .. n -> K] : IsInjective(f)
  BY <1>1 DEF ExistsBijection, Bijection, Injection
<1> HIDE DEF n, K
<1>4. keys \in [1 .. n -> K] /\ IsInjective(keys)
  BY <1>2, <1>3
<1> HIDE DEF keys
<1>5. keys \in Injection(1 .. n, K)
  BY <1>4 DEF Injection
<1>6. keys \in Surjection(1 .. n, K)
  <2>1. Cardinality(1 .. n) = n
    <3>1. 1 \in Int /\ n \in Int
      BY <1>1
    <3>2. Cardinality(1 .. n) = IF 1 > n THEN 0 ELSE n - 1 + 1
      BY <3>1, FS_Interval
    <3> QED BY <3>2, <1>1
  <2>2. IsFiniteSet(K)
    BY DEF K
  <2>3. Cardinality(1 .. n) = Cardinality(K)
    BY <2>1 DEF n
  <2> QED BY <1>5, <2>2, <2>3, FS_Injection
<1>7. keys \in Seq(K) /\ Len(keys) = n
  <2>1. DOMAIN keys = 1 .. n /\ \A i \in 1 .. n : keys[i] \in K
    BY <1>4
  <2>2. keys \in [1 .. n -> K]
    BY <1>4
  <2> QED BY <1>1, <2>2, IsASeq, LenProperties
<1>8. \A k \in K : \E i \in 1 .. n : keys[i] = k
  BY <1>6 DEF Surjection
<1> QED BY <1>7, <1>8 DEF K, keys

(* Between brackets.                                                       *)
LEMMA Bracketed ==
  ASSUME NEW b \in Characters, NEW e \in Characters, NEW text \in Texts
  PROVE  /\ <<b>> \o text \o <<e>> \in Texts
         /\ \A r : ReadFrom(r, <<b>> \o text \o <<e>>) = Reads(ReadFrom(Reads(r, b), text), e)
<1>1. <<b>> \in Texts /\ <<e>> \in Texts
  BY ShortTexts
<1>2. <<b>> \o text \in Texts /\ (<<b>> \o text) \o <<e>> \in Texts
  BY <1>1, TextsJoin
<1>3. ASSUME NEW r
      PROVE  ReadFrom(r, (<<b>> \o text) \o <<e>>) = Reads(ReadFrom(Reads(r, b), text), e)
  <2>1. ReadFrom(r, (<<b>> \o text) \o <<e>>) = ReadFrom(ReadFrom(r, <<b>> \o text), <<e>>)
    BY <1>1, <1>2, TextsJoin
  <2>2. ReadFrom(r, <<b>> \o text) = ReadFrom(ReadFrom(r, <<b>>), text)
    BY <1>1, TextsJoin
  <2> QED BY <2>1, <2>2, ReadOne
<1> QED BY <1>2, <1>3

LEMMA NotJsonReads == ASSUME NEW e PROVE Reads(NotJson, e) = NotJson
BY DEF Reads, Outside, NotJson, Reader

(* How an array is read, one character of it and one value at a time.      *)
LEMMA ArrayMoves ==
  ASSUME NEW r, NEW read
  PROVE  /\ Expects(r) => Reads(r, "[") = Reader("first item", <<>>, r)
         /\ Reads(Reader("after item", read, r), ",") = Reader("item", read, r)
         /\ \A in \in {"first item", "item"} :
              /\ Expects(Reader(in, read, r))
              /\ \A v : Took(Reader(in, read, r), v) = Reader("after item", Append(read, v), r)
         /\ \A in \in {"first item", "after item"} :
              Reads(Reader(in, read, r), "]") = Took(r, <<"array", read>>)
<1>1. Expects(r) => Reads(r, "[") = Reader("first item", <<>>, r)
  BY DEF Expects, Reads, Outside
<1>2. Reads(Reader("after item", read, r), ",") = Reader("item", read, r)
  <2> DEFINE q == Reader("after item", read, r)
  <2>1. q.in = "after item" /\ q.read = read /\ q.outer = r
    BY DEF Reader
  <2> HIDE DEF q
  <2>2. Reads(q, ",") = Reader("item", read, r)
    BY <2>1 DEF Reads, Outside
  <2> QED BY <2>2 DEF q
<1>3. ASSUME NEW in \in {"first item", "item"}
      PROVE  /\ Expects(Reader(in, read, r))
             /\ \A v : Took(Reader(in, read, r), v) = Reader("after item", Append(read, v), r)
  <2> DEFINE q == Reader(in, read, r)
  <2>1. q.in = in /\ q.read = read /\ q.outer = r
    BY DEF Reader
  <2> HIDE DEF q
  <2>2. Expects(q) /\ \A v : Took(q, v) = Reader("after item", Append(read, v), r)
    BY <2>1 DEF Expects, Took
  <2> QED BY <2>2 DEF q
<1>4. ASSUME NEW in \in {"first item", "after item"}
      PROVE  Reads(Reader(in, read, r), "]") = Took(r, <<"array", read>>)
  <2> DEFINE q == Reader(in, read, r)
  <2>1. q.in = in /\ q.read = read /\ q.outer = r
    BY DEF Reader
  <2> HIDE DEF q
  <2>2. Reads(q, "]") = Took(r, <<"array", read>>)
    BY <2>1 DEF Reads, Outside
  <2> QED BY <2>2 DEF q
<1> QED BY <1>1, <1>2, <1>3, <1>4

LEMMA ArrayRead ==
  ASSUME NEW texts \in Seq(Texts), NEW M, NEW is \in Seq(M), Len(is) = Len(texts), NEW good,
         \A i \in 1 .. Len(texts) : Readable(texts[i], i \in good, is[i])
  PROVE  Readable(<<"[">> \o Separated(texts) \o <<"]">>, 1 .. Len(texts) \subseteq good, <<"array", is>>)
<1>1. "[" \in Characters /\ "]" \in Characters
  BY DEF Characters
<1>2. <<"[">> \o Separated(texts) \o <<"]">> \in Texts
  <2>1. \A b, e \in Characters, t \in Texts : <<b>> \o t \o <<e>> \in Texts
    BY Bracketed
  <2> QED BY <1>1, <2>1, SeparatedIsText, Zenon
<1> SUFFICES ASSUME NEW r, Expects(r)
    PROVE  ReadFrom(r, <<"[">> \o Separated(texts) \o <<"]">>) =
             IF 1 .. Len(texts) \subseteq good THEN Took(r, <<"array", is>>) ELSE NotJson
  BY <1>2 DEF Readable
<1> DEFINE n == Len(texts)
           st == [i \in 0 .. n |-> Reader(IF i = 0 THEN "first item" ELSE "after item", SubSeq(is, 1, i), r)]
           ready == [i \in 1 .. n |-> Reader(IF i = 1 THEN "first item" ELSE "item", SubSeq(is, 1, i - 1), r)]
<1>3. n \in Nat /\ n = Len(is) /\ \A i \in 1 .. n : texts[i] \in Texts
  BY LenProperties, ElementOfSeq
<1>4. \A i \in 0 .. n : st[i] = Reader(IF i = 0 THEN "first item" ELSE "after item", SubSeq(is, 1, i), r)
  OBVIOUS
<1>5. \A i \in 1 .. n :
        ready[i] = Reader(IF i = 1 THEN "first item" ELSE "item", SubSeq(is, 1, i - 1), r)
  OBVIOUS
<1>6. \A i \in 1 .. n : \A q : Expects(q) =>
        ReadFrom(q, texts[i]) = IF i \in good THEN Took(q, is[i]) ELSE NotJson
  BY DEF Readable
<1> HIDE DEF n, st, ready
<1>7. ASSUME NEW i \in 1 .. n PROVE ready[i] = IF i = 1 THEN st[0] ELSE Reads(st[i - 1], ",")
  <2>1. CASE i = 1
    <3>1. 0 \in 0 .. n /\ i - 1 = 0
      BY <1>3, <2>1
    <3> QED BY <1>4, <1>5, <2>1, <3>1
  <2>2. CASE i # 1
    <3>1. i - 1 \in 0 .. n /\ i - 1 # 0
      BY <1>3, <2>2
    <3>2. st[i - 1] = Reader("after item", SubSeq(is, 1, i - 1), r)
      BY <1>4, <3>1
    <3>3. ready[i] = Reader("item", SubSeq(is, 1, i - 1), r)
      BY <1>5, <2>2
    <3> QED BY <2>2, <3>2, <3>3, ArrayMoves
  <2> QED BY <2>1, <2>2
<1>8. ASSUME NEW i \in 1 .. n
      PROVE  ReadFrom(ready[i], texts[i]) = IF i \in good THEN st[i] ELSE NotJson
  <2> DEFINE in == IF i = 1 THEN "first item" ELSE "item"
  <2>1. in \in {"first item", "item"} /\ i \in 0 .. n /\ i # 0
    BY <1>3
  <2>2. ready[i] = Reader(in, SubSeq(is, 1, i - 1), r)
    BY <1>5
  <2> HIDE DEF in
  <2>3. SubSeq(is, 1, i) = Append(SubSeq(is, 1, i - 1), is[i])
    BY <1>3, SubSeqGrows
  <2>4. st[i] = Reader("after item", Append(SubSeq(is, 1, i - 1), is[i]), r)
    BY <1>4, <2>1, <2>3
  <2>5. Expects(ready[i]) /\ Took(ready[i], is[i]) = st[i]
    BY <2>1, <2>2, <2>4, ArrayMoves
  <2> QED BY <1>6, <2>5
<1>9. ReadFrom(st[0], Separated(texts)) = IF 1 .. n \subseteq good THEN st[n] ELSE NotJson
  <2>1. ReadsElements(texts, st, ready, good)
    BY <1>7, <1>8 DEF n, ReadsElements
  <2> QED BY <2>1, SeparatedRead DEF n
<1>10. st[0] = Reader("first item", <<>>, r)
  <2>1. 0 \in 0 .. n /\ SubSeq(is, 1, 0) = <<>>
    BY <1>3, SubSeqEmpty
  <2> QED BY <1>4, <2>1
<1>11. Reads(st[n], "]") = Took(r, <<"array", is>>)
  <2> DEFINE in == IF n = 0 THEN "first item" ELSE "after item"
  <2>1. n \in 0 .. n /\ in \in {"first item", "after item"}
    BY <1>3
  <2>2. SubSeq(is, 1, n) = is
    BY <1>3, SubSeqFull
  <2>3. st[n] = Reader(in, is, r)
    BY <1>4, <2>1, <2>2
  <2> HIDE DEF in
  <2> QED BY <2>1, <2>3, ArrayMoves
<1>12. Separated(texts) \in Texts /\ "[" \in Characters /\ "]" \in Characters
  BY <1>1, SeparatedIsText
<1>13. ReadFrom(r, <<"[">> \o Separated(texts) \o <<"]">>) =
         Reads(ReadFrom(Reads(r, "["), Separated(texts)), "]")
  <2>1. \A b, e \in Characters, t \in Texts :
          ReadFrom(r, <<b>> \o t \o <<e>>) = Reads(ReadFrom(Reads(r, b), t), e)
    BY Bracketed
  <2> QED BY <1>12, <2>1, Zenon
<1>14. Reads(r, "[") = st[0]
  BY <1>10, ArrayMoves
<1>15. ReadFrom(r, <<"[">> \o Separated(texts) \o <<"]">>) =
         IF 1 .. n \subseteq good THEN Took(r, <<"array", is>>) ELSE NotJson
  BY <1>9, <1>11, <1>13, <1>14, NotJsonReads
<1> QED BY <1>15 DEF n

(* How an object is read.                                                  *)
LEMMA ObjectMoves ==
  ASSUME NEW r, NEW read
  PROVE  /\ Expects(r) => Reads(r, "{") = Reader("first key", {}, r)
         /\ Reads(Reader("after member", read, r), ",") = Reader("key", read, r)
         /\ \A in \in {"first key", "after member"} :
              Reads(Reader(in, read, r), "}") = Took(r, <<"object", read>>)
<1>1. Expects(r) => Reads(r, "{") = Reader("first key", {}, r)
  BY DEF Expects, Reads, Outside
<1>2. Reads(Reader("after member", read, r), ",") = Reader("key", read, r)
  <2> DEFINE q == Reader("after member", read, r)
  <2>1. q.in = "after member" /\ q.read = read /\ q.outer = r
    BY DEF Reader
  <2> HIDE DEF q
  <2>2. Reads(q, ",") = Reader("key", read, r)
    BY <2>1 DEF Reads, Outside
  <2> QED BY <2>2 DEF q
<1>3. ASSUME NEW in \in {"first key", "after member"}
      PROVE  Reads(Reader(in, read, r), "}") = Took(r, <<"object", read>>)
  <2> DEFINE q == Reader(in, read, r)
  <2>1. q.in = in /\ q.read = read /\ q.outer = r
    BY DEF Reader
  <2> HIDE DEF q
  <2>2. Reads(q, "}") = Took(r, <<"object", read>>)
    BY <2>1 DEF Reads, Outside
  <2> QED BY <2>2 DEF q
<1> QED BY <1>1, <1>2, <1>3

(* A name, a colon and a value are a member of the object they are in.     *)
InObject(q, read, r) ==
  /\ Reads(q, "quote") = Reader("text", <<>>, q)
  /\ \A key : /\ Took(q, <<"text", key>>) = Reader("after key", key, q)
              /\ Reads(Reader("after key", key, q), ":") = Reader("member", key, q)
              /\ Expects(Reader("member", key, q))
              /\ \A v : Took(Reader("member", key, q), v) =
                          Reader("after member", read \cup {<<key, v>>}, r)

LEMMA MemberMoves ==
  ASSUME NEW in \in {"first key", "key"}, NEW read, NEW r
  PROVE  InObject(Reader(in, read, r), read, r)
<1> DEFINE q == Reader(in, read, r)
<1>1. q.in = in /\ q.read = read /\ q.outer = r
  BY DEF Reader
<1> HIDE DEF q
<1>2. Reads(q, "quote") = Reader("text", <<>>, q)
  BY <1>1 DEF Reads, Outside
<1>3. ASSUME NEW key
      PROVE  /\ Took(q, <<"text", key>>) = Reader("after key", key, q)
             /\ Reads(Reader("after key", key, q), ":") = Reader("member", key, q)
             /\ Expects(Reader("member", key, q))
             /\ \A v : Took(Reader("member", key, q), v) =
                         Reader("after member", read \cup {<<key, v>>}, r)
  <2> DEFINE a == Reader("after key", key, q)  m == Reader("member", key, q)
             text == <<"text", key>>
  <2>1. /\ a.in = "after key" /\ a.read = key /\ a.outer = q
        /\ m.in = "member" /\ m.read = key /\ m.outer = q /\ text[2] = key
    BY DEF Reader
  <2> HIDE DEF text
  <2>2. Took(q, text) = a
    BY <1>1, <2>1 DEF Took
  <2> HIDE DEF a, m
  <2>3. Reads(a, ":") = Reader("member", key, q)
    BY <2>1 DEF Reads, Outside
  <2>4. Expects(m) /\ \A v : Took(m, v) = Reader("after member", read \cup {<<key, v>>}, r)
    BY <1>1, <2>1 DEF Expects, Took
  <2> QED BY <2>2, <2>3, <2>4 DEF a, m, text
<1> QED BY <1>2, <1>3 DEF q, InObject

Member(key, text) == serialize_string(key) \o <<":">> \o text

LEMMA MemberRead ==
  ASSUME NEW key \in Texts, NEW text, NEW plain, NEW is, Readable(text, plain, is),
         NEW in \in {"first key", "key"}, NEW read, NEW r
  PROVE  /\ Member(key, text) \in Texts
         /\ ReadFrom(Reader(in, read, r), Member(key, text)) =
              IF "control" \notin ToSet(key) /\ plain
              THEN Reader("after member", read \cup {<<key, is>>}, r) ELSE NotJson
<1> DEFINE q == Reader(in, read, r)  s == serialize_string(key)
           c == "control" \in ToSet(key)
<1>1. s \in Texts /\ (Reads(q, "quote") = Reader("text", <<>>, q) =>
                         ReadFrom(q, s) = IF c THEN NotJson ELSE Took(q, <<"text", key>>))
  <2>1. key \in Seq(Characters)
    BY DEF Texts
  <2> QED BY <2>1, StringRead DEF Texts
<1>2. text \in Texts /\ <<":">> \in Texts
  <2>1. ":" \in Characters
    BY DEF Characters
  <2> QED BY <2>1, ShortTexts DEF Readable
<1>3. InObject(q, read, r)
  BY MemberMoves
<1> HIDE DEF q, s, c
<1>4. /\ Reads(q, "quote") = Reader("text", <<>>, q)
      /\ Took(q, <<"text", key>>) = Reader("after key", key, q)
      /\ Reads(Reader("after key", key, q), ":") = Reader("member", key, q)
      /\ Expects(Reader("member", key, q))
      /\ Took(Reader("member", key, q), is) = Reader("after member", read \cup {<<key, is>>}, r)
  BY <1>3 DEF InObject
<1>5. s \o <<":">> \in Texts /\ (s \o <<":">>) \o text \in Texts
  BY <1>1, <1>2, TextsJoin
<1>6. ReadFrom(q, (s \o <<":">>) \o text) = ReadFrom(ReadFrom(q, s \o <<":">>), text)
  BY <1>2, <1>5, TextsJoin
<1>7. ReadFrom(q, s \o <<":">>) = Reads(ReadFrom(q, s), ":")
  <2>1. ReadFrom(q, s \o <<":">>) = ReadFrom(ReadFrom(q, s), <<":">>)
    BY <1>1, <1>2, TextsJoin
  <2>2. ReadFrom(ReadFrom(q, s), <<":">>) = Reads(ReadFrom(q, s), ":")
    BY ReadOne
  <2> QED BY <2>1, <2>2
<1>8. ReadFrom(q, s) = IF c THEN NotJson ELSE Reader("after key", key, q)
  BY <1>1, <1>4
<1>9. ReadFrom(q, s \o <<":">>) = IF c THEN NotJson ELSE Reader("member", key, q)
  BY <1>4, <1>7, <1>8, NotJsonReads
<1>10. ReadFrom(Reader("member", key, q), text) =
        IF plain THEN Reader("after member", read \cup {<<key, is>>}, r) ELSE NotJson
  BY <1>4 DEF Readable
<1>11. ReadFrom(q, (s \o <<":">>) \o text) =
         IF ~c /\ plain THEN Reader("after member", read \cup {<<key, is>>}, r) ELSE NotJson
  BY <1>2, <1>6, <1>9, <1>10, NotJsonStaysSo
<1> QED BY <1>5, <1>11 DEF Member, q, s, c

(* The members of an object, whose keys come in any order.                 *)
Members(keys, texts, value, is, good, plain, members) ==
  /\ keys \in Seq(Texts) /\ texts \in Seq(Texts) /\ Len(texts) = Len(keys)
  /\ \A i \in 1 .. Len(keys) :
       texts[i] = Member(keys[i], value[i]) /\ Readable(value[i], i \in good, is[i])
  /\ plain <=> \A i \in 1 .. Len(keys) : "control" \notin ToSet(keys[i]) /\ i \in good
  /\ members = { <<keys[i], is[i]>> : i \in 1 .. Len(keys) }

LEMMA ObjectRead ==
  ASSUME NEW keys, NEW texts, NEW value, NEW is, NEW good, NEW plain, NEW members,
         Members(keys, texts, value, is, good, plain, members)
  PROVE  Readable(<<"{">> \o Separated(texts) \o <<"}">>, plain, <<"object", members>>)
<1>1. keys \in Seq(Texts) /\ texts \in Seq(Texts)
  BY DEF Members
<1>2. "{" \in Characters /\ "}" \in Characters
  BY DEF Characters
<1>3. <<"{">> \o Separated(texts) \o <<"}">> \in Texts
  <2>1. \A b, e \in Characters, t \in Texts : <<b>> \o t \o <<e>> \in Texts
    BY Bracketed
  <2> QED BY <1>2, <1>1, <2>1, SeparatedIsText, Zenon
<1> SUFFICES ASSUME NEW r, Expects(r)
    PROVE  ReadFrom(r, <<"{">> \o Separated(texts) \o <<"}">>) =
             IF plain THEN Took(r, <<"object", members>>) ELSE NotJson
  BY <1>3 DEF Readable
<1> DEFINE n == Len(texts)
           all == { i \in 1 .. n : "control" \notin ToSet(keys[i]) /\ i \in good }
           upto(i) == { <<keys[j], is[j]>> : j \in 1 .. i }
           st == [i \in 0 .. n |-> Reader(IF i = 0 THEN "first key" ELSE "after member", upto(i), r)]
           ready == [i \in 1 .. n |-> Reader(IF i = 1 THEN "first key" ELSE "key", upto(i - 1), r)]
<1>4. /\ n \in Nat /\ n = Len(keys)
      /\ \A i \in 1 .. n : texts[i] \in Texts /\ keys[i] \in Texts
  <2>1. Len(texts) = Len(keys)
    BY DEF Members
  <2> QED BY <1>1, <2>1, LenProperties, ElementOfSeq
<1>5. \A i \in 0 .. n : st[i] = Reader(IF i = 0 THEN "first key" ELSE "after member", upto(i), r)
  OBVIOUS
<1>6. \A i \in 1 .. n : ready[i] = Reader(IF i = 1 THEN "first key" ELSE "key", upto(i - 1), r)
  OBVIOUS
<1>7. \A i \in 1 .. n :
        texts[i] = Member(keys[i], value[i]) /\ Readable(value[i], i \in good, is[i])
  BY <1>4 DEF Members
<1>8. upto(0) = {} /\ \A i \in 1 .. n : upto(i) = upto(i - 1) \cup {<<keys[i], is[i]>>}
  <2>1. ASSUME NEW i \in 1 .. n PROVE 1 .. i = 1 .. i - 1 \cup {i}
    BY <1>4
  <2>2. \A i \in 1 .. n : upto(i) = upto(i - 1) \cup {<<keys[i], is[i]>>}
    BY <2>1
  <2> QED BY <2>2
<1>9. \A i \in 1 .. n : i \in all <=> "control" \notin ToSet(keys[i]) /\ i \in good
  OBVIOUS
<1> HIDE DEF n, st, ready, upto, all
<1>10. ASSUME NEW i \in 1 .. n PROVE ready[i] = IF i = 1 THEN st[0] ELSE Reads(st[i - 1], ",")
  <2>1. CASE i = 1
    <3>1. 0 \in 0 .. n /\ i - 1 = 0
      BY <1>4, <2>1
    <3> QED BY <1>5, <1>6, <2>1, <3>1
  <2>2. CASE i # 1
    <3>1. i - 1 \in 0 .. n /\ i - 1 # 0
      BY <1>4, <2>2
    <3>2. st[i - 1] = Reader("after member", upto(i - 1), r)
      BY <1>5, <3>1
    <3>3. ready[i] = Reader("key", upto(i - 1), r)
      BY <1>6, <2>2
    <3> QED BY <2>2, <3>2, <3>3, ObjectMoves
  <2> QED BY <2>1, <2>2
<1>11. ASSUME NEW i \in 1 .. n
      PROVE  ReadFrom(ready[i], texts[i]) = IF i \in all THEN st[i] ELSE NotJson
  <2> DEFINE in == IF i = 1 THEN "first key" ELSE "key"
  <2>1. in \in {"first key", "key"} /\ i \in 0 .. n /\ i # 0
    BY <1>4
  <2>2. ready[i] = Reader(in, upto(i - 1), r)
    BY <1>6
  <2> HIDE DEF in
  <2>3. st[i] = Reader("after member", upto(i - 1) \cup {<<keys[i], is[i]>>}, r)
    BY <1>5, <1>8, <2>1
  <2>4. ReadFrom(Reader(in, upto(i - 1), r), Member(keys[i], value[i])) =
          IF "control" \notin ToSet(keys[i]) /\ i \in good
          THEN Reader("after member", upto(i - 1) \cup {<<keys[i], is[i]>>}, r) ELSE NotJson
    <3> DEFINE well == i \in good
    <3>1. keys[i] \in Texts /\ Readable(value[i], well, is[i])
      BY <1>4, <1>7
    <3> HIDE DEF well
    <3>2. ReadFrom(Reader(in, upto(i - 1), r), Member(keys[i], value[i])) =
            IF "control" \notin ToSet(keys[i]) /\ well
            THEN Reader("after member", upto(i - 1) \cup {<<keys[i], is[i]>>}, r) ELSE NotJson
      BY <2>1, <3>1, MemberRead
    <3> QED BY <3>2 DEF well
  <2> QED BY <1>7, <1>9, <2>2, <2>3, <2>4
<1>12. ReadFrom(st[0], Separated(texts)) = IF 1 .. n \subseteq all THEN st[n] ELSE NotJson
  <2>1. ReadsElements(texts, st, ready, all)
    BY <1>10, <1>11 DEF n, ReadsElements
  <2> QED BY <1>1, <2>1, SeparatedRead DEF n
<1>13. st[0] = Reader("first key", {}, r)
  <2>1. 0 \in 0 .. n
    BY <1>4
  <2> QED BY <1>5, <1>8, <2>1
<1>14. Reads(st[n], "}") = Took(r, <<"object", upto(n)>>)
  <2> DEFINE in == IF n = 0 THEN "first key" ELSE "after member"
  <2>1. n \in 0 .. n /\ in \in {"first key", "after member"}
    BY <1>4
  <2>2. st[n] = Reader(in, upto(n), r)
    BY <1>5, <2>1
  <2> HIDE DEF in
  <2> QED BY <2>1, <2>2, ObjectMoves
<1>15. Separated(texts) \in Texts /\ "{" \in Characters /\ "}" \in Characters
  BY <1>2, <1>1, SeparatedIsText
<1>16. ReadFrom(r, <<"{">> \o Separated(texts) \o <<"}">>) =
         Reads(ReadFrom(Reads(r, "{"), Separated(texts)), "}")
  <2>1. \A b, e \in Characters, t \in Texts :
          ReadFrom(r, <<b>> \o t \o <<e>>) = Reads(ReadFrom(Reads(r, b), t), e)
    BY Bracketed
  <2> QED BY <1>15, <2>1, Zenon
<1>17. Reads(r, "{") = st[0]
  BY <1>13, ObjectMoves
<1>18. ReadFrom(r, <<"{">> \o Separated(texts) \o <<"}">>) =
         IF 1 .. n \subseteq all THEN Took(r, <<"object", upto(n)>>) ELSE NotJson
  BY <1>12, <1>14, <1>16, <1>17, NotJsonReads
<1>19. 1 .. n \subseteq all <=> plain
  BY <1>4, <1>9 DEF Members
<1>20. upto(n) = members
  BY <1>4 DEF upto, Members
<1> QED BY <1>18, <1>19, <1>20

(* The shape of what the documents are made of: it can be written down     *)
(* because nothing is in itself, not even by way of others.                *)
Acyclic ==
  \E n \in Nat : \E rank \in [Values -> 0 .. n] :
    \A c \in Containers : \A v \in In(c) : rank[v] < rank[c]

Shaped ==
  /\ kind \in [Containers -> {"object", "array"}]
  /\ \A c \in Containers : In(c) \subseteq Values
  /\ \A c \in Containers : kind[c] = "array" => items[c] \in Seq(Values)
  /\ \A c \in Containers : kind[c] = "object" =>
       IsFiniteSet(DOMAIN items[c]) /\ DOMAIN items[c] \subseteq Keys
  /\ Acyclic

WrittenAs(v, text) ==
  CASE v \in Strings -> serialize_string(TextOf[v])
    [] v \in Containers /\ kind[v] = "array" ->
         <<"[">> \o Separated([i \in DOMAIN items[v] |-> text[items[v][i]]]) \o <<"]">>
    [] OTHER ->
         LET keys == InOrder(items[v])
         IN  <<"{">> \o Separated([i \in DOMAIN keys |->
                Member(keys[i], text[items[v][keys[i]]])]) \o <<"}">>

MeantAs(v, of) ==
  CASE v \in Strings       -> <<"text", TextOf[v]>>
    [] v \in Containers /\ kind[v] = "array" ->
         <<"array", [i \in DOMAIN items[v] |-> of[items[v][i]]]>>
    [] OTHER               -> <<"object", { <<k, of[items[v][k]]>> : k \in DOMAIN items[v] }>>

(* The keys of an object in the order they are written in.                 *)
LEMMA KeysAre ==
  ASSUME Shaped, NEW c \in Containers, kind[c] = "object"
  PROVE  /\ InOrder(items[c]) \in Seq(DOMAIN items[c])
         /\ DOMAIN InOrder(items[c]) = 1 .. Len(InOrder(items[c])) /\ Len(InOrder(items[c])) \in Nat
         /\ \A i \in 1 .. Len(InOrder(items[c])) : InOrder(items[c])[i] \in DOMAIN items[c]
         /\ \A k \in DOMAIN items[c] :
              \E i \in 1 .. Len(InOrder(items[c])) : InOrder(items[c])[i] = k
<1> DEFINE obj == items[c]  keys == InOrder(items[c])
<1>1. IsFiniteSet(DOMAIN obj)
  BY DEF Shaped
<1>2. keys \in Seq(DOMAIN obj) /\ \A k \in DOMAIN obj : \E i \in 1 .. Len(keys) : keys[i] = k
  BY <1>1, InOrderIs
<1>3. DOMAIN keys = 1 .. Len(keys) /\ Len(keys) \in Nat
  BY <1>2, LenProperties
<1>4. \A i \in 1 .. Len(keys) : keys[i] \in DOMAIN obj
  BY <1>2, ElementOfSeq
<1> QED BY <1>2, <1>3, <1>4

(* What is written of a value, and what it means, depends on what is in it.*)
LEMMA DependsOnParts ==
  ASSUME Shaped, NEW v \in Values, NEW f, NEW g,
         v \in Containers => \A d \in In(v) : f[d] = g[d]
  PROVE  WrittenAs(v, f) = WrittenAs(v, g) /\ MeantAs(v, f) = MeantAs(v, g)
<1>1. CASE v \in Strings
  <2>1. \A h : WrittenAs(v, h) = serialize_string(TextOf[v])
    BY <1>1, JsonAssumption DEF WrittenAs
  <2>2. \A h : MeantAs(v, h) = <<"text", TextOf[v]>>
    BY <1>1, JsonAssumption DEF MeantAs
  <2> QED BY <2>1, <2>2
<1>2. CASE v \in Containers \ Strings /\ kind[v] = "array"
  <2>1. \A i \in DOMAIN items[v] : f[items[v][i]] = g[items[v][i]]
    BY <1>2 DEF In
  <2>2. [i \in DOMAIN items[v] |-> f[items[v][i]]] = [i \in DOMAIN items[v] |-> g[items[v][i]]]
    BY <2>1
  <2>3. \A h : WrittenAs(v, h) =
          <<"[">> \o Separated([i \in DOMAIN items[v] |-> h[items[v][i]]]) \o <<"]">>
    BY <1>2 DEF WrittenAs
  <2>4. \A h : MeantAs(v, h) = <<"array", [i \in DOMAIN items[v] |-> h[items[v][i]]]>>
    BY <1>2 DEF MeantAs
  <2> QED BY <2>2, <2>3, <2>4
<1>3. CASE v \in Containers \ Strings /\ kind[v] # "array"
  <2> DEFINE keys == InOrder(items[v])
  <2>1. kind[v] = "object"
    BY <1>3 DEF Shaped
  <2>2. \A k \in DOMAIN items[v] : f[items[v][k]] = g[items[v][k]]
    BY <1>3 DEF In
  <2>3. \A i \in DOMAIN keys : keys[i] \in DOMAIN items[v]
    BY <1>3, <2>1, KeysAre
  <2> HIDE DEF keys
  <2>4. [i \in DOMAIN keys |-> Member(keys[i], f[items[v][keys[i]]])] =
        [i \in DOMAIN keys |-> Member(keys[i], g[items[v][keys[i]]])]
    BY <2>2, <2>3
  <2>5. { <<k, f[items[v][k]]>> : k \in DOMAIN items[v] } =
        { <<k, g[items[v][k]]>> : k \in DOMAIN items[v] }
    BY <2>2
  <2>6. \A h : WrittenAs(v, h) =
          <<"{">> \o Separated([i \in DOMAIN keys |-> Member(keys[i], h[items[v][keys[i]]])]) \o <<"}">>
    BY <1>3 DEF WrittenAs, keys
  <2>7. \A h : MeantAs(v, h) = <<"object", { <<k, h[items[v][k]]>> : k \in DOMAIN items[v] }>>
    BY <1>3 DEF MeantAs
  <2> QED BY <2>4, <2>5, <2>6, <2>7
<1> QED BY <1>1, <1>2, <1>3 DEF Values

LEMMA BothExist ==
  ASSUME Shaped
  PROVE  \E text, of : /\ text = [v \in Values |-> WrittenAs(v, text)]
                       /\ of = [v \in Values |-> MeantAs(v, of)]
<1>1. PICK n \in Nat : \E rank \in [Values -> 0 .. n] :
        \A c \in Containers : \A v \in In(c) : rank[v] < rank[c]
  BY DEF Shaped, Acyclic
<1>2. PICK rank \in [Values -> 0 .. n] : \A c \in Containers : \A v \in In(c) : rank[v] < rank[c]
  BY <1>1
<1> DEFINE Upto(k, f, g) == \A v \in Values : rank[v] < k => f[v] = WrittenAs(v, f) /\ g[v] = MeantAs(v, g)
           S == { k \in Nat : \E f, g : Upto(k, f, g) }
<1>3. 0 \in S
  <2>1. \A v \in Values : ~(rank[v] < 0)
    BY <1>2
  <2>2. Upto(0, <<>>, <<>>)
    BY <2>1
  <2> HIDE DEF Upto
  <2> QED BY <2>2
<1>4. ASSUME NEW k \in Nat, k \in S PROVE k + 1 \in S
  <2>1. PICK f, g : Upto(k, f, g)
    BY <1>4
  <2> DEFINE F == [v \in Values |-> WrittenAs(v, f)]  G == [v \in Values |-> MeantAs(v, g)]
  <2>2. ASSUME NEW v \in Values, rank[v] < k + 1 PROVE F[v] = WrittenAs(v, F) /\ G[v] = MeantAs(v, G)
    <3>1. ASSUME v \in Containers, NEW d \in In(v) PROVE f[d] = F[d] /\ g[d] = G[d]
      <4>1. d \in Values
        BY <3>1 DEF Shaped
      <4>2. rank[d] < rank[v]
        BY <1>2, <3>1
      <4>3. rank[d] < k
        BY <1>2, <2>2, <4>1, <4>2
      <4> QED BY <2>1, <4>1, <4>3
    <3>2. F[v] = WrittenAs(v, f) /\ G[v] = MeantAs(v, g)
      OBVIOUS
    <3> HIDE DEF F, G
    <3>3. v \in Containers => \A d \in In(v) : f[d] = F[d]
      BY <3>1
    <3>4. v \in Containers => \A d \in In(v) : g[d] = G[d]
      BY <3>1
    <3>5. WrittenAs(v, f) = WrittenAs(v, F)
      BY <3>3, DependsOnParts
    <3>6. MeantAs(v, g) = MeantAs(v, G)
      BY <3>4, DependsOnParts
    <3> QED BY <3>2, <3>5, <3>6
  <2> HIDE DEF F, G
  <2>3. Upto(k + 1, F, G)
    BY <2>2
  <2> HIDE DEF Upto
  <2> QED BY <2>3
<1>5. PICK f, g : Upto(n + 1, f, g)
  <2> HIDE DEF S
  <2>1. n + 1 \in Nat /\ Nat \subseteq S
    BY <1>3, <1>4, SetInduction
  <2>2. n + 1 \in S
    BY <2>1
  <2> QED BY <2>2 DEF S
<1> DEFINE F == [v \in Values |-> f[v]]  G == [v \in Values |-> g[v]]
<1>6. ASSUME NEW v \in Values PROVE F[v] = WrittenAs(v, F) /\ G[v] = MeantAs(v, G)
  <2>1. rank[v] < n + 1
    BY <1>2
  <2>2. f[v] = WrittenAs(v, f) /\ g[v] = MeantAs(v, g)
    BY <1>5, <2>1
  <2>3. F[v] = f[v] /\ G[v] = g[v]
    OBVIOUS
  <2>4. ASSUME v \in Containers, NEW d \in In(v) PROVE f[d] = F[d] /\ g[d] = G[d]
    BY <2>4 DEF Shaped
  <2> HIDE DEF F, G
  <2>5. WrittenAs(v, f) = WrittenAs(v, F)
    <3>1. v \in Containers => \A d \in In(v) : f[d] = F[d]
      BY <2>4
    <3> QED BY <3>1, DependsOnParts
  <2>6. MeantAs(v, g) = MeantAs(v, G)
    <3>1. v \in Containers => \A d \in In(v) : g[d] = G[d]
      BY <2>4
    <3> QED BY <3>1, DependsOnParts
  <2> QED BY <2>2, <2>3, <2>5, <2>6
<1>7. F = [v \in Values |-> F[v]] /\ G = [v \in Values |-> G[v]]
  OBVIOUS
<1> HIDE DEF F, G
<1>8. F = [v \in Values |-> WrittenAs(v, F)] /\ G = [v \in Values |-> MeantAs(v, G)]
  BY <1>6, <1>7
<1> QED BY <1>8

LEMMA DocumentIs ==
  ASSUME Shaped
  PROVE  \E text, of : /\ text = [v \in Values |-> WrittenAs(v, text)]
                       /\ of = [v \in Values |-> MeantAs(v, of)]
                       /\ \A c : Written(c) = text[c] /\ Meaning(c) = of[c]
<1> DEFINE text == CHOOSE text : text = [v \in Values |-> WrittenAs(v, text)]
           of == CHOOSE of : of = [v \in Values |-> MeantAs(v, of)]
<1>1. \A c : Written(c) = text[c]
  BY DEF Written, WrittenAs, Values, Member
<1>2. \A c : Meaning(c) = of[c]
  BY DEF Meaning, MeantAs, Values
<1>3. text = [v \in Values |-> WrittenAs(v, text)] /\ of = [v \in Values |-> MeantAs(v, of)]
  BY BothExist
<1> HIDE DEF text, of
<1> QED BY <1>1, <1>2, <1>3

(* What is in a container: itself, and what is in what it has.             *)
Closed(c, S) == c \in S /\ \A d \in S \cap Containers : In(d) \subseteq S

LEMMA InsideLeast ==
  ASSUME Shaped, NEW c \in Values
  PROVE  /\ Closed(c, Inside(c)) /\ Inside(c) \subseteq Values
         /\ \A S \in SUBSET Values : Closed(c, S) => Inside(c) \subseteq S
<1>1. Inside(c) = { v \in Values : \A S \in SUBSET Values : Closed(c, S) => v \in S }
  BY DEF Inside, Values, Closed
<1>2. c \in Inside(c)
  BY <1>1 DEF Closed
<1>3. ASSUME NEW d \in Inside(c) \cap Containers, NEW v \in In(d) PROVE v \in Inside(c)
  <2>1. v \in Values
    BY DEF Shaped
  <2>2. ASSUME NEW S \in SUBSET Values, Closed(c, S) PROVE v \in S
    <3>1. d \in S
      BY <1>1, <2>2
    <3> QED BY <2>2, <3>1 DEF Closed
  <2> QED BY <1>1, <2>1, <2>2
<1> QED BY <1>1, <1>2, <1>3 DEF Closed

LEMMA InsideOfString == ASSUME Shaped, NEW s \in Strings PROVE Inside(s) = {s}
<1>1. s \in Values /\ s \notin Containers
  BY JsonAssumption DEF Values
<1>2. Closed(s, {s}) /\ {s} \in SUBSET Values
  BY <1>1 DEF Closed
<1> QED BY <1>1, <1>2, InsideLeast DEF Closed

LEMMA InsideOfContainer ==
  ASSUME Shaped, NEW c \in Containers
  PROVE  Inside(c) = {c} \cup UNION { Inside(d) : d \in In(c) }
<1> DEFINE S == {c} \cup UNION { Inside(d) : d \in In(c) }
<1>1. c \in Values /\ In(c) \subseteq Values
  BY DEF Shaped, Values
<1>2. S \in SUBSET Values
  BY <1>1, InsideLeast
<1>3. Closed(c, S)
  <2>1. ASSUME NEW d \in In(c), NEW e \in Inside(d) \cap Containers PROVE In(e) \subseteq Inside(d)
    BY <1>1, InsideLeast DEF Closed
  <2>2. \A d \in In(c) : d \in Inside(d)
    BY <1>1, InsideLeast DEF Closed
  <2> QED BY <2>1, <2>2 DEF Closed
<1>4. Inside(c) \subseteq S
  BY <1>1, <1>2, <1>3, InsideLeast
<1>5. ASSUME NEW d \in In(c) PROVE Inside(d) \subseteq Inside(c)
  <2>1. d \in Values /\ d \in Inside(c) /\ Inside(c) \in SUBSET Values
    BY <1>1, InsideLeast DEF Closed
  <2>2. Closed(d, Inside(c))
    BY <1>1, <2>1, InsideLeast DEF Closed
  <2> QED BY <2>1, <2>2, InsideLeast
<1>6. c \in Inside(c)
  BY <1>1, InsideLeast DEF Closed
<1> QED BY <1>4, <1>5, <1>6

(* A document is plain if its own texts and all that is in it are.         *)
LEMMA PlainString ==
  ASSUME Shaped, NEW s \in Strings
  PROVE  Plain(s) <=> "control" \notin ToSet(TextOf[s])
<1>1. TextsIn(s) = {TextOf[s]}
  BY InsideOfString, JsonAssumption DEF TextsIn
<1> QED BY <1>1 DEF Plain

LEMMA PlainContainer ==
  ASSUME Shaped, NEW c \in Containers
  PROVE  Plain(c) <=> /\ kind[c] = "object" => \A k \in DOMAIN items[c] : "control" \notin ToSet(k)
                      /\ \A d \in In(c) : Plain(d)
<1> DEFINE own == IF kind[c] = "object" THEN DOMAIN items[c] ELSE {}
<1>1. Inside(c) = {c} \cup UNION { Inside(d) : d \in In(c) } /\ c \notin Strings
  BY InsideOfContainer, JsonAssumption
<1>2. TextsIn(c) = own \cup UNION { TextsIn(d) : d \in In(c) }
  <2>1. ASSUME NEW t \in TextsIn(c) PROVE t \in own \cup UNION { TextsIn(d) : d \in In(c) }
    <3>1. CASE \E s \in Inside(c) \cap Strings : t = TextOf[s]
      BY <1>1, <3>1 DEF TextsIn
    <3>2. CASE \E e \in Inside(c) \cap Containers : kind[e] = "object" /\ t \in DOMAIN items[e]
      BY <1>1, <3>2 DEF TextsIn
    <3> QED BY <2>1, <3>1, <3>2 DEF TextsIn
  <2>2. own \subseteq TextsIn(c)
    BY <1>1 DEF TextsIn
  <2>3. ASSUME NEW d \in In(c) PROVE TextsIn(d) \subseteq TextsIn(c)
    <3>1. Inside(d) \subseteq Inside(c)
      BY <1>1
    <3> QED BY <3>1 DEF TextsIn
  <2> QED BY <2>1, <2>2, <2>3
<1> QED BY <1>2 DEF Plain

(* A value is read as what it is if it is plain, by the rank of what is in *)
(* it.                                                                     *)
LEMMA ArrayValueRead ==
  ASSUME Shaped, NEW c \in Containers, kind[c] = "array", NEW text, NEW of,
         text = [v \in Values |-> WrittenAs(v, text)], of = [v \in Values |-> MeantAs(v, of)],
         \A d \in In(c) : Readable(text[d], Plain(d), of[d])
  PROVE  Readable(text[c], Plain(c), of[c])
<1> DEFINE n == Len(items[c])
           texts == [i \in DOMAIN items[c] |-> text[items[c][i]]]
           is == [i \in DOMAIN items[c] |-> of[items[c][i]]]
           M == { of[d] : d \in Values }
           good == { i \in 1 .. n : Plain(items[c][i]) }
<1>1. c \in Values /\ c \notin Strings /\ items[c] \in Seq(Values)
  BY JsonAssumption DEF Shaped, Values
<1>2. n \in Nat /\ DOMAIN items[c] = 1 .. n /\ \A i \in 1 .. n : items[c][i] \in Values /\ items[c][i] \in In(c)
  BY <1>1, LenProperties, ElementOfSeq DEF In
<1>3. /\ text[c] = <<"[">> \o Separated(texts) \o <<"]">>
      /\ of[c] = <<"array", is>>
  <2>1. WrittenAs(c, text) = <<"[">> \o Separated(texts) \o <<"]">>
    BY <1>1 DEF WrittenAs
  <2>2. MeantAs(c, of) = <<"array", is>>
    BY <1>1 DEF MeantAs
  <2>3. text[c] = WrittenAs(c, text) /\ of[c] = MeantAs(c, of)
    BY <1>1
  <2> QED BY <2>1, <2>2, <2>3
<1>4. \A i \in 1 .. n : Readable(text[items[c][i]], Plain(items[c][i]), of[items[c][i]])
  BY <1>2
<1>5. /\ texts = [i \in 1 .. n |-> text[items[c][i]]]
      /\ is = [i \in 1 .. n |-> of[items[c][i]]]
  BY <1>2
<1>6. 1 .. n \subseteq good <=> Plain(c)
  <2>1. Plain(c) <=> \A d \in In(c) : Plain(d)
    BY PlainContainer
  <2>2. \A d \in In(c) : \E i \in 1 .. n : d = items[c][i]
    BY <1>2 DEF In
  <2> QED BY <1>2, <2>1, <2>2
<1>7. \A i \in 1 .. n : i \in good <=> Plain(items[c][i])
  OBVIOUS
<1> HIDE DEF n, texts, is, good
<1>8. texts \in [1 .. n -> Texts] /\ is \in [1 .. n -> M]
  BY <1>2, <1>4, <1>5 DEF Readable
<1> HIDE DEF M
<1>9. texts \in Seq(Texts) /\ is \in Seq(M) /\ Len(texts) = n /\ Len(is) = n
  BY <1>2, <1>8, LenProperties
<1>10. \A i \in 1 .. n : Readable(texts[i], i \in good, is[i])
  <2> SUFFICES ASSUME NEW i \in 1 .. n PROVE Readable(texts[i], i \in good, is[i])
    OBVIOUS
  <2>1. texts[i] = text[items[c][i]] /\ is[i] = of[items[c][i]]
    BY <1>5
  <2> QED BY <1>4, <1>7, <2>1 DEF Readable
<1>11. Readable(<<"[">> \o Separated(texts) \o <<"]">>, 1 .. n \subseteq good, <<"array", is>>)
  BY <1>9, <1>10, ArrayRead
<1> QED BY <1>3, <1>6, <1>11 DEF Readable

LEMMA ObjectValueRead ==
  ASSUME Shaped, NEW c \in Containers, kind[c] = "object", NEW text, NEW of,
         text = [v \in Values |-> WrittenAs(v, text)], of = [v \in Values |-> MeantAs(v, of)],
         \A d \in In(c) : Readable(text[d], Plain(d), of[d])
  PROVE  Readable(text[c], Plain(c), of[c])
<1> DEFINE keys == InOrder(items[c])  n == Len(keys)
           texts == [i \in DOMAIN keys |-> Member(keys[i], text[items[c][keys[i]]])]
           value == [i \in 1 .. n |-> text[items[c][keys[i]]]]
           is == [i \in 1 .. n |-> of[items[c][keys[i]]]]
           good == { i \in 1 .. n : Plain(items[c][keys[i]]) }
           members == { <<k, of[items[c][k]]>> : k \in DOMAIN items[c] }
           allGood == \A i \in 1 .. n : "control" \notin ToSet(keys[i]) /\ i \in good
<1>1. c \in Values /\ c \notin Strings /\ DOMAIN items[c] \subseteq Keys
  BY JsonAssumption DEF Shaped, Values
<1>2. /\ keys \in Seq(DOMAIN items[c]) /\ DOMAIN keys = 1 .. n /\ n \in Nat
      /\ \A i \in 1 .. n : keys[i] \in DOMAIN items[c]
      /\ \A k \in DOMAIN items[c] : \E i \in 1 .. n : keys[i] = k
  BY KeysAre
<1>3. /\ text[c] = <<"{">> \o Separated(texts) \o <<"}">>
      /\ of[c] = <<"object", members>>
  <2>1. WrittenAs(c, text) = <<"{">> \o Separated(texts) \o <<"}">>
    BY <1>1 DEF WrittenAs
  <2>2. MeantAs(c, of) = <<"object", members>>
    BY <1>1 DEF MeantAs
  <2>3. text[c] = WrittenAs(c, text) /\ of[c] = MeantAs(c, of)
    BY <1>1
  <2> QED BY <2>1, <2>2, <2>3
<1> HIDE DEF keys, n
<1>4. \A i \in 1 .. n :
        Readable(text[items[c][keys[i]]], Plain(items[c][keys[i]]), of[items[c][keys[i]]])
  BY <1>2 DEF In
<1>5. \A i \in 1 .. n : keys[i] \in Texts
  BY <1>1, <1>2, JsonAssumption DEF Texts
<1>6. \A i \in 1 .. n :
        /\ value[i] = text[items[c][keys[i]]] /\ is[i] = of[items[c][keys[i]]]
        /\ i \in good <=> Plain(items[c][keys[i]])
  OBVIOUS
<1>7. texts = [i \in 1 .. n |-> Member(keys[i], value[i])]
  BY <1>2
<1>8. members = { <<keys[i], is[i]>> : i \in 1 .. n }
  BY <1>2, <1>6
<1>9. allGood <=> Plain(c)
  <2>1. Plain(c) <=> /\ \A k \in DOMAIN items[c] : "control" \notin ToSet(k)
                     /\ \A d \in In(c) : Plain(d)
    BY PlainContainer
  <2>2. (\A d \in In(c) : Plain(d)) <=> \A i \in 1 .. n : Plain(items[c][keys[i]])
    BY <1>2 DEF In
  <2>3. (\A k \in DOMAIN items[c] : "control" \notin ToSet(k)) <=>
          \A i \in 1 .. n : "control" \notin ToSet(keys[i])
    BY <1>2
  <2> QED BY <1>6, <2>1, <2>2, <2>3
<1> HIDE DEF texts, value, is, good, members
<1>10. \A i \in 1 .. n : Readable(value[i], i \in good, is[i])
  BY <1>4, <1>6 DEF Readable
<1>11. \A i \in 1 .. n : Member(keys[i], value[i]) \in Texts
  BY <1>5, <1>10, MemberRead
<1>12. texts \in [1 .. n -> Texts] /\ keys \in [1 .. n -> Texts]
  <2>1. keys = [i \in 1 .. n |-> keys[i]]
    BY <1>2
  <2> QED BY <1>5, <1>7, <1>11, <2>1
<1>13. texts \in Seq(Texts) /\ keys \in Seq(Texts) /\ Len(texts) = n /\ Len(keys) = n
  BY <1>2, <1>12, LenProperties DEF n
<1>14. \A i \in 1 .. n : texts[i] = Member(keys[i], value[i]) /\ Readable(value[i], i \in good, is[i])
  BY <1>7, <1>10
<1>15. Members(keys, texts, value, is, good, allGood, members)
  BY <1>8, <1>13, <1>14 DEF Members
<1> HIDE DEF allGood
<1>16. Readable(<<"{">> \o Separated(texts) \o <<"}">>, allGood, <<"object", members>>)
  BY <1>15, ObjectRead
<1> QED BY <1>3, <1>9, <1>16 DEF Readable

LEMMA ValuesRead ==
  ASSUME Shaped, NEW text, NEW of,
         text = [v \in Values |-> WrittenAs(v, text)], of = [v \in Values |-> MeantAs(v, of)]
  PROVE  \A v \in Values : Readable(text[v], Plain(v), of[v])
<1>1. PICK n \in Nat : \E rank \in [Values -> 0 .. n] :
        \A c \in Containers : \A v \in In(c) : rank[v] < rank[c]
  BY DEF Shaped, Acyclic
<1>2. PICK rank \in [Values -> 0 .. n] : \A c \in Containers : \A v \in In(c) : rank[v] < rank[c]
  BY <1>1
<1> DEFINE S == { k \in Nat : \A v \in Values : rank[v] < k => Readable(text[v], Plain(v), of[v]) }
<1>3. 0 \in S
  <2>1. \A v \in Values : ~(rank[v] < 0)
    BY <1>2
  <2> QED BY <2>1
<1>4. ASSUME NEW k \in Nat, k \in S PROVE k + 1 \in S
  <2>1. ASSUME NEW v \in Values, rank[v] < k + 1 PROVE Readable(text[v], Plain(v), of[v])
    <3>1. CASE v \in Strings
      <4>1. text[v] = serialize_string(TextOf[v]) /\ of[v] = <<"text", TextOf[v]>>
        <5>1. WrittenAs(v, text) = serialize_string(TextOf[v])
          BY <3>1, JsonAssumption DEF WrittenAs
        <5>2. MeantAs(v, of) = <<"text", TextOf[v]>>
          BY <3>1, JsonAssumption DEF MeantAs
        <5>3. text[v] = WrittenAs(v, text) /\ of[v] = MeantAs(v, of)
          OBVIOUS
        <5> QED BY <5>1, <5>2, <5>3
      <4>2. TextOf[v] \in Seq(Characters)
        BY <3>1, JsonAssumption
      <4>3. \A r : Expects(r) => Reads(r, "quote") = Reader("text", <<>>, r)
        BY DEF Expects, Reads, Outside
      <4>4. /\ serialize_string(TextOf[v]) \in Texts
            /\ \A r : Expects(r) => ReadFrom(r, serialize_string(TextOf[v])) =
                 IF "control" \in ToSet(TextOf[v]) THEN NotJson ELSE Took(r, <<"text", TextOf[v]>>)
        BY <4>2, <4>3, StringRead DEF Texts
      <4>5. Plain(v) <=> "control" \notin ToSet(TextOf[v])
        BY <3>1, PlainString
      <4> QED BY <4>1, <4>4, <4>5 DEF Readable
    <3>2. CASE v \in Containers
      <4>1. ASSUME NEW d \in In(v) PROVE Readable(text[d], Plain(d), of[d])
        <5>1. d \in Values /\ rank[d] < rank[v]
          BY <1>2, <3>2 DEF Shaped
        <5>2. rank[d] < k
          BY <1>2, <2>1, <5>1
        <5> QED BY <1>4, <5>1, <5>2
      <4>2. kind[v] = "array" \/ kind[v] = "object"
        BY <3>2 DEF Shaped
      <4> QED BY <3>2, <4>1, <4>2, ArrayValueRead, ObjectValueRead
    <3> QED BY <3>1, <3>2 DEF Values
  <2> QED BY <2>1
<1>5. n + 1 \in S
  <2> HIDE DEF S
  <2>1. Nat \subseteq S
    BY <1>3, <1>4, SetInduction
  <2> QED BY <2>1
<1>6. \A v \in Values : rank[v] < n + 1
  BY <1>2
<1> QED BY <1>5, <1>6

LEMMA DocumentsRead == ASSUME Shaped, jsonLive \subseteq Values PROVE JsonRead
<1> SUFFICES ASSUME NEW c \in Containers
    PROVE  ReadFrom(Start, Written(c)) = IF Plain(c) THEN Took(Start, Meaning(c)) ELSE NotJson
  BY DEF JsonRead
<1>1. PICK text, of : /\ text = [v \in Values |-> WrittenAs(v, text)]
                      /\ of = [v \in Values |-> MeantAs(v, of)]
                      /\ \A d : Written(d) = text[d] /\ Meaning(d) = of[d]
  BY DocumentIs
<1>2. Readable(text[c], Plain(c), of[c])
  <2>1. \A v \in Values : Readable(text[v], Plain(v), of[v])
    BY <1>1, ValuesRead
  <2> QED BY <2>1 DEF Values
<1>3. Expects(Start)
  BY DEF Expects, Start, Reader
<1> QED BY <1>1, <1>2, <1>3 DEF Readable

-----------------------------------------------------------------------------
(* The shape is kept.  What is not there has nothing in it, and what is put*)
(* into a container has not got the container in it.                       *)
ShapeInv ==
  /\ Shaped
  /\ \A c \in Containers \ jsonLive : DOMAIN items[c] = {}

LEMMA AcyclicShrinks ==
  ASSUME Acyclic, \A c \in Containers : In(c)' \subseteq In(c)
  PROVE  Acyclic'
<1>1. PICK n \in Nat : \E rank \in [Values -> 0 .. n] :
        \A c \in Containers : \A v \in In(c) : rank[v] < rank[c]
  BY DEF Acyclic
<1>2. PICK rank \in [Values -> 0 .. n] : \A c \in Containers : \A v \in In(c) : rank[v] < rank[c]
  BY <1>1
<1>3. \A c \in Containers : \A v \in In(c)' : rank[v] < rank[c]
  BY <1>2
<1>4. Values' = Values
  BY DEF Values
<1> QED BY <1>3, <1>4 DEF Acyclic

(* Above has the container and all that it is in, and not what is put into *)
(* it.                                                                     *)
LEMMA AcyclicGrows ==
  ASSUME Shaped, NEW c \in Containers, NEW v \in Values, NEW Above \in SUBSET Values,
         c \in Above, v \notin Above,
         \A d \in Containers : \A y \in In(d) : y \in Above => d \in Above,
         \A d \in Containers : \A y \in In(d)' : y \in In(d) \/ (d = c /\ y = v)
  PROVE  Acyclic'
<1>1. PICK n \in Nat : \E rank \in [Values -> 0 .. n] :
        \A d \in Containers : \A y \in In(d) : rank[y] < rank[d]
  BY DEF Shaped, Acyclic
<1>2. PICK rank \in [Values -> 0 .. n] : \A d \in Containers : \A y \in In(d) : rank[y] < rank[d]
  BY <1>1
<1> DEFINE new == [x \in Values |-> IF x \in Above THEN rank[x] + rank[v] + 1 ELSE rank[x]]
<1>3. \A x \in Values : rank[x] \in 0 .. n
  BY <1>2
<1>4. new \in [Values -> 0 .. n + n + 1] /\ n + n + 1 \in Nat
  <2>1. \A x \in Values : rank[x] + rank[v] + 1 \in 0 .. n + n + 1 /\ rank[x] \in 0 .. n + n + 1
    BY <1>3
  <2> QED BY <2>1
<1>5. ASSUME NEW d \in Containers, NEW y \in In(d)' PROVE new[y] < new[d]
  <2>1. d \in Values
    BY DEF Values
  <2>2. CASE y \in In(d)
    <3>1. y \in Values /\ rank[y] < rank[d] /\ (y \in Above => d \in Above)
      BY <1>2, <2>2 DEF Shaped
    <3>2. /\ new[y] = IF y \in Above THEN rank[y] + rank[v] + 1 ELSE rank[y]
          /\ new[d] = IF d \in Above THEN rank[d] + rank[v] + 1 ELSE rank[d]
      BY <2>1, <3>1
    <3>3. rank[y] \in Nat /\ rank[d] \in Nat /\ rank[v] \in Nat
      BY <1>3, <2>1, <3>1
    <3> HIDE DEF new
    <3> QED BY <3>1, <3>2, <3>3
  <2>3. CASE d = c /\ y = v
    <3>1. new[y] = rank[v] /\ new[d] = rank[d] + rank[v] + 1
      BY <2>1, <2>3
    <3>2. rank[d] \in Nat /\ rank[v] \in Nat
      BY <1>3, <2>1
    <3> HIDE DEF new
    <3> QED BY <3>1, <3>2
  <2> QED BY <2>2, <2>3
<1>6. Values' = Values
  BY DEF Values
<1> HIDE DEF new
<1>7. \E m \in Nat : \E r \in [Values -> 0 .. m] :
        \A d \in Containers : \A y \in In(d)' : r[y] < r[d]
  BY <1>4, <1>5
<1> QED BY <1>6, <1>7 DEF Acyclic

LEMMA ShapeGrows ==
  ASSUME JsonInv, JsonInv', ShapeInv, NEW c \in Containers, NEW k, NEW v \in Values,
         Insert(c, k, v), jsonLive' = jsonLive \cup {v},
         items'[c] = Put(c, k, v), kind'[c] = kind[c],
         \A d \in Containers : d # c =>
           \/ items'[d] = items[d] /\ kind'[d] = kind[d]
           \/ DOMAIN items'[d] = {},
         NEW Above \in SUBSET Values, c \in Above, v \notin Above,
         \A d \in Containers : \A y \in In(d) : y \in Above => d \in Above
  PROVE  ShapeInv'
<1>1. c \in jsonLive /\ Room(c, k)
  BY DEF Insert
<1>2. Grown(items[c], items'[c], v, Refused(c, k))
  BY <1>1, PutAdds DEF JsonInv
<1>3. \A d \in Containers : \A y \in In(d)' : y \in In(d) \/ (d = c /\ y = v)
  <2> SUFFICES ASSUME NEW d \in Containers, NEW i \in DOMAIN items'[d]
               PROVE  items'[d][i] \in In(d) \/ (d = c /\ items'[d][i] = v)
    BY DEF In
  <2>1. CASE d # c
    BY <2>1 DEF In
  <2>2. CASE d = c
    BY <1>2, <2>2 DEF Grown, In
  <2> QED BY <2>1, <2>2
<1>4. \A d \in Containers : In(d)' \subseteq Values
  BY <1>3 DEF ShapeInv, Shaped
<1>5. Acyclic'
  BY <1>3, AcyclicGrows DEF ShapeInv
<1>6. ASSUME NEW d \in Containers, kind'[d] = "object"
      PROVE  IsFiniteSet(DOMAIN items'[d]) /\ DOMAIN items'[d] \subseteq Keys
  <2>1. CASE DOMAIN items'[d] = {}
    BY <2>1, FS_EmptySet
  <2>2. CASE d # c /\ items'[d] = items[d] /\ kind'[d] = kind[d]
    BY <1>6, <2>2 DEF ShapeInv, Shaped
  <2>3. CASE d = c
    <3>1. IsFiniteSet(DOMAIN items[c]) /\ DOMAIN items[c] \subseteq Keys /\ kind[c] = "object"
      BY <1>6, <2>3 DEF ShapeInv, Shaped
    <3>2. k \in Keys
      BY <1>1, <3>1 DEF Room
    <3>3. DOMAIN items'[c] = DOMAIN items[c] \cup {k}
      BY <3>1 DEF Put
    <3> QED BY <2>3, <3>1, <3>2, <3>3, FS_AddElement
  <2> QED BY <2>1, <2>2, <2>3
<1>7. ASSUME NEW d \in Containers, d \notin jsonLive' PROVE DOMAIN items'[d] = {}
  BY <1>1, <1>7 DEF ShapeInv
<1>8. Values' = Values
  BY DEF Values
<1>9. kind' \in [Containers -> {"object", "array"}]
  BY DEF JsonInv, Made
<1>10. \A d \in Containers : kind'[d] = "array" => items'[d] \in Seq(Values)
  BY <1>8 DEF JsonInv, Made
<1>11. Shaped'
  BY <1>4, <1>5, <1>6, <1>8, <1>9, <1>10 DEF Shaped
<1> QED BY <1>7, <1>11 DEF ShapeInv

LEMMA ShapeShrinks ==
  ASSUME JsonInv', ShapeInv,
         \A d \in Containers :
           \/ items'[d] = items[d] /\ kind'[d] = kind[d] /\ (d \in jsonLive => d \in jsonLive')
           \/ DOMAIN items'[d] = {}
  PROVE  ShapeInv'
<1>1. \A d \in Containers : In(d)' \subseteq In(d)
  BY DEF In
<1>2. Acyclic'
  BY <1>1, AcyclicShrinks DEF ShapeInv, Shaped
<1>3. ASSUME NEW d \in Containers, kind'[d] = "object"
      PROVE  IsFiniteSet(DOMAIN items'[d]) /\ DOMAIN items'[d] \subseteq Keys
  <2>1. CASE DOMAIN items'[d] = {}
    BY <2>1, FS_EmptySet
  <2>2. CASE items'[d] = items[d] /\ kind'[d] = kind[d]
    BY <1>3, <2>2 DEF ShapeInv, Shaped
  <2> QED BY <2>1, <2>2
<1>4. Values' = Values
  BY DEF Values
<1>5. kind' \in [Containers -> {"object", "array"}]
  BY DEF JsonInv, Made
<1>6. \A d \in Containers : kind'[d] = "array" => items'[d] \in Seq(Values)
  BY <1>4 DEF JsonInv, Made
<1>7. \A d \in Containers : In(d)' \subseteq Values
  BY <1>1 DEF ShapeInv, Shaped
<1>8. Shaped'
  BY <1>2, <1>3, <1>4, <1>5, <1>6, <1>7 DEF Shaped
<1>9. ASSUME NEW d \in Containers, d \notin jsonLive' PROVE DOMAIN items'[d] = {}
  BY <1>9 DEF ShapeInv
<1> QED BY <1>8, <1>9 DEF ShapeInv

LEMMA ShapeInit == ASSUME JsonInit PROVE ShapeInv
<1>1. \A c \in Containers : items[c] = <<>> /\ DOMAIN items[c] = {} /\ In(c) = {}
  BY DEF JsonInit, In
<1>2. JsonInv
  BY JsonInitInv
<1>3. Acyclic
  <2> DEFINE rank == [v \in Values |-> 0]
  <2>1. rank \in [Values -> 0 .. 0] /\ 0 \in Nat
    OBVIOUS
  <2> HIDE DEF rank
  <2> QED BY <1>1, <2>1 DEF Acyclic
<1>4. Shaped
  BY <1>1, <1>2, <1>3, FS_EmptySet DEF Shaped, JsonInv, Made
<1> QED BY <1>1, <1>4 DEF ShapeInv

(* What is new is in nothing and has nothing in it.                        *)
LEMMA NothingInNew ==
  ASSUME ShapeInv, NEW c \in jsonLive \cap Containers, NEW v \in Values \ jsonLive
  PROVE  /\ c \in Values \ {v} /\ v \notin Values \ {v} /\ Values \ {v} \in SUBSET Values
         /\ \A d \in Containers : \A y \in In(d) : y \in Values \ {v} => d \in Values \ {v}
BY DEF ShapeInv, Values, In

LEMMA AddMadeShape ==
  ASSUME JsonInv, JsonInv', ShapeInv, NEW c \in Containers, NEW k, NEW child \in Containers,
         AddMade(c, k, child)
  PROVE  ShapeInv'
<1> DEFINE Above == { x \in Values : c \in Inside(x) }
<1>1. Shaped
  BY DEF ShapeInv
<1>2. c \in Values /\ child \in Values
  BY DEF Values
<1>3. c \in Above
  BY <1>1, <1>2, InsideLeast DEF Closed
<1>4. child \notin Above
  BY DEF AddMade
<1>5. ASSUME NEW d \in Containers, NEW y \in In(d), y \in Above PROVE d \in Above
  <2>1. Inside(d) = {d} \cup UNION { Inside(e) : e \in In(d) }
    BY <1>1, InsideOfContainer
  <2> QED BY <1>5, <2>1 DEF Values
<1>6. /\ Insert(c, k, child) /\ jsonLive' = jsonLive \cup {child} /\ kind' = kind
      /\ items' = [items EXCEPT ![c] = Put(c, k, child)]
  BY DEF AddMade
<1>7. items'[c] = Put(c, k, child) /\ \A d \in Containers : d # c => items'[d] = items[d]
  BY <1>6 DEF JsonInv, Made
<1>8. Above \in SUBSET Values
  OBVIOUS
<1> HIDE DEF Above
<1> QED BY <1>2, <1>3, <1>4, <1>5, <1>6, <1>7, <1>8, ShapeGrows

LEMMA ShapeStep ==
  ASSUME JsonInv, JsonInv', ShapeInv, [JsonNext]_jsonVars
  PROVE  ShapeInv'
<1>1. ASSUME NEW c \in Containers, NEW k, NEW s \in Strings, AddString(c, k, s) PROVE ShapeInv'
  <2>1. /\ Insert(c, k, s) /\ jsonLive' = jsonLive \cup {s} /\ kind' = kind
        /\ items' = [items EXCEPT ![c] = Put(c, k, s)] /\ s \in Values \ jsonLive
        /\ c \in jsonLive \cap Containers
    BY <1>1 DEF AddString, Values, Insert
  <2>2. items'[c] = Put(c, k, s) /\ \A d \in Containers : d # c => items'[d] = items[d]
    BY <2>1 DEF JsonInv, Made
  <2> DEFINE Above == Values \ {s}
  <2>3. /\ c \in Above /\ s \notin Above /\ Above \in SUBSET Values /\ s \in Values
        /\ \A e \in Containers : \A y \in In(e) : y \in Above => e \in Above
    BY <2>1, NothingInNew
  <2> HIDE DEF Above
  <2>4. ShapeInv'
    BY <2>1, <2>2, <2>3, ShapeGrows
  <2> QED BY <2>4
<1>2. ASSUME NEW c \in Containers, NEW d \in Containers, NEW k, NEW what \in {"object", "array"},
             AddNew(c, k, d, what)
      PROVE  ShapeInv'
  <2>1. /\ Insert(c, k, d) /\ jsonLive' = jsonLive \cup {d} /\ kind' = [kind EXCEPT ![d] = what]
        /\ items' = [items EXCEPT ![c] = Put(c, k, d), ![d] = <<>>] /\ d \in Values \ jsonLive
        /\ c \in jsonLive \cap Containers /\ c # d
    BY <1>2 DEF AddNew, Values, Insert
  <2>2. /\ items'[c] = Put(c, k, d) /\ kind'[c] = kind[c]
        /\ \A e \in Containers : e # c =>
             \/ items'[e] = items[e] /\ kind'[e] = kind[e]
             \/ DOMAIN items'[e] = {}
    <3>1. items'[c] = Put(c, k, d) /\ kind'[c] = kind[c] /\ DOMAIN items'[d] = {}
      BY <2>1 DEF JsonInv, Made
    <3>2. \A e \in Containers : e # c /\ e # d => items'[e] = items[e] /\ kind'[e] = kind[e]
      BY <2>1 DEF JsonInv, Made
    <3> QED BY <3>1, <3>2
  <2> DEFINE Above == Values \ {d}
  <2>3. /\ c \in Above /\ d \notin Above /\ Above \in SUBSET Values /\ d \in Values
        /\ \A e \in Containers : \A y \in In(e) : y \in Above => e \in Above
    BY <2>1, NothingInNew
  <2> HIDE DEF Above
  <2>4. ShapeInv'
    BY <2>1, <2>2, <2>3, ShapeGrows
  <2> QED BY <2>4
<1>3. ASSUME NEW d \in Containers, NEW what \in {"object", "array"}, Make(d, what) PROVE ShapeInv'
  <2>1. /\ jsonLive' = jsonLive \cup {d} /\ kind' = [kind EXCEPT ![d] = what]
        /\ items' = [items EXCEPT ![d] = <<>>]
    BY <1>3 DEF Make
  <2>2. DOMAIN items'[d] = {}
    BY <2>1 DEF JsonInv, Made
  <2>3. \A e \in Containers : e # d => items'[e] = items[e] /\ kind'[e] = kind[e]
    BY <2>1 DEF JsonInv, Made
  <2> QED BY <2>1, <2>2, <2>3, ShapeShrinks
<1>4. ASSUME NEW c \in Containers, Delete(c) PROVE ShapeInv'
  <2>1. /\ jsonLive' = jsonLive \ Inside(c) /\ kind' = kind
        /\ items' = [d \in Containers |-> IF d \in Inside(c) THEN <<>> ELSE items[d]]
    BY <1>4 DEF Delete
  <2>2. \A d \in Containers : d \in Inside(c) => DOMAIN items'[d] = {}
    BY <2>1
  <2>3. \A d \in Containers : d \notin Inside(c) =>
          items'[d] = items[d] /\ kind'[d] = kind[d] /\ (d \in jsonLive => d \in jsonLive')
    BY <2>1
  <2> QED BY <2>2, <2>3, ShapeShrinks
<1>5. CASE UNCHANGED jsonVars
  BY <1>5, ShapeShrinks DEF jsonVars
<1> QED BY <1>1, <1>2, <1>3, <1>4, <1>5, AddMadeShape DEF JsonNext

(* What operator<< writes is read back as what is in the document, unless  *)
(* it has a control character that has no escape: json.cpp:78-221.         *)
THEOREM JsonIsReadBack == JsonSpec => []JsonRead
<1>1. JsonInit => JsonInv /\ ShapeInv
  BY JsonInitInv, ShapeInit
<1>2. JsonInv /\ ShapeInv /\ [JsonNext]_jsonVars => (JsonInv /\ ShapeInv)'
  BY JsonStepInv, ShapeStep
<1>3. JsonInv /\ ShapeInv => JsonRead
  BY DocumentsRead DEF ShapeInv, JsonInv, Made
<1> QED BY <1>1, <1>2, <1>3, PTL DEF JsonSpec

=============================================================================
