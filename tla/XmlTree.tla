------------------------------ MODULE XmlTree ------------------------------
(***************************************************************************)
(* Who owns the nodes of a document: XMLText, XMLNode and XMLDoc of        *)
(* src/src/server/xml.h over libxml2, used the way wp_handler and          *)
(* sitemap_handler use them.  A node is made under a guard on the stack,   *)
(* is released by it to become a child of another node or of the document, *)
(* and is freed by whoever has it last; an exception may end the handler   *)
(* between any two of these steps.                                         *)
(***************************************************************************)
EXTENDS Naturals, Sequences, FiniteSets, SequencesExt

CONSTANTS
  Nodes,      \* the addresses libxml2 may allocate
  Doc,        \* the document, with its root element
  NoNode,     \* a null pointer
  MaxGuards   \* bound: guards in scope at a time

ASSUME XmlAssumption == Doc \notin Nodes /\ NoNode \notin Nodes \cup {Doc}

VARIABLES
  xmlLive,    \* nodes allocated and not freed
  parent,     \* the node or document each is a child of
  endsInText, \* nodes whose last child is text
  guards,     \* the guards in scope, with the node each still has
  building,   \* "document", "unwinding" or "over"
  freedTwice

treeVars == <<xmlLive, parent, endsInText>>
xmlVars == <<treeVars, guards, building, freedTwice>>

XmlInit ==
  /\ xmlLive = {} /\ endsInText = {}
  /\ parent = [n \in Nodes |-> NoNode]
  /\ guards = <<>>
  /\ building = "document"
  /\ freedTwice = FALSE

Held == ToSet(guards) \ {NoNode}

(* XMLNode(name).                                                          *)
MakeNode(n) ==
  /\ building = "document" /\ Len(guards) < MaxGuards
  /\ xmlLive' = xmlLive \cup {n}
  /\ parent' = [parent EXCEPT ![n] = NoNode]
  /\ endsInText' = endsInText \ {n}
  /\ guards' = Append(guards, n)
  /\ UNCHANGED <<building, freedTwice>>

(* p.add(c.release()), and doc.add: what is added was made after the node  *)
(* it is added to.                                                         *)
AddNode(i, p) ==
  /\ building = "document"
  /\ guards[i] # NoNode
  /\ p = Doc \/ \E j \in 1 .. i - 1 : guards[j] = p
  /\ parent' = [parent EXCEPT ![guards[i]] = p]
  /\ endsInText' = endsInText \ {p}
  /\ guards' = [guards EXCEPT ![i] = NoNode]
  /\ UNCHANGED <<xmlLive, building, freedTwice>>

(* add_pi: the guard of the node and its release are in one function.      *)
AddPi(n) ==
  /\ building = "document"
  /\ xmlLive' = xmlLive \cup {n}
  /\ parent' = [parent EXCEPT ![n] = Doc]
  /\ UNCHANGED <<endsInText, guards, building, freedTwice>>

(* Mutant: add_text does not release the text it added.                    *)
AddTextKeepsGuard(p, n) ==
  /\ building = "document"
  /\ p \in Held
  /\ parent' = [parent EXCEPT ![n] = p]
  /\ endsInText' = endsInText \cup {p}
  /\ UNCHANGED <<xmlLive, guards, building, freedTwice>>

(* add_text: the text becomes a child, or, after another text, libxml2     *)
(* appends it to that one and frees it; either way the guard lets it go.   *)
AddText(p, n) ==
  /\ building = "document"
  /\ p \in Held
  /\ IF p \in endsInText
     THEN UNCHANGED treeVars
     ELSE /\ xmlLive' = xmlLive \cup {n}
          /\ parent' = [parent EXCEPT ![n] = p]
          /\ endsInText' = endsInText \cup {p}
  /\ UNCHANGED <<guards, building, freedTwice>>

(* An exception leaves the handler, or it is done with its document.       *)
EndBuilding ==
  /\ building = "document"
  /\ building' = "unwinding"
  /\ UNCHANGED <<treeVars, guards, freedTwice>>

(* n and all that hangs below it: the least set that has n and the children *)
(* of what it has.                                                         *)
Below(n) ==
  LET Closed(S) == n \in S /\ \A m \in Nodes : parent[m] \in S => m \in S
  IN  { m \in Nodes \cup {n} : \A S \in SUBSET (Nodes \cup {n}) : Closed(S) => m \in S }

(* xmlFreeNode and xmlFreeDoc: what is below goes with it.                 *)
Free(gone) ==
  /\ xmlLive' = xmlLive \ gone
  /\ freedTwice' = (freedTwice \/ ~(gone \subseteq xmlLive))
  /\ parent' = [n \in Nodes |-> IF n \in gone THEN NoNode ELSE parent[n]]
  /\ endsInText' = endsInText \ gone

(* The end of a scope, of a turn of a loop or of the handler.              *)
GuardEnds ==
  /\ building \in {"document", "unwinding"} /\ guards # <<>>
  /\ IF Last(guards) = NoNode
     THEN UNCHANGED <<treeVars, freedTwice>>
     ELSE Free(Below(Last(guards)))
  /\ guards' = Front(guards)
  /\ UNCHANGED building

(* ~XMLDoc: it was made before every guard and goes after them.            *)
DocEnds ==
  /\ building = "unwinding" /\ guards = <<>>
  /\ Free(Below(Doc) \ {Doc})
  /\ building' = "over"
  /\ UNCHANGED guards

Fresh == Nodes \ xmlLive

XmlNext ==
  \/ \E n \in Fresh : MakeNode(n) \/ AddPi(n)
  \/ \E n \in Fresh, p \in Nodes : AddText(p, n)
  \/ \E i \in DOMAIN guards, p \in Nodes \cup {Doc} : AddNode(i, p)
  \/ EndBuilding \/ GuardEnds \/ DocEnds

XmlSpec == XmlInit /\ [][XmlNext]_xmlVars

-----------------------------------------------------------------------------
(* At every point of a handler each node has one owner, a guard or the     *)
(* node it is a child of, so that whenever it ends and for whatever reason *)
(* everything is freed, and once.                                          *)
XmlFreedOnce ==
  /\ ~freedTwice
  /\ \A n \in xmlLive : (n \in Held) # (parent[n] \in xmlLive \cup {Doc})
  /\ \A n \in Nodes : parent[n] # NoNode => n \in xmlLive
  /\ building = "over" => xmlLive = {}

=============================================================================
